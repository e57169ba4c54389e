--------------------------- MODULE BatcherProofs ---------------------------
(***************************************************************************)
(* Proofs about the batch submitter, for every limit of the queue, every   *)
(* timeout and every bound on frames, blocks and events.                   *)
(*                                                                         *)
(* The first part is about the operators of the model: what the channel    *)
(* builder makes of a channel, what a removal leaves of the queue.  The    *)
(* second part shows what each operation of the channel manager does to    *)
(* the invariant, the third part what each step of the system does.        *)
(***************************************************************************)
EXTENDS Batcher, FiniteSetTheorems, SequenceTheorems, WellFoundedInduction, TLAPS

(***************************************************************************)
(* The inductive invariant.  L2 blocks, and the channels.                  *)
(***************************************************************************)
L2Chains == {b \in Seq({"x", "y"}) : Len(b) <= MaxL2}

FrameNumbers == 0 .. MaxFrames - 1

Confs == UNION {[D -> Nat] : D \in SUBSET FrameNumbers}

Channels == [blocks : Seq(L2Chains), full : BOOLEAN, frames : Seq(Nat),
             numFrames : 0 .. MaxFrames, pending : SUBSET Nat, confirmed : Confs,
             timeout : Int]

Waiting(ch) == {ch.frames[i] : i \in DOMAIN ch.frames}

(***************************************************************************)
(* Each frame that left the compressor is in one place.                    *)
(***************************************************************************)
Split(ch) ==
  /\ \A i, j \in DOMAIN ch.frames : ch.frames[i] = ch.frames[j] => i = j
  /\ Waiting(ch) \cup ch.pending \cup DOMAIN ch.confirmed = 0 .. ch.numFrames - 1
  /\ Waiting(ch) \cap ch.pending = {}
  /\ Waiting(ch) \cap DOMAIN ch.confirmed = {}
  /\ ch.pending \cap DOMAIN ch.confirmed = {}

(***************************************************************************)
(* The types of the chains and of the loop.                                *)
(***************************************************************************)
EnvType ==
  /\ l1Head \in Nat /\ l2 \in L2Chains /\ safe \in L2Chains /\ IsPrefix(safe, l2)
  /\ IsFiniteSet(onL1) /\ onL1 \subseteq FrameIDs \X Nat
  /\ stale \subseteq FrameIDs

LoopType ==
  /\ \A b \in lastStored : b \in L2Chains /\ lastStored = {b}
  /\ main \in {"select", "load", "publish", "stopped"}
  /\ drain \in {"no", "reorg", "stop", "kill"}
  /\ pub \in {"none", "next", "send", "wait"}
  /\ groupErr \in BOOLEAN

(***************************************************************************)
(* The loop publishes while there is a publisher, which holds a frame when *)
(* it sends; it drains only while it publishes, and with nothing stored    *)
(* after a reorg.  No send outlives the loop.                              *)
(***************************************************************************)
Control ==
  /\ main = "publish" <=> pub # "none"
  /\ pub = "send" <=> sending # NoFrame
  /\ drain # "no" => main = "publish"
  /\ drain = "reorg" => lastStored = {}
  /\ main = "stopped" => DOMAIN inflight = {}

(***************************************************************************)
(* The types of the channel manager.                                       *)
(***************************************************************************)
GoodChans(cs) == cs \in Seq(Channels) /\ \A c \in DOMAIN cs : Split(cs[c])

ManagerType ==
  /\ GoodChans(chans)
  /\ channelQueue \in Seq(DOMAIN chans)
  /\ currentChannel \in {0} \cup ToSet(channelQueue)
  /\ blocks \in Seq(L2Chains) /\ tip \in L2Chains /\ closed \in BOOLEAN

(***************************************************************************)
(* The transactions that the manager knows are the ones of the pending     *)
(* frames, and the ones held by the publisher or a send.                   *)
(***************************************************************************)
PendingIn(cs, txs) ==
  /\ txs \subseteq (DOMAIN cs) \X FrameNumbers
  /\ \A c \in DOMAIN cs, n \in FrameNumbers : n \in cs[c].pending <=> <<c, n>> \in txs

TxPending == PendingIn(chans, txChannels)

Held ==
  /\ txChannels = DOMAIN inflight \cup ({sending} \ {NoFrame})
  /\ sending \notin DOMAIN inflight
  /\ \A t \in DOMAIN inflight : inflight[t] \in Nat

(***************************************************************************)
(* What the batcher takes for included is on L1.                           *)
(***************************************************************************)
ConfirmedIn(cs, on) ==
  \A c \in DOMAIN cs : \A n \in DOMAIN cs[c].confirmed :
    <<<<c, n>>, cs[c].confirmed[n]>> \in on

Included ==
  /\ \A t \in DOMAIN inflight : inflight[t] # 0 => <<t, inflight[t]>> \in onL1
  /\ ConfirmedIn(chans, onL1)

(***************************************************************************)
(* A frame that was sent has been made by its channel.  A channel only     *)
(* grows, and it is closed only with one more frame.                       *)
(***************************************************************************)
MadeIn(cs) == {t \in (DOMAIN cs) \X FrameNumbers : t[2] < cs[t[1]].numFrames}

Made == stale \subseteq MadeIn(chans) /\ \A e \in onL1 : e[1] \in MadeIn(chans)

Grown(a, b) ==
  a.numFrames <= b.numFrames /\ (b.full /\ a.numFrames = b.numFrames => a.full)

ChansGrow(cs, ds) == DOMAIN cs \subseteq DOMAIN ds /\ \A c \in DOMAIN cs : Grown(cs[c], ds[c])

(***************************************************************************)
(* The bank.  A channel whose frames reached L1 near each other is in the  *)
(* queue with all of them; or it has been read; or it has been dropped,    *)
(* when it timed out and, unless it is one of lost, before it was complete.*)
(***************************************************************************)
Entries == [ch : DOMAIN chans, open : Nat, frames : SUBSET Nat]

OfChannel(c) == {e \in onL1 : e[1][1] = c}

Arrived(c) == {e[1][2] : e \in OfChannel(c)}

Near(c) == \A e, f \in OfChannel(c) : f[2] <= e[2] + ChannelTimeout

CompleteOnL1(c) == chans[c].full /\ 0 .. chans[c].numFrames - 1 \subseteq Arrived(c)

InQueue(c) ==
  \E i \in DOMAIN bank : /\ bank[i].ch = c /\ Arrived(c) \subseteq bank[i].frames
                         /\ \E e \in OfChannel(c) : bank[i].open = e[2]

Dropped(c) == ~CompleteOnL1(c) /\ \E e \in OfChannel(c) : e[2] + ChannelTimeout < l1Head

BankKnows ==
  \A c \in DOMAIN chans : OfChannel(c) # {} /\ Near(c) =>
    c \in derived \cup lost \/ InQueue(c) \/ Dropped(c)

BankType ==
  /\ bank \in Seq(Entries) /\ \A i \in DOMAIN bank : OfChannel(bank[i].ch) # {}
  /\ derived \subseteq DOMAIN chans

BankInv == Made /\ BankType /\ BankKnows

(***************************************************************************)
(* The last block stored is the last block added, unless it is safe.       *)
(***************************************************************************)
TipStored == \A last \in lastStored : last = tip \/ IsPrefix(last, safe)

BatcherInv ==
  /\ EnvType /\ LoopType /\ Control /\ ManagerType
  /\ TxPending /\ Held /\ Included /\ BankInv /\ TipStored /\ Accounted

-----------------------------------------------------------------------------
(***************************************************************************)
(* A non-empty set of numbers has a smallest one.                          *)
(***************************************************************************)
LEMMA SmallestOf ==
  ASSUME NEW S, S \subseteq Nat, S # {}
  PROVE  Min(S) \in S /\ \A k \in S : Min(S) <= k
<1>1. PICK m \in S : \A k \in S : ~(<<k, m>> \in OpToRel(<, Nat))
  BY NatLessThanWellFounded, WFMin
<1>2. \A k \in S : ~(k < m)
  BY <1>1, Zenon DEF OpToRel
<1>3. \E x \in S : \A y \in S : x =< y
  BY <1>2
<1> QED
  BY <1>3, Zenon DEF Min

(***************************************************************************)
(* A finite set of numbers has a largest one: a smallest subset without    *)
(* one cannot be.                                                          *)
(***************************************************************************)
LEMMA LargestOf ==
  ASSUME NEW S, IsFiniteSet(S), S \subseteq Nat, S # {}
  PROVE  Max(S) \in S /\ \A k \in S : Max(S) >= k
<1> DEFINE HasMax(s) == \E x \in s : \A y \in s : x >= y
           C == {s \in SUBSET S : s # {} /\ ~HasMax(s)}
<1>1. C = {}
  <2> SUFFICES ASSUME C # {} PROVE FALSE
    OBVIOUS
  <2>1. IsWellFoundedOn(StrictSubsetOrdering(S), SUBSET S)
    BY FS_StrictSubsetOrderingWellFounded, FS_FiniteSubsetsOfFinite
  <2>2. PICK s \in C : \A t \in C : ~(<<t, s>> \in StrictSubsetOrdering(S))
    <3>1. C \in SUBSET (SUBSET S)
      OBVIOUS
    <3> HIDE DEF C
    <3> QED
      BY <2>1, <3>1, WFMin
  <2>3. PICK e : e \in s
    OBVIOUS
  <2> DEFINE t == s \ {e}
  <2>4. t \in SUBSET S /\ s \in SUBSET S /\ t # s /\ t \subseteq s
    BY <2>3
  <2>5. t \notin C
    BY <2>2, <2>4 DEF StrictSubsetOrdering
  <2>6. CASE t = {}
    <3>1. s = {e} /\ e \in Nat
      BY <2>3, <2>4, <2>6
    <3>2. HasMax(s)
      BY <3>1
    <3> QED
      BY <3>2
  <2>7. CASE t # {}
    <3>1. HasMax(t)
      BY <2>4, <2>5, <2>7
    <3>2. PICK x \in t : \A y \in t : x >= y
      BY <3>1
    <3>3. e \in Nat /\ x \in Nat /\ \A y \in s : y \in Nat /\ (y \in t \/ y = e)
      BY <2>3, <2>4
    <3>4. CASE x >= e
      <4>1. \A y \in s : x >= y
        BY <3>2, <3>3, <3>4
      <4> QED
        BY <2>4, <4>1
    <3>5. CASE e >= x
      <4>1. \A y \in s : e >= y
        BY <3>2, <3>3, <3>5
      <4> QED
        BY <2>3, <4>1
    <3> QED
      BY <3>3, <3>4, <3>5
  <2> QED
    BY <2>6, <2>7
<1>2. \E x \in S : \A y \in S : x >= y
  BY <1>1
<1> QED
  BY <1>2, Zenon DEF Max

(***************************************************************************)
(* The values of a function on a finite set are finitely many.             *)
(***************************************************************************)
LEMMA ImageFinite ==
  ASSUME NEW S, IsFiniteSet(S), NEW f
  PROVE  IsFiniteSet({f[x] : x \in S})
<1> DEFINE T == {f[x] : x \in S}
           g == [x \in S |-> f[x]]
<1>1. g \in [S -> T] /\ \A t \in T : \E x \in S : g[x] = t
  OBVIOUS
<1>2. g \in Surjection(S, T)
  BY <1>1 DEF Surjection
<1> QED
  BY <1>2, FS_Surjection

(***************************************************************************)
(* A set with two members has more than one.                               *)
(***************************************************************************)
LEMMA TwoMembers ==
  ASSUME NEW S, IsFiniteSet(S)
  PROVE  /\ \A a, b \in S : a # b => Cardinality(S) > 1
         /\ Cardinality(S) > 1 => \E a, b \in S : a # b
<1>1. ASSUME NEW a \in S, NEW b \in S, a # b PROVE Cardinality(S) > 1
  <2>1. IsFiniteSet({a, b}) /\ Cardinality({a, b}) = 2
    <3>1. IsFiniteSet({a}) /\ Cardinality({a}) = 1
      BY FS_Singleton
    <3>2. {a} \cup {b} = {a, b} /\ b \notin {a}
      BY <1>1
    <3> QED
      BY <3>1, <3>2, FS_AddElement
  <2>2. Cardinality({a, b}) <= Cardinality(S) /\ Cardinality(S) \in Nat
    BY <2>1, FS_Subset, FS_CardinalityType
  <2> QED
    BY <2>1, <2>2
<1>2. ASSUME \A a, b \in S : a = b, S # {} PROVE Cardinality(S) = 1
  <2>1. PICK a : a \in S
    BY <1>2
  <2>2. S = {a}
    BY <1>2, <2>1
  <2> QED
    BY <2>2, FS_Singleton
<1>3. S = {} => Cardinality(S) = 0
  BY FS_EmptySet
<1> QED
  BY <1>1, <1>2, <1>3

(***************************************************************************)
(* A prefix, element by element.                                           *)
(***************************************************************************)
LEMMA IsPrefixOf ==
  ASSUME NEW S, NEW s \in Seq(S), NEW t \in Seq(S)
  PROVE  IsPrefix(s, t) <=> Len(s) <= Len(t) /\ \A i \in 1 .. Len(s) : s[i] = t[i]
<1> SUFFICES ASSUME Len(s) <= Len(t)
             PROVE  SubSeq(s, 1, Len(s)) = SubSeq(t, 1, Len(s)) <=> \A i \in 1 .. Len(s) : s[i] = t[i]
  BY DEF IsPrefix
<1> DEFINE a == SubSeq(s, 1, Len(s))
           b == SubSeq(t, 1, Len(s))
<1>1. /\ a \in Seq(S) /\ Len(a) = Len(s) /\ \A i \in 1 .. Len(s) : a[i] = s[i]
      /\ b \in Seq(S) /\ Len(b) = Len(s) /\ \A i \in 1 .. Len(s) : b[i] = t[i]
      /\ Len(s) \in Nat
  OBVIOUS
<1> HIDE DEF a, b
<1>2. a = b <=> \A i \in 1 .. Len(s) : a[i] = b[i]
  BY <1>1, SeqEqual
<1>3. a = b <=> \A i \in 1 .. Len(s) : s[i] = t[i]
  BY <1>1, <1>2
<1> QED
  BY <1>3 DEF a, b

(***************************************************************************)
(* The first blocks of a chain.                                            *)
(***************************************************************************)
LEMMA FirstBlocks ==
  ASSUME NEW b \in L2Chains, NEW n \in 0 .. Len(b)
  PROVE  /\ SubSeq(b, 1, n) \in L2Chains /\ Len(SubSeq(b, 1, n)) = n
         /\ \A i \in 1 .. n : SubSeq(b, 1, n)[i] = b[i]
         /\ Len(b) \in Nat
<1>1. b \in Seq({"x", "y"}) /\ Len(b) \in Nat /\ Len(b) <= MaxL2 /\ MaxL2 \in Nat
  BY BatcherAssumption DEF L2Chains
<1>2. /\ SubSeq(b, 1, n) \in Seq({"x", "y"}) /\ Len(SubSeq(b, 1, n)) = n
      /\ \A i \in 1 .. n : SubSeq(b, 1, n)[i] = b[i]
  BY <1>1
<1> QED
  BY <1>1, <1>2 DEF L2Chains

(***************************************************************************)
(* Prefixes of chains: the order that they are in.                         *)
(***************************************************************************)
LEMMA ChainPrefix ==
  ASSUME NEW a \in L2Chains, NEW b \in L2Chains
  PROVE  /\ IsPrefix(a, b) <=> Len(a) <= Len(b) /\ \A i \in 1 .. Len(a) : a[i] = b[i]
         /\ Len(a) \in Nat /\ Len(b) \in Nat
         /\ Len(a) = Len(b) /\ (\A i \in 1 .. Len(a) : a[i] = b[i]) => a = b
<1>1. a \in Seq({"x", "y"}) /\ b \in Seq({"x", "y"}) /\ Len(a) \in Nat /\ Len(b) \in Nat
  BY DEF L2Chains
<1> QED
  BY <1>1, IsPrefixOf, SeqEqual

(***************************************************************************)
(* A chain is the one of its last block's parent, and that block.          *)
(***************************************************************************)
LEMMA FrontOf ==
  ASSUME NEW b \in L2Chains, b # <<>>
  PROVE  /\ Front(b) \in L2Chains /\ Len(Front(b)) = Len(b) - 1 /\ Len(b) \in Nat \ {0}
         /\ \A i \in 1 .. Len(b) - 1 : Front(b)[i] = b[i]
<1>1. b \in Seq({"x", "y"}) /\ Len(b) \in Nat /\ Len(b) # 0
  BY EmptySeq DEF L2Chains
<1>2. Len(b) - 1 \in 0 .. Len(b)
  BY <1>1
<1> QED
  BY <1>1, <1>2, FirstBlocks DEF Front

(***************************************************************************)
(* The members of a sequence, and of sequences made from it.               *)
(***************************************************************************)
LEMMA ToSetConcat ==
  ASSUME NEW S, NEW s \in Seq(S), NEW t \in Seq(S)
  PROVE  s \o t \in Seq(S) /\ ToSet(s \o t) = ToSet(s) \cup ToSet(t)
<1> DEFINE r == s \o t
<1>1. /\ r \in Seq(S) /\ Len(r) = Len(s) + Len(t) /\ Len(s) \in Nat /\ Len(t) \in Nat
      /\ \A i \in 1 .. Len(s) + Len(t) : r[i] = IF i <= Len(s) THEN s[i] ELSE t[i - Len(s)]
  BY ConcatProperties
<1> HIDE DEF r
<1>2. DOMAIN r = 1 .. Len(s) + Len(t) /\ DOMAIN s = 1 .. Len(s) /\ DOMAIN t = 1 .. Len(t)
  BY <1>1
<1>3. ASSUME NEW i \in DOMAIN r PROVE r[i] \in ToSet(s) \cup ToSet(t)
  <2>1. CASE i <= Len(s)
    <3>1. i \in DOMAIN s /\ r[i] = s[i]
      BY <1>1, <1>2, <2>1
    <3> QED
      BY <3>1 DEF ToSet
  <2>2. CASE ~(i <= Len(s))
    <3>1. i - Len(s) \in DOMAIN t /\ r[i] = t[i - Len(s)]
      BY <1>1, <1>2, <2>2
    <3> QED
      BY <3>1 DEF ToSet
  <2> QED
    BY <2>1, <2>2
<1>4. \A i \in DOMAIN s : i \in DOMAIN r /\ r[i] = s[i]
  BY <1>1, <1>2
<1>5. ASSUME NEW i \in DOMAIN t PROVE \E j \in DOMAIN r : r[j] = t[i]
  <2>1. /\ Len(s) + i \in DOMAIN r /\ ~(Len(s) + i <= Len(s)) /\ (Len(s) + i) - Len(s) = i
    BY <1>1, <1>2
  <2>2. r[Len(s) + i] = t[(Len(s) + i) - Len(s)]
    BY <1>1, <1>2, <2>1
  <2> QED
    BY <2>1, <2>2
<1>6. ToSet(r) = ToSet(s) \cup ToSet(t)
  BY <1>3, <1>4, <1>5 DEF ToSet
<1> QED
  BY <1>1, <1>6 DEF r

(***************************************************************************)
(* An append adds its element to the elements of the sequence.             *)
(***************************************************************************)
LEMMA ToSetAppend ==
  ASSUME NEW S, NEW s \in Seq(S), NEW e \in S
  PROVE  Append(s, e) \in Seq(S) /\ ToSet(Append(s, e)) = ToSet(s) \cup {e}
<1>1. PICK u : u = <<e>>
  OBVIOUS
<1>2. Append(s, e) = s \o u /\ u \in Seq(S)
  BY <1>1, AppendIsConcat
<1>3. ToSet(u) = {e}
  BY <1>1 DEF ToSet
<1> QED
  BY <1>2, <1>3, ToSetConcat

-----------------------------------------------------------------------------
(***************************************************************************)
(* The operators on channels.  Two channels with the same frames; and two  *)
(* with the same blocks and the same extent on L1.                         *)
(***************************************************************************)
SameFrames(a, b) ==
  a.frames = b.frames /\ a.numFrames = b.numFrames /\ a.pending = b.pending
  /\ a.confirmed = b.confirmed

SameContent(a, b) ==
  a.blocks = b.blocks /\ a.full = b.full /\ a.numFrames = b.numFrames

(***************************************************************************)
(* The places of the frames depend on the frames only.                     *)
(***************************************************************************)
LEMMA SplitSame ==
  ASSUME NEW a, NEW b, SameFrames(a, b), Split(a)
  PROVE  Split(b)
BY DEF SameFrames, Split, Waiting

(***************************************************************************)
(* The fields of a channel.                                                *)
(***************************************************************************)
LEMMA ChannelFields ==
  ASSUME NEW ch \in Channels
  PROVE  /\ ch.blocks \in Seq(L2Chains) /\ ch.full \in BOOLEAN /\ ch.frames \in Seq(Nat)
         /\ ch.numFrames \in 0 .. MaxFrames /\ ch.numFrames \in Nat
         /\ ch.pending \in SUBSET Nat /\ ch.confirmed \in Confs
         /\ ch.timeout \in Int /\ MaxFrames \in Nat \ {0}
BY BatcherAssumption DEF Channels

(***************************************************************************)
(* updateTimeout changes the timeout only.                                 *)
(***************************************************************************)
LEMMA UpdateTimeoutFacts ==
  ASSUME NEW ch \in Channels, NEW at \in Int
  PROVE  /\ updateTimeout(ch, at) \in Channels
         /\ SameFrames(ch, updateTimeout(ch, at)) /\ SameContent(ch, updateTimeout(ch, at))
BY DEF updateTimeout, Channels, SameFrames, SameContent

(***************************************************************************)
(* AddBlocks appends the blocks, and may change the timeout.               *)
(***************************************************************************)
LEMMA AddBlocksFacts ==
  ASSUME NEW ch \in Channels, NEW bs \in Seq(L2Chains)
  PROVE  /\ AddBlocks(ch, bs) \in Channels /\ SameFrames(ch, AddBlocks(ch, bs))
         /\ AddBlocks(ch, bs).blocks = ch.blocks \o bs
<1>1. ch.blocks \in Seq(L2Chains) /\ ch.blocks \o bs \in Seq(L2Chains)
  BY ChannelFields, ConcatProperties
<1>2. CASE bs = <<>>
  <2>1. ch.blocks \o bs = ch.blocks
    BY <1>1, <1>2, ConcatEmptySeq
  <2> QED
    BY <1>2, <2>1 DEF AddBlocks, SameFrames
<1>3. CASE bs # <<>>
  <2> DEFINE E == {EpochNum(b) : b \in ToSet(bs)}
             c == [ch EXCEPT !.blocks = @ \o bs]
             at == Min(E) + SeqWindowSize - SubSafetyMargin
  <2>1. Min(E) \in Nat
    <3>1. 1 \in DOMAIN bs /\ \A i \in DOMAIN bs : bs[i] \in L2Chains
      BY <1>3, EmptySeq, ElementOfSeq
    <3>2. E \subseteq Nat
      BY <3>1 DEF ToSet, EpochNum, L2Chains
    <3>3. E # {}
      BY <3>1 DEF ToSet
    <3> HIDE DEF E
    <3> QED
      BY <3>2, <3>3, SmallestOf
  <2>2. c \in Channels /\ SameFrames(ch, c) /\ c.blocks = ch.blocks \o bs
    BY <1>1 DEF Channels, SameFrames
  <2>3. at \in Int
    BY <2>1, BatcherAssumption
  <2>4. AddBlocks(ch, bs) = updateTimeout(c, at)
    BY <1>3 DEF AddBlocks
  <2> HIDE DEF c, at
  <2> DEFINE u == updateTimeout(c, at)
  <2>5. u \in Channels /\ SameFrames(c, u) /\ SameContent(c, u)
    BY <2>2, <2>3, UpdateTimeoutFacts
  <2> HIDE DEF u
  <2>6. SameFrames(ch, u) /\ u.blocks = ch.blocks \o bs
    BY <2>2, <2>5 DEF SameFrames, SameContent
  <2> QED
    BY <2>4, <2>5, <2>6 DEF u
<1> QED
  BY <1>2, <1>3

(***************************************************************************)
(* RegisterL1Block may set the timeout, and may close the channel.         *)
(***************************************************************************)
LEMMA RegisterFacts ==
  ASSUME NEW ch \in Channels, NEW block \in Nat
  PROVE  /\ RegisterL1Block(ch, block) \in Channels
         /\ SameFrames(ch, RegisterL1Block(ch, block))
         /\ RegisterL1Block(ch, block).blocks = ch.blocks
<1> DEFINE c == IF MaxChannelDuration = 0 THEN ch
                ELSE updateTimeout(ch, block + MaxChannelDuration)
<1>1. block + MaxChannelDuration \in Int
  BY BatcherAssumption
<1>2. c \in Channels /\ SameFrames(ch, c) /\ c.blocks = ch.blocks
  BY <1>1, UpdateTimeoutFacts DEF SameFrames, SameContent
<1>3. RegisterL1Block(ch, block)
        = [c EXCEPT !.full = @ \/ (c.timeout # 0 /\ block >= c.timeout)]
  BY DEF RegisterL1Block
<1> HIDE DEF c
<1> QED
  BY <1>2, <1>3 DEF Channels, SameFrames

(***************************************************************************)
(* Numbers k to k + n - 1 after a sequence of different numbers below k.   *)
(***************************************************************************)
LEMMA NumberedOn ==
  ASSUME NEW f \in Seq(Nat), NEW k \in Nat, NEW n \in Nat,
         \A i, j \in DOMAIN f : f[i] = f[j] => i = j,
         \A i \in DOMAIN f : f[i] < k
  PROVE  LET g == f \o [i \in 1 .. n |-> k + i - 1] IN
         /\ g \in Seq(Nat) /\ \A i, j \in DOMAIN g : g[i] = g[j] => i = j
         /\ {g[i] : i \in DOMAIN g} = {f[i] : i \in DOMAIN f} \cup k .. k + n - 1
<1> DEFINE new == [i \in 1 .. n |-> k + i - 1]
           g == f \o new
           l == Len(f)
<1>1. new \in Seq(Nat) /\ Len(new) = n /\ \A i \in 1 .. n : new[i] = k + i - 1
  <2>1. new \in [1 .. n -> Nat]
    OBVIOUS
  <2> QED
    BY <2>1
<1>2. l \in Nat /\ DOMAIN f = 1 .. l
  OBVIOUS
<1>3. \A i \in DOMAIN f : f[i] \in Nat
  BY ElementOfSeq
<1> HIDE DEF new
<1>4. /\ g \in Seq(Nat) /\ Len(g) = l + n
      /\ \A i \in 1 .. l + n : g[i] = IF i <= l THEN f[i] ELSE new[i - l]
  BY <1>1, ConcatProperties
<1>5. DOMAIN g = 1 .. l + n
  BY <1>4
<1> HIDE DEF g, l
<1>6. /\ \A i \in 1 .. l : i \in DOMAIN g /\ g[i] = f[i] /\ g[i] \in Nat /\ g[i] < k
      /\ \A i \in DOMAIN g : i \notin 1 .. l => i - l \in 1 .. n /\ g[i] = k + (i - l) - 1
  <2>1. \A i \in 1 .. l : i \in DOMAIN g /\ g[i] = f[i] /\ g[i] \in Nat /\ g[i] < k
    <3>1. \A i \in 1 .. l : i \in 1 .. l + n /\ i <= l /\ f[i] \in Nat /\ f[i] < k
      BY <1>2, <1>3
    <3> QED
      BY <1>4, <1>5, <3>1
  <2>2. ASSUME NEW i \in DOMAIN g, i \notin 1 .. l
        PROVE  i - l \in 1 .. n /\ g[i] = k + (i - l) - 1
    <3>1. i \in Nat /\ ~(i <= l) /\ i - l \in 1 .. n
      BY <1>2, <1>5, <2>2
    <3>2. g[i] = new[i - l]
      BY <1>4, <1>5, <3>1
    <3> QED
      BY <1>1, <3>1, <3>2
  <2> QED
    BY <2>1, <2>2
<1>7. \A i, j \in DOMAIN g : g[i] = g[j] => i = j
  <2> SUFFICES ASSUME NEW i \in DOMAIN g, NEW j \in DOMAIN g, g[i] = g[j] PROVE i = j
    OBVIOUS
  <2>1. i \in Nat /\ j \in Nat
    BY <1>2, <1>5
  <2>2. CASE i \in 1 .. l /\ j \in 1 .. l
    BY <1>2, <1>6, <2>2
  <2>3. CASE i \notin 1 .. l /\ j \notin 1 .. l
    <3>1. k + (i - l) - 1 = k + (j - l) - 1
      BY <1>6, <2>3
    <3> QED
      BY <1>2, <2>1, <3>1
  <2>4. CASE i \in 1 .. l /\ j \notin 1 .. l
    BY <1>2, <1>6, <2>1, <2>4
  <2>5. CASE i \notin 1 .. l /\ j \in 1 .. l
    BY <1>2, <1>6, <2>1, <2>5
  <2> QED
    BY <2>2, <2>3, <2>4, <2>5
<1>8. ASSUME NEW m \in k .. k + n - 1 PROVE \E i \in DOMAIN g : g[i] = m
  <2>1. l + (m - k + 1) \in DOMAIN g /\ l + (m - k + 1) \notin 1 .. l
    BY <1>2, <1>5
  <2>2. PICK j \in DOMAIN g : j = l + (m - k + 1) /\ j \notin 1 .. l
    BY <2>1
  <2>3. g[j] = k + (j - l) - 1
    BY <1>6, <2>2
  <2>4. g[j] = m
    BY <1>2, <2>2, <2>3
  <2> QED
    BY <2>4
<1>9. \A i \in DOMAIN g : g[i] \in {f[j] : j \in DOMAIN f} \cup k .. k + n - 1
  <2> SUFFICES ASSUME NEW i \in DOMAIN g
               PROVE  g[i] \in {f[j] : j \in DOMAIN f} \/ g[i] \in k .. k + n - 1
    OBVIOUS
  <2>1. CASE i \in 1 .. l
    BY <1>2, <1>6, <2>1
  <2>2. CASE i \notin 1 .. l
    BY <1>2, <1>6, <2>2
  <2> QED
    BY <2>1, <2>2
<1>10. \A i \in DOMAIN f : \E j \in DOMAIN g : g[j] = f[i]
  BY <1>2, <1>6
<1>11. {g[i] : i \in DOMAIN g} = {f[i] : i \in DOMAIN f} \cup k .. k + n - 1
  BY <1>8, <1>9, <1>10
<1> QED
  BY <1>4, <1>7, <1>11 DEF g, new

(***************************************************************************)
(* outputFrames numbers the new frames on from the last one.               *)
(***************************************************************************)
LEMMA OutputFacts ==
  ASSUME NEW ch \in Channels, Split(ch), NEW n \in 0 .. MaxFrames - ch.numFrames
  PROVE  LET o == outputFrames(ch, n) IN
         /\ o \in Channels /\ Split(o)
         /\ o.pending = ch.pending /\ o.confirmed = ch.confirmed
         /\ o.blocks = ch.blocks /\ o.full = ch.full /\ o.numFrames = ch.numFrames + n
<1> DEFINE k == ch.numFrames
           fs == ch.frames \o [i \in 1 .. n |-> k + i - 1]
           o == outputFrames(ch, n)
<1>1. ch.frames \in Seq(Nat) /\ k \in Nat /\ n \in Nat /\ MaxFrames \in Nat /\ k + n \in 0 .. MaxFrames
  BY ChannelFields
<1>2. /\ \A i, j \in DOMAIN ch.frames : ch.frames[i] = ch.frames[j] => i = j
      /\ \A i \in DOMAIN ch.frames : ch.frames[i] \in 0 .. k - 1
  BY DEF Split, Waiting
<1>3. \A i \in DOMAIN ch.frames : ch.frames[i] < k
  BY <1>1, <1>2
<1>4. /\ fs \in Seq(Nat) /\ \A i, j \in DOMAIN fs : fs[i] = fs[j] => i = j
      /\ {fs[i] : i \in DOMAIN fs} = Waiting(ch) \cup k .. k + n - 1
  BY <1>1, <1>2, <1>3, NumberedOn DEF Waiting
<1>5. o = [ch EXCEPT !.frames = fs, !.numFrames = k + n]
  BY DEF outputFrames
<1> HIDE DEF fs, o
<1>6. /\ o \in Channels /\ o.frames = fs /\ o.numFrames = k + n
      /\ o.pending = ch.pending /\ o.confirmed = ch.confirmed
      /\ o.blocks = ch.blocks /\ o.full = ch.full
  BY <1>1, <1>4, <1>5 DEF Channels
<1>7. Split(o)
  <2> DEFINE A == 0 .. k - 1
             B == k .. k + n - 1
             W == Waiting(ch)
             D == DOMAIN ch.confirmed
  <2>1. /\ W \cup ch.pending \cup D = A /\ W \cap ch.pending = {} /\ W \cap D = {}
        /\ ch.pending \cap D = {}
    BY DEF Split
  <2>2. Waiting(o) = W \cup B
    BY <1>4, <1>6 DEF Waiting
  <2>3. DOMAIN o.confirmed = D /\ 0 .. o.numFrames - 1 = 0 .. k + n - 1
    BY <1>1, <1>6
  <2>4. 0 .. k + n - 1 = A \cup B /\ A \cap B = {}
    BY <1>1
  <2> HIDE DEF A, B, W, D
  <2>5. /\ Waiting(o) \cup o.pending \cup D = 0 .. k + n - 1
        /\ Waiting(o) \cap o.pending = {} /\ Waiting(o) \cap D = {}
        /\ o.pending \cap D = {}
    BY <1>6, <2>1, <2>2, <2>4
  <2> QED
    BY <1>4, <1>6, <2>3, <2>5 DEF Split
<1> QED
  BY <1>6, <1>7 DEF o

(***************************************************************************)
(* The first frame of a channel becomes pending.                           *)
(***************************************************************************)
FrameTaken(ch) ==
  [ch EXCEPT !.frames = Tail(@), !.pending = @ \cup {Head(ch.frames)}]

(***************************************************************************)
(* NextFrame moves the first waiting frame to the pending ones, and each   *)
(* frame of the channel is still in one place.                             *)
(***************************************************************************)
LEMMA TakeFacts ==
  ASSUME NEW ch \in Channels, Split(ch), ch.frames # <<>>
  PROVE  LET o == FrameTaken(ch) IN
         /\ o \in Channels /\ Split(o) /\ SameContent(ch, o)
         /\ o.confirmed = ch.confirmed /\ o.pending = ch.pending \cup {Head(ch.frames)}
         /\ Head(ch.frames) \in FrameNumbers /\ Head(ch.frames) \notin ch.pending
<1> DEFINE fs == ch.frames
           h == Head(fs)
           o == FrameTaken(ch)
<1>1. fs \in Seq(Nat) /\ ch.numFrames \in 0 .. MaxFrames /\ ch.pending \in SUBSET Nat
  BY ChannelFields
<1>2. /\ h \in Nat /\ Tail(fs) \in Seq(Nat) /\ Len(Tail(fs)) = Len(fs) - 1 /\ Len(fs) \in Nat \ {0}
      /\ h = fs[1] /\ \A i \in 1 .. Len(fs) - 1 : Tail(fs)[i] = fs[i + 1]
  BY <1>1, HeadTailProperties, EmptySeq
<1>3. /\ o \in Channels /\ o.frames = Tail(fs) /\ o.numFrames = ch.numFrames
      /\ o.pending = ch.pending \cup {h} /\ o.confirmed = ch.confirmed
      /\ o.blocks = ch.blocks /\ o.full = ch.full
  BY <1>1, <1>2 DEF FrameTaken, Channels
<1> HIDE DEF o
<1>4. DOMAIN fs = 1 .. Len(fs) /\ DOMAIN o.frames = 1 .. Len(fs) - 1
  BY <1>1, <1>2, <1>3
<1>5. \A i, j \in DOMAIN fs : fs[i] = fs[j] => i = j
  BY DEF Split
<1>6. \A i, j \in DOMAIN o.frames : o.frames[i] = o.frames[j] => i = j
  <2> SUFFICES ASSUME NEW i \in 1 .. Len(fs) - 1, NEW j \in 1 .. Len(fs) - 1, Tail(fs)[i] = Tail(fs)[j]
               PROVE  i = j
    BY <1>3, <1>4
  <2>1. i + 1 \in DOMAIN fs /\ j + 1 \in DOMAIN fs /\ i \in Int /\ j \in Int
    BY <1>2, <1>4
  <2>2. fs[i + 1] = fs[j + 1]
    BY <1>2
  <2>3. i + 1 = j + 1
    BY <1>5, <2>1, <2>2
  <2> QED
    BY <2>1, <2>3
<1>7. Waiting(o) = Waiting(ch) \ {h} /\ h \in Waiting(ch)
  <2>1. Waiting(ch) = {fs[i] : i \in 1 .. Len(fs)} /\ Waiting(o) = {Tail(fs)[i] : i \in 1 .. Len(fs) - 1}
    BY <1>3, <1>4 DEF Waiting
  <2>2. h \in Waiting(ch)
    BY <1>2, <2>1
  <2>3. \A i \in 1 .. Len(fs) - 1 : Tail(fs)[i] \in Waiting(ch) /\ Tail(fs)[i] # h
    BY <1>2, <1>4, <1>5, <2>1
  <2>4. ASSUME NEW m \in Waiting(ch), m # h PROVE m \in Waiting(o)
    <3>1. PICK i \in 1 .. Len(fs) : m = fs[i]
      BY <2>1
    <3>2. i - 1 \in 1 .. Len(fs) - 1 /\ Tail(fs)[i - 1] = m
      BY <1>2, <2>4, <3>1
    <3> QED
      BY <2>1, <3>2
  <2> QED
    BY <2>1, <2>2, <2>3, <2>4
<1>8. Split(o)
  <2> DEFINE W == Waiting(ch)
             P == ch.pending
             D == DOMAIN ch.confirmed
             A == 0 .. ch.numFrames - 1
  <2>1. W \cup P \cup D = A /\ W \cap P = {} /\ W \cap D = {} /\ P \cap D = {}
    BY DEF Split
  <2>2. Waiting(o) = W \ {h} /\ h \in W /\ o.pending = P \cup {h}
    BY <1>3, <1>7
  <2>3. DOMAIN o.confirmed = D /\ 0 .. o.numFrames - 1 = A
    BY <1>3
  <2> HIDE DEF W, P, D, A, h
  <2>4. /\ Waiting(o) \cup o.pending \cup D = A
        /\ Waiting(o) \cap o.pending = {} /\ Waiting(o) \cap D = {}
        /\ o.pending \cap D = {}
    BY <2>1, <2>2
  <2> QED
    BY <1>6, <2>3, <2>4 DEF Split
<1>9. h \in FrameNumbers /\ h \notin ch.pending
  <2>1. h \in 0 .. ch.numFrames - 1 /\ h \notin ch.pending
    BY <1>7 DEF Split
  <2>2. 0 .. ch.numFrames - 1 \subseteq 0 .. MaxFrames - 1
    BY ChannelFields
  <2> QED
    BY <2>1, <2>2 DEF FrameNumbers
<1> QED
  BY <1>3, <1>8, <1>9 DEF o, SameContent

(***************************************************************************)
(* A pending frame goes back to the end of the frames.                     *)
(***************************************************************************)
FrameReturned(ch, n) ==
  [ch EXCEPT !.pending = @ \ {n}, !.frames = Append(@, n)]

(***************************************************************************)
(* TxFailed moves a pending frame back to the waiting ones, and each frame *)
(* of the channel is still in one place.                                   *)
(***************************************************************************)
LEMMA ReturnFacts ==
  ASSUME NEW ch \in Channels, Split(ch), NEW n \in ch.pending
  PROVE  LET o == FrameReturned(ch, n) IN
         /\ o \in Channels /\ Split(o) /\ SameContent(ch, o)
         /\ o.confirmed = ch.confirmed /\ o.pending = ch.pending \ {n}
<1> DEFINE fs == ch.frames
           gs == Append(fs, n)
           l == Len(fs)
           o == FrameReturned(ch, n)
<1>1. fs \in Seq(Nat) /\ n \in Nat /\ ch.pending \in SUBSET Nat
  BY ChannelFields
<1>2. /\ gs \in Seq(Nat) /\ DOMAIN gs = 1 .. l + 1 /\ l \in Nat /\ DOMAIN fs = 1 .. l
      /\ gs[l + 1] = n /\ \A i \in 1 .. l : gs[i] = fs[i]
  BY <1>1, AppendProperties
<1>3. /\ o \in Channels /\ o.frames = gs /\ o.numFrames = ch.numFrames
      /\ o.pending = ch.pending \ {n} /\ o.confirmed = ch.confirmed
      /\ o.blocks = ch.blocks /\ o.full = ch.full
  BY <1>1, <1>2 DEF FrameReturned, Channels
<1> HIDE DEF o, gs, l
<1>4. /\ \A i, j \in DOMAIN fs : fs[i] = fs[j] => i = j
      /\ \A i \in DOMAIN fs : fs[i] # n
  BY DEF Split, Waiting
<1>5. \A i \in DOMAIN gs : i \in 1 .. l \/ i = l + 1
  BY <1>2
<1>6. \A i, j \in DOMAIN gs : gs[i] = gs[j] => i = j
  BY <1>2, <1>4, <1>5
<1>7. Waiting(o) = Waiting(ch) \cup {n}
  <2>1. l + 1 \in DOMAIN gs /\ \A i \in 1 .. l : i \in DOMAIN gs
    BY <1>2
  <2>2. {gs[i] : i \in DOMAIN gs} = {fs[i] : i \in DOMAIN fs} \cup {n}
    BY <1>2, <1>5, <2>1
  <2> QED
    BY <1>3, <2>2 DEF Waiting
<1>8. Split(o)
  <2> DEFINE W == Waiting(ch)
             P == ch.pending
             D == DOMAIN ch.confirmed
             A == 0 .. ch.numFrames - 1
  <2>1. W \cup P \cup D = A /\ W \cap P = {} /\ W \cap D = {} /\ P \cap D = {} /\ n \in P
    BY DEF Split
  <2>2. Waiting(o) = W \cup {n} /\ o.pending = P \ {n}
    BY <1>3, <1>7
  <2>3. DOMAIN o.confirmed = D /\ 0 .. o.numFrames - 1 = A
    BY <1>3
  <2> HIDE DEF W, P, D, A
  <2>4. /\ Waiting(o) \cup o.pending \cup D = A
        /\ Waiting(o) \cap o.pending = {} /\ Waiting(o) \cap D = {}
        /\ o.pending \cap D = {}
    BY <2>1, <2>2
  <2> QED
    BY <1>3, <1>6, <2>3, <2>4 DEF Split
<1> QED
  BY <1>3, <1>8 DEF o, SameContent

(***************************************************************************)
(* A pending frame is confirmed at an L1 block.                            *)
(***************************************************************************)
LEMMA ConfirmFacts ==
  ASSUME chans \in Seq(Channels), NEW c \in DOMAIN chans, Split(chans[c]),
         NEW n \in chans[c].pending, NEW at \in Nat
  PROVE  LET ch == chans[c]
             o == Confirmed(<<c, n>>, at)
         IN /\ o \in Channels /\ Split(o) /\ SameContent(ch, o)
            /\ o.pending = ch.pending \ {n}
            /\ DOMAIN o.confirmed = DOMAIN ch.confirmed \cup {n}
            /\ o.confirmed[n] = at
            /\ \A m \in DOMAIN ch.confirmed : o.confirmed[m] = ch.confirmed[m]
<1> DEFINE ch == chans[c]
           cf == [m \in DOMAIN ch.confirmed \cup {n} |-> IF m = n THEN at ELSE ch.confirmed[m]]
           mid == [ch EXCEPT !.pending = @ \ {n}, !.confirmed = cf]
           block == at + ChannelTimeout - SubSafetyMargin
           o == updateTimeout(mid, block)
<1>1. ch \in Channels
  BY ElementOfSeq
<1>2. /\ ch.confirmed \in Confs /\ ch.pending \in SUBSET Nat
      /\ n \in FrameNumbers /\ n \notin DOMAIN ch.confirmed
  <2>1. 0 .. ch.numFrames - 1 \subseteq 0 .. MaxFrames - 1
    BY <1>1, ChannelFields
  <2> QED
    BY <1>1, <2>1, ChannelFields DEF Split, FrameNumbers
<1>3. cf \in Confs
  <2>1. PICK D \in SUBSET FrameNumbers : ch.confirmed \in [D -> Nat]
    BY <1>2 DEF Confs
  <2>2. D \cup {n} \in SUBSET FrameNumbers /\ DOMAIN ch.confirmed = D
    BY <1>2, <2>1
  <2>3. cf \in [D \cup {n} -> Nat]
    BY <2>1, <2>2
  <2> HIDE DEF cf
  <2> QED
    BY <2>2, <2>3 DEF Confs
<1>4. /\ DOMAIN cf = DOMAIN ch.confirmed \cup {n} /\ cf[n] = at
      /\ \A m \in DOMAIN ch.confirmed : cf[m] = ch.confirmed[m]
  BY <1>2
<1>5. Confirmed(<<c, n>>, at) = o
  BY DEF Confirmed, FramePublished
<1> HIDE DEF cf
<1>6. /\ mid \in Channels /\ mid.pending = ch.pending \ {n} /\ mid.confirmed = cf
      /\ mid.frames = ch.frames /\ SameContent(ch, mid)
  BY <1>1, <1>2, <1>3 DEF Channels, SameContent
<1>7. block \in Int
  BY BatcherAssumption
<1> HIDE DEF mid, block, ch
<1>8. o \in Channels /\ SameFrames(mid, o) /\ SameContent(mid, o)
  BY <1>6, <1>7, UpdateTimeoutFacts
<1> HIDE DEF o
<1>9. Split(mid)
  <2> DEFINE W == Waiting(ch)
             P == ch.pending
             D == DOMAIN ch.confirmed
             A == 0 .. ch.numFrames - 1
  <2>1. W \cup P \cup D = A /\ W \cap P = {} /\ W \cap D = {} /\ P \cap D = {} /\ n \in P
    BY DEF Split, ch
  <2>2. /\ Waiting(mid) = W /\ mid.pending = P \ {n} /\ DOMAIN mid.confirmed = D \cup {n}
        /\ mid.frames = ch.frames /\ 0 .. mid.numFrames - 1 = A
    BY <1>4, <1>6 DEF Waiting, SameContent
  <2>3. \A i, j \in DOMAIN ch.frames : ch.frames[i] = ch.frames[j] => i = j
    BY DEF Split, ch
  <2> HIDE DEF W, P, D, A
  <2>4. /\ W \cup (P \ {n}) \cup (D \cup {n}) = A
        /\ W \cap (P \ {n}) = {} /\ W \cap (D \cup {n}) = {}
        /\ (P \ {n}) \cap (D \cup {n}) = {}
    BY <2>1
  <2>5. /\ Waiting(mid) \cup mid.pending \cup DOMAIN mid.confirmed = 0 .. mid.numFrames - 1
        /\ Waiting(mid) \cap mid.pending = {} /\ Waiting(mid) \cap DOMAIN mid.confirmed = {}
        /\ mid.pending \cap DOMAIN mid.confirmed = {}
    BY <2>2, <2>4, Zenon
  <2> QED
    BY <2>2, <2>3, <2>5 DEF Split
<1>10. Split(o) /\ SameContent(ch, o) /\ o.pending = ch.pending \ {n} /\ o.confirmed = cf
  BY <1>6, <1>8, <1>9, SplitSame DEF SameFrames, SameContent
<1> QED
  BY <1>4, <1>5, <1>8, <1>10 DEF ch

(***************************************************************************)
(* A channel replaced in the sequence of all channels; a new one.          *)
(***************************************************************************)
LEMMA ReplacedFacts ==
  ASSUME NEW cs \in Seq(Channels), NEW c \in DOMAIN cs, NEW ch \in Channels
  PROVE  LET ds == [cs EXCEPT ![c] = ch] IN
         /\ ds \in Seq(Channels) /\ DOMAIN ds = DOMAIN cs /\ Len(ds) = Len(cs)
         /\ ds[c] = ch /\ \A d \in DOMAIN cs : d # c => ds[d] = cs[d]
BY ExceptSeq

(***************************************************************************)
(* A new channel has no frames and no blocks.                              *)
(***************************************************************************)
LEMMA NewChannelFacts ==
  /\ newChannel \in Channels /\ Split(newChannel) /\ newChannel.pending = {}
  /\ DOMAIN newChannel.confirmed = {} /\ newChannel.blocks = <<>>
<1>1. NoConfirmed \in Confs /\ DOMAIN NoConfirmed = {}
  <2>1. NoConfirmed \in [{} -> Nat] /\ {} \in SUBSET FrameNumbers
    BY DEF NoConfirmed
  <2> QED
    BY <2>1 DEF Confs
<1>2. /\ <<>> \in Seq(L2Chains) /\ <<>> \in Seq(Nat) /\ 0 \in 0 .. MaxFrames
      /\ DOMAIN <<>> = {}
  BY BatcherAssumption
<1>3. newChannel \in Channels
  BY <1>1, <1>2 DEF newChannel, Channels
<1>4. /\ newChannel.frames = <<>> /\ newChannel.pending = {} /\ newChannel.numFrames = 0
      /\ newChannel.confirmed = NoConfirmed /\ newChannel.blocks = <<>>
  BY DEF newChannel
<1>5. Waiting(newChannel) = {} /\ 0 .. 0 - 1 = {}
  BY <1>2, <1>4 DEF Waiting
<1> QED
  BY <1>1, <1>2, <1>3, <1>4, <1>5 DEF Split

-----------------------------------------------------------------------------
(***************************************************************************)
(* A removal from the queue keeps every other channel.                     *)
(***************************************************************************)
LEMMA RemoveAtFacts ==
  ASSUME NEW S, NEW q \in Seq(S), NEW i \in 1 .. Len(q)
  PROVE  /\ RemoveAt(q, i) \in Seq(S) /\ ToSet(RemoveAt(q, i)) \subseteq ToSet(q)
         /\ \A j \in DOMAIN q : j # i => q[j] \in ToSet(RemoveAt(q, i))
<1> DEFINE a == SubSeq(q, 1, i - 1)
           b == SubSeq(q, i + 1, Len(q))
           r == a \o b
           l == Len(q)
<1>1. l \in Nat /\ i \in Nat /\ DOMAIN q = 1 .. l /\ i <= l
  OBVIOUS
<1>2. a \in Seq(S) /\ Len(a) = i - 1 /\ \A j \in 1 .. i - 1 : a[j] = q[j]
  BY <1>1, SubSeqProperties
<1>3. b \in Seq(S) /\ Len(b) = l - i /\ \A j \in 1 .. l - i : b[j] = q[i + j]
  <2>1. PICK m, k : m = i + 1 /\ k = l
    OBVIOUS
  <2>2. m \in 1 .. l + 1 /\ k \in m - 1 .. l /\ m - 1 = i /\ k - m + 1 = l - i
    BY <1>1, <2>1
  <2>3. b = SubSeq(q, m, k)
    BY <2>1
  <2> HIDE DEF b
  <2>4. b \in Seq(S) /\ Len(b) = k - m + 1 /\ \A j \in 1 .. k - m + 1 : b[j] = q[m + j - 1]
    BY <1>1, <2>2, <2>3, SubSeqProperties
  <2>5. \A j \in 1 .. l - i : m + j - 1 = i + j
    BY <1>1, <2>1
  <2> QED
    BY <2>2, <2>4, <2>5
<1> HIDE DEF a, b, l
<1>4. /\ r \in Seq(S) /\ Len(r) = l - 1
      /\ \A j \in 1 .. l - 1 : r[j] = IF j <= i - 1 THEN a[j] ELSE b[j - (i - 1)]
  <2>1. /\ r \in Seq(S) /\ Len(r) = Len(a) + Len(b)
        /\ \A j \in 1 .. Len(a) + Len(b) : r[j] = IF j <= Len(a) THEN a[j] ELSE b[j - Len(a)]
    BY <1>2, <1>3, ConcatProperties
  <2>2. Len(a) + Len(b) = l - 1
    BY <1>1, <1>2, <1>3
  <2> HIDE DEF r
  <2> QED
    BY <1>2, <2>1, <2>2
<1>5. DOMAIN r = 1 .. l - 1
  BY <1>1, <1>4
<1> HIDE DEF r
<1>6. \A j \in 1 .. l - 1 : r[j] \in ToSet(q)
  <2> SUFFICES ASSUME NEW j \in 1 .. l - 1 PROVE \E k \in DOMAIN q : r[j] = q[k]
    BY DEF ToSet
  <2>1. CASE j <= i - 1
    <3>1. j \in 1 .. i - 1 /\ j \in DOMAIN q
      BY <1>1, <2>1
    <3>2. r[j] = a[j]
      BY <1>4, <2>1
    <3> QED
      BY <1>2, <3>1, <3>2
  <2>2. CASE ~(j <= i - 1)
    <3>1. j - (i - 1) \in 1 .. l - i /\ i + (j - (i - 1)) = j + 1 /\ j + 1 \in DOMAIN q
      BY <1>1, <2>2
    <3>2. r[j] = b[j - (i - 1)]
      BY <1>4, <2>2
    <3>3. b[j - (i - 1)] = q[j + 1]
      BY <1>3, <3>1
    <3> QED
      BY <3>1, <3>2, <3>3
  <2> QED
    BY <2>1, <2>2
<1>7. ASSUME NEW j \in DOMAIN q, j # i PROVE \E k \in DOMAIN r : r[k] = q[j]
  <2>1. j \in Nat /\ j >= 1 /\ j <= l
    BY <1>1
  <2>2. CASE j < i
    <3>1. j \in 1 .. l - 1 /\ j <= i - 1 /\ j \in 1 .. i - 1
      BY <1>1, <2>1, <2>2
    <3> QED
      BY <1>2, <1>4, <1>5, <3>1
  <2>3. CASE j > i
    <3>1. /\ j - 1 \in 1 .. l - 1 /\ ~(j - 1 <= i - 1) /\ (j - 1) - (i - 1) = j - i
          /\ j - i \in 1 .. l - i /\ i + (j - i) = j
      BY <1>1, <2>1, <2>3
    <3>2. r[j - 1] = b[(j - 1) - (i - 1)]
      BY <1>4, <3>1
    <3>3. b[j - i] = q[i + (j - i)]
      BY <1>3, <3>1
    <3>4. r[j - 1] = q[j]
      BY <3>1, <3>2, <3>3
    <3> QED
      BY <1>5, <3>1, <3>4
  <2> QED
    BY <1>1, <1>7, <2>1, <2>2, <2>3
<1>8. RemoveAt(q, i) = r
  BY DEF RemoveAt, r, a, b, l
<1>9. ToSet(r) \subseteq ToSet(q)
  BY <1>5, <1>6 DEF ToSet
<1>10. \A j \in DOMAIN q : j # i => q[j] \in ToSet(r)
  BY <1>7 DEF ToSet
<1> QED
  BY <1>4, <1>8, <1>9, <1>10

(***************************************************************************)
(* removePendingChannel keeps every channel but the removed one.           *)
(***************************************************************************)
LEMMA RemovedFacts ==
  ASSUME NEW S, NEW q \in Seq(S), NEW c
  PROVE  LET r == removePendingChannel(q, c) IN
         /\ r \in Seq(S) /\ ToSet(r) \subseteq ToSet(q) /\ \A d \in ToSet(q) : d # c => d \in ToSet(r)
<1> DEFINE at == {i \in DOMAIN q : q[i] = c}
<1>1. DOMAIN q = 1 .. Len(q) /\ Len(q) \in Nat
  OBVIOUS
<1>2. CASE at = {}
  BY <1>2 DEF removePendingChannel
<1>3. CASE at # {}
  <2>1. at \subseteq Nat
    BY <1>1
  <2>2. Min(at) \in at
    <3> HIDE DEF at
    <3> QED
      BY <1>3, <2>1, SmallestOf
  <2>3. PICK i \in 1 .. Len(q) : i = Min(at) /\ q[i] = c
    BY <1>1, <2>2
  <2>4. removePendingChannel(q, c) = RemoveAt(q, i)
    BY <1>3, <2>3 DEF removePendingChannel
  <2>5. \A d \in ToSet(q) : d # c => d \in ToSet(RemoveAt(q, i))
    <3>1. \A j \in DOMAIN q : q[j] # c => q[j] \in ToSet(RemoveAt(q, i))
      BY <2>3, RemoveAtFacts
    <3> QED
      BY <3>1 DEF ToSet
  <2> QED
    BY <2>4, <2>5, RemoveAtFacts
<1> QED
  BY <1>2, <1>3

(***************************************************************************)
(* A set with 0 that has i + 1 with every i below n has all up to n.       *)
(***************************************************************************)
LEMMA UpTo ==
  ASSUME NEW n \in Nat, NEW S, 0 \in S, \A i \in 0 .. n - 1 : i \in S => i + 1 \in S
  PROVE  \A i \in 0 .. n : i \in S
<1> DEFINE C == {i \in 0 .. n : i \notin S}
<1>1. SUFFICES ASSUME C # {} PROVE FALSE
  BY <1>1
<1>2. C \subseteq Nat
  OBVIOUS
<1>3. PICK m \in C : \A k \in C : m <= k
  <2> HIDE DEF C
  <2> QED
    BY <1>1, <1>2, SmallestOf
<1>4. m \in 0 .. n /\ m \notin S /\ m # 0
  OBVIOUS
<1>5. m - 1 \in 0 .. n - 1 /\ m - 1 \in 0 .. n /\ ~(m <= m - 1) /\ (m - 1) + 1 = m
  BY <1>4
<1>6. m - 1 \in S
  BY <1>3, <1>5
<1> QED
  BY <1>4, <1>5, <1>6

(***************************************************************************)
(* Close: the slice that it iterates over, after the visit of a place.     *)
(***************************************************************************)
Slices(n) == [array : [1 .. n -> DOMAIN chans], len : 0 .. n]

Visit(q, i) ==
  IF NoneSubmitted(chans[q.array[i]]) THEN removeInPlace(q, q.array[i]) ELSE q

(***************************************************************************)
(* A visit leaves a slice of the same array, no longer than it was.        *)
(***************************************************************************)
LEMMA VisitFacts ==
  ASSUME NEW n \in Nat, NEW q \in Slices(n), NEW i
  PROVE  Visit(q, i) \in Slices(n)
<1> SUFFICES ASSUME NEW c PROVE removeInPlace(q, c) \in Slices(n)
  BY DEF Visit
<1> DEFINE at == {j \in 1 .. q.len : q.array[j] = c}
<1>1. q.array \in [1 .. n -> DOMAIN chans] /\ q.len \in 0 .. n
  BY DEF Slices
<1>2. CASE at = {}
  BY <1>2 DEF removeInPlace
<1>3. CASE at # {}
  <2> DEFINE m == Min(at)
             arr == [j \in 1 .. n |-> q.array[IF j \in m .. q.len - 1 THEN j + 1 ELSE j]]
  <2>1. m \in 1 .. q.len
    <3>1. at \subseteq Nat /\ at \subseteq 1 .. q.len
      BY <1>1
    <3> HIDE DEF at
    <3> QED
      BY <1>3, <3>1, SmallestOf
  <2>2. removeInPlace(q, c) = [array |-> arr, len |-> q.len - 1]
    BY <1>1, <1>3 DEF removeInPlace
  <2> HIDE DEF m
  <2>3. arr \in [1 .. n -> DOMAIN chans]
    <3>1. ASSUME NEW j \in 1 .. n
          PROVE  (IF j \in m .. q.len - 1 THEN j + 1 ELSE j) \in 1 .. n
      BY <1>1, <2>1
    <3> QED
      BY <1>1, <3>1
  <2>4. q.len - 1 \in 0 .. n
    BY <1>1, <2>1
  <2> HIDE DEF arr
  <2> QED
    BY <2>2, <2>3, <2>4 DEF Slices
<1> QED
  BY <1>2, <1>3

(***************************************************************************)
(* The slices after the first visits exist,                                *)
(***************************************************************************)
VisitedTo(f, n, m) ==
  /\ f \in [0 .. m -> Slices(n)] /\ f[0] = [array |-> channelQueue, len |-> n]
  /\ \A i \in 1 .. m : f[i] = Visit(f[i - 1], i)

(***************************************************************************)
(* Close's loop over the queue computes a result.                          *)
(***************************************************************************)
LEMMA VisitedExists ==
  ASSUME chans \in Seq(Channels), channelQueue \in Seq(DOMAIN chans)
  PROVE  LET n == Len(channelQueue) IN \E f : VisitedTo(f, n, n)
<1> DEFINE n == Len(channelQueue)
           start == [array |-> channelQueue, len |-> n]
           S == {m \in 0 .. n : \E f : VisitedTo(f, n, m)}
<1>1. n \in Nat /\ start \in Slices(n)
  <2>1. n \in Nat /\ channelQueue \in [1 .. n -> DOMAIN chans]
    OBVIOUS
  <2> QED
    BY <2>1 DEF Slices
<1> HIDE DEF n
<1>2. 0 \in S
  <2>1. VisitedTo([i \in 0 .. 0 |-> start], n, 0)
    BY <1>1 DEF VisitedTo
  <2> QED
    BY <1>1, <2>1
<1>3. ASSUME NEW m \in 0 .. n - 1, m \in S PROVE m + 1 \in S
  <2>1. PICK f : VisitedTo(f, n, m)
    BY <1>3
  <2>2. m \in Nat /\ m + 1 \in 0 .. n
    BY <1>1
  <2> DEFINE next == Visit(f[m], m + 1)
             g == [i \in 0 .. m + 1 |-> IF i = m + 1 THEN next ELSE f[i]]
  <2>3. next \in Slices(n)
    <3>1. f[m] \in Slices(n)
      BY <2>1, <2>2 DEF VisitedTo
    <3> QED
      BY <1>1, <3>1, VisitFacts
  <2> HIDE DEF next
  <2>4. g \in [0 .. m + 1 -> Slices(n)] /\ g[0] = start
    BY <2>1, <2>2, <2>3 DEF VisitedTo
  <2>5. ASSUME NEW i \in 1 .. m + 1 PROVE g[i] = Visit(g[i - 1], i)
    <3>1. CASE i = m + 1
      <4>1. g[i] = next /\ g[i - 1] = f[m]
        BY <2>2, <3>1
      <4> QED
        BY <3>1, <4>1 DEF next
    <3>2. CASE i # m + 1
      <4>1. i \in 1 .. m /\ g[i] = f[i] /\ g[i - 1] = f[i - 1]
        BY <2>2, <3>2
      <4> QED
        BY <2>1, <4>1 DEF VisitedTo
    <3> QED
      BY <3>1, <3>2
  <2> HIDE DEF g
  <2>6. VisitedTo(g, n, m + 1)
    BY <2>4, <2>5 DEF VisitedTo
  <2> QED
    BY <2>2, <2>6
<1> HIDE DEF S
<1>4. \A m \in 0 .. n : m \in S
  BY <1>1, <1>2, <1>3, UpTo
<1> QED
  BY <1>1, <1>4 DEF S, n

(***************************************************************************)
(* so that Unsubmitted keeps only channels of the queue's kind.            *)
(***************************************************************************)
LEMMA UnsubmittedFacts ==
  ASSUME chans \in Seq(Channels), channelQueue \in Seq(DOMAIN chans)
  PROVE  Unsubmitted \in Seq(DOMAIN chans)
<1> DEFINE n == Len(channelQueue)
           start == [array |-> channelQueue, len |-> n]
           G(f) == [i \in 0 .. n |-> IF i = 0 THEN start ELSE Visit(f[i - 1], i)]
           c == CHOOSE f : f = G(f)
<1>1. n \in Nat /\ start \in Slices(n)
  <2>1. n \in Nat /\ channelQueue \in [1 .. n -> DOMAIN chans]
    OBVIOUS
  <2> QED
    BY <2>1 DEF Slices
<1>2. PICK k : VisitedTo(k, n, n)
  BY VisitedExists
<1>3. Unsubmitted = SubSeq(c[n].array, 1, c[n].len)
  BY DEF Unsubmitted, Visit
<1> HIDE DEF n
<1>4. k = G(k)
  BY <1>1, <1>2 DEF VisitedTo
<1>5. c = G(c)
  <2> HIDE DEF G
  <2> QED
    BY <1>4
<1> DEFINE S == {i \in 0 .. n : c[i] \in Slices(n)}
<1> HIDE DEF c
<1>6. c[0] = start /\ \A i \in 1 .. n : c[i] = Visit(c[i - 1], i)
  BY <1>1, <1>5
<1>7. 0 \in S
  BY <1>1, <1>6
<1>8. ASSUME NEW i \in 0 .. n - 1, i \in S PROVE i + 1 \in S
  <2>1. i + 1 \in 1 .. n /\ (i + 1) - 1 = i /\ c[i] \in Slices(n)
    BY <1>1, <1>8
  <2>2. c[i + 1] = Visit(c[i], i + 1)
    BY <1>6, <2>1
  <2>3. c[i + 1] \in Slices(n)
    BY <1>1, <2>1, <2>2, VisitFacts
  <2> QED
    BY <2>1, <2>3
<1> HIDE DEF S
<1>9. \A i \in 0 .. n : i \in S
  BY <1>1, <1>7, <1>8, UpTo
<1>10. c[n] \in Slices(n)
  BY <1>1, <1>9 DEF S
<1>11. c[n].array \in Seq(DOMAIN chans) /\ Len(c[n].array) = n /\ c[n].len \in 0 .. n
  <2>1. c[n].array \in [1 .. n -> DOMAIN chans] /\ c[n].len \in 0 .. n
    BY <1>10 DEF Slices
  <2>2. \A arr \in [1 .. n -> DOMAIN chans] : arr \in Seq(DOMAIN chans) /\ Len(arr) = n
    BY <1>1
  <2> QED
    BY <2>1, <2>2
<1> QED
  BY <1>1, <1>3, <1>11, SubSeqProperties

-----------------------------------------------------------------------------
(***************************************************************************)
(* All channels: some of them replaced, with the same content.             *)
(***************************************************************************)
KeepsContent(cs, ds) ==
  DOMAIN ds = DOMAIN cs /\ \A c \in DOMAIN cs : SameContent(cs[c], ds[c])

KeepsConfirmed(cs, ds) == \A c \in DOMAIN cs : ds[c].confirmed = cs[c].confirmed

(***************************************************************************)
(* Channels with the same content have grown by nothing.                   *)
(***************************************************************************)
LEMMA GrowSame ==
  ASSUME NEW cs \in Seq(Channels), NEW ds, DOMAIN ds = DOMAIN cs,
         \A c \in DOMAIN cs : SameContent(cs[c], ds[c])
  PROVE  ChansGrow(cs, ds)
<1>1. \A c \in DOMAIN cs : cs[c] \in Channels
  BY ElementOfSeq
<1>2. \A c \in DOMAIN cs : cs[c].numFrames \in Nat
  BY <1>1, ChannelFields
<1> QED
  BY <1>2 DEF ChansGrow, Grown, SameContent

(***************************************************************************)
(* The channels are good when one is replaced by a good one.               *)
(***************************************************************************)
LEMMA GoodReplaced ==
  ASSUME NEW cs, GoodChans(cs), NEW c \in DOMAIN cs, NEW ch \in Channels, Split(ch)
  PROVE  LET ds == [cs EXCEPT ![c] = ch] IN
         /\ GoodChans(ds) /\ DOMAIN ds = DOMAIN cs
         /\ ds[c] = ch /\ \A d \in DOMAIN cs : d # c => ds[d] = cs[d]
<1> DEFINE ds == [cs EXCEPT ![c] = ch]
<1>1. cs \in Seq(Channels) /\ \A d \in DOMAIN cs : Split(cs[d])
  BY DEF GoodChans
<1>2. /\ ds \in Seq(Channels) /\ DOMAIN ds = DOMAIN cs /\ ds[c] = ch
      /\ \A d \in DOMAIN cs : d # c => ds[d] = cs[d]
  BY <1>1, ReplacedFacts
<1> HIDE DEF ds
<1>3. GoodChans(ds)
  BY <1>1, <1>2 DEF GoodChans
<1> QED
  BY <1>2, <1>3 DEF ds

(***************************************************************************)
(* nextTxData takes a frame of one channel.                                *)
(***************************************************************************)
LEMMA TakeStep ==
  ASSUME NEW cs, GoodChans(cs), NEW txs, PendingIn(cs, txs),
         NEW c \in DOMAIN cs, cs[c].frames # <<>>
  PROVE  LET n == Head(cs[c].frames)
             ds == [cs EXCEPT ![c].frames = Tail(@), ![c].pending = @ \cup {n}]
         IN /\ GoodChans(ds) /\ PendingIn(ds, txs \cup {<<c, n>>})
            /\ KeepsContent(cs, ds) /\ KeepsConfirmed(cs, ds)
            /\ n \in FrameNumbers /\ <<c, n>> \notin txs
<1> DEFINE n == Head(cs[c].frames)
           ch == FrameTaken(cs[c])
           ds == [cs EXCEPT ![c] = ch]
<1>1. cs[c] \in Channels /\ Split(cs[c])
  BY ElementOfSeq DEF GoodChans
<1>2. /\ ch \in Channels /\ Split(ch) /\ SameContent(cs[c], ch)
      /\ ch.confirmed = cs[c].confirmed /\ ch.pending = cs[c].pending \cup {n}
      /\ n \in FrameNumbers /\ n \notin cs[c].pending
  BY <1>1, TakeFacts
<1>3. [cs EXCEPT ![c].frames = Tail(@), ![c].pending = @ \cup {n}] = ds
  BY <1>1 DEF FrameTaken, Channels
<1> HIDE DEF ch
<1>4. /\ GoodChans(ds) /\ DOMAIN ds = DOMAIN cs /\ ds[c] = ch
      /\ \A d \in DOMAIN cs : d # c => ds[d] = cs[d]
  BY <1>2, GoodReplaced
<1> HIDE DEF ds, n
<1>5. KeepsContent(cs, ds) /\ KeepsConfirmed(cs, ds)
  BY <1>2, <1>4 DEF KeepsContent, KeepsConfirmed, SameContent
<1>6. PendingIn(ds, txs \cup {<<c, n>>}) /\ <<c, n>> \notin txs
  BY <1>2, <1>4 DEF PendingIn
<1> QED
  BY <1>2, <1>3, <1>4, <1>5, <1>6 DEF n

(***************************************************************************)
(* TxFailed returns a frame to one channel.                                *)
(***************************************************************************)
LEMMA ReturnStep ==
  ASSUME NEW cs, GoodChans(cs), NEW txs, PendingIn(cs, txs),
         NEW c \in DOMAIN cs, NEW n \in FrameNumbers, <<c, n>> \in txs
  PROVE  LET ds == [cs EXCEPT ![c].pending = @ \ {n}, ![c].frames = Append(@, n)]
         IN /\ GoodChans(ds) /\ PendingIn(ds, txs \ {<<c, n>>})
            /\ KeepsContent(cs, ds) /\ KeepsConfirmed(cs, ds)
<1> DEFINE ch == FrameReturned(cs[c], n)
           ds == [cs EXCEPT ![c] = ch]
<1>1. cs[c] \in Channels /\ Split(cs[c]) /\ n \in cs[c].pending
  BY ElementOfSeq DEF GoodChans, PendingIn
<1>2. /\ ch \in Channels /\ Split(ch) /\ SameContent(cs[c], ch)
      /\ ch.confirmed = cs[c].confirmed /\ ch.pending = cs[c].pending \ {n}
  BY <1>1, ReturnFacts
<1>3. [cs EXCEPT ![c].pending = @ \ {n}, ![c].frames = Append(@, n)] = ds
  BY <1>1 DEF FrameReturned, Channels
<1> HIDE DEF ch
<1>4. /\ GoodChans(ds) /\ DOMAIN ds = DOMAIN cs /\ ds[c] = ch
      /\ \A d \in DOMAIN cs : d # c => ds[d] = cs[d]
  BY <1>2, GoodReplaced
<1> HIDE DEF ds
<1>5. KeepsContent(cs, ds) /\ KeepsConfirmed(cs, ds)
  BY <1>2, <1>4 DEF KeepsContent, KeepsConfirmed, SameContent
<1>6. PendingIn(ds, txs \ {<<c, n>>})
  BY <1>2, <1>4 DEF PendingIn
<1> QED
  BY <1>3, <1>4, <1>5, <1>6

(***************************************************************************)
(* TxConfirmed confirms a frame of one channel.                            *)
(***************************************************************************)
LEMMA ConfirmStep ==
  ASSUME GoodChans(chans), TxPending, NEW on, ConfirmedIn(chans, on),
         NEW c \in DOMAIN chans, NEW n \in FrameNumbers, <<c, n>> \in txChannels,
         NEW at \in Nat, <<<<c, n>>, at>> \in on
  PROVE  LET ds == [chans EXCEPT ![c] = Confirmed(<<c, n>>, at)]
         IN /\ GoodChans(ds) /\ PendingIn(ds, txChannels \ {<<c, n>>})
            /\ KeepsContent(chans, ds) /\ ConfirmedIn(ds, on)
            /\ ds[c] = Confirmed(<<c, n>>, at)
<1> DEFINE ch == Confirmed(<<c, n>>, at)
           ds == [chans EXCEPT ![c] = ch]
<1>1. chans \in Seq(Channels) /\ Split(chans[c]) /\ n \in chans[c].pending
  BY DEF GoodChans, PendingIn, TxPending
<1>2. /\ ch \in Channels /\ Split(ch) /\ SameContent(chans[c], ch)
      /\ ch.pending = chans[c].pending \ {n}
      /\ DOMAIN ch.confirmed = DOMAIN chans[c].confirmed \cup {n}
      /\ ch.confirmed[n] = at
      /\ \A m \in DOMAIN chans[c].confirmed : ch.confirmed[m] = chans[c].confirmed[m]
  BY <1>1, ConfirmFacts
<1> HIDE DEF ch
<1>3. /\ GoodChans(ds) /\ DOMAIN ds = DOMAIN chans /\ ds[c] = ch
      /\ \A d \in DOMAIN chans : d # c => ds[d] = chans[d]
  BY <1>2, GoodReplaced
<1> HIDE DEF ds
<1>4. KeepsContent(chans, ds)
  BY <1>2, <1>3 DEF KeepsContent, SameContent
<1>5. PendingIn(ds, txChannels \ {<<c, n>>})
  BY <1>2, <1>3 DEF PendingIn, TxPending
<1>6. ConfirmedIn(ds, on)
  <2> SUFFICES ASSUME NEW d \in DOMAIN chans, NEW m \in DOMAIN ds[d].confirmed
               PROVE  <<<<d, m>>, ds[d].confirmed[m]>> \in on
    BY <1>3 DEF ConfirmedIn
  <2>1. CASE d = c
    <3>1. m \in DOMAIN chans[c].confirmed \/ m = n
      BY <1>2, <1>3, <2>1
    <3>2. CASE m = n
      BY <1>2, <1>3, <2>1, <3>2
    <3>3. CASE m \in DOMAIN chans[c].confirmed
      <4>1. <<<<c, m>>, chans[c].confirmed[m]>> \in on
        BY <3>3 DEF ConfirmedIn
      <4> QED
        BY <1>2, <1>3, <2>1, <3>3, <4>1
    <3> QED
      BY <3>1, <3>2, <3>3
  <2>2. CASE d # c
    BY <1>3, <2>2 DEF ConfirmedIn
  <2> QED
    BY <2>1, <2>2
<1> QED
  BY <1>3, <1>4, <1>5, <1>6 DEF ds, ch

-----------------------------------------------------------------------------
(***************************************************************************)
(* What is left of a sequence without its first g elements.                *)
(***************************************************************************)
LEMMA SuffixOf ==
  ASSUME NEW E, NEW q \in Seq(E), NEW g \in 0 .. Len(q)
  PROVE  /\ SubSeq(q, g + 1, Len(q)) \in Seq(E)
         /\ Len(SubSeq(q, g + 1, Len(q))) = Len(q) - g
         /\ \A j \in 1 .. Len(q) - g : SubSeq(q, g + 1, Len(q))[j] = q[g + j]
<1>1. Len(q) \in Nat /\ g \in Nat /\ g <= Len(q)
  OBVIOUS
<1>2. \A i \in g + 1 .. Len(q) : q[i] \in E
  BY <1>1
<1>3. /\ SubSeq(q, g + 1, Len(q)) \in Seq(E)
      /\ Len(SubSeq(q, g + 1, Len(q)))
           = IF g + 1 <= Len(q) THEN Len(q) - (g + 1) + 1 ELSE 0
      /\ \A j \in 1 .. Len(q) - (g + 1) + 1 :
           SubSeq(q, g + 1, Len(q))[j] = q[(g + 1) + j - 1]
  BY <1>1, <1>2, SubSeqProperties
<1>4. Len(SubSeq(q, g + 1, Len(q))) = Len(q) - g
  BY <1>1, <1>3
<1>5. ASSUME NEW j \in 1 .. Len(q) - g
      PROVE  SubSeq(q, g + 1, Len(q))[j] = q[g + j]
  <2>1. j \in 1 .. Len(q) - (g + 1) + 1 /\ (g + 1) + j - 1 = g + j
    BY <1>1
  <2> QED
    BY <1>3, <2>1
<1> QED
  BY <1>3, <1>4, <1>5

(***************************************************************************)
(* The channel bank.  What Read does with the entries of a queue: it keeps *)
(* them, reads or drops a complete one, or drops one that has timed out.   *)
(***************************************************************************)
LEMMA ReadFacts ==
  ASSUME NEW E, NEW q \in Seq(E), NEW o, Read(q, o)
  PROVE  /\ bank' \in Seq(E)
         /\ \A j \in DOMAIN bank' : \E i \in DOMAIN q : bank'[j] = q[i]
         /\ \A i \in DOMAIN q : \/ \E j \in DOMAIN bank' : bank'[j] = q[i]
                                \/ IsReady(q[i]) /\ q[i].ch \in derived' \cup lost'
                                \/ ~IsReady(q[i]) /\ BankTimedOut(q[i], o)
         /\ derived \subseteq derived' /\ lost \subseteq lost'
         /\ derived' \subseteq derived \cup {q[i].ch : i \in DOMAIN q}
<1> DEFINE K == {k \in 0 .. Len(q) :
                   \A i \in 1 .. k : BankTimedOut(q[i], o) \/ IsReady(q[i])}
           g == Max(K)
           ready == {i \in 1 .. g : IsReady(q[i])}
           late == {i \in 1 .. g : BankTimedOut(q[i], o)}
<1>1. /\ bank' = SubSeq(q, g + 1, Len(q))
      /\ derived' = derived \cup {q[i].ch : i \in ready \ late}
      /\ lost' = lost \cup {q[i].ch : i \in ready \cap late}
  BY DEF Read
<1>2. Len(q) \in Nat /\ DOMAIN q = 1 .. Len(q) /\ \A i \in 1 .. Len(q) : q[i] \in E
  OBVIOUS
<1>3. g \in K
  <2>1. 0 \in K /\ K \subseteq Nat
    BY <1>2
  <2>2. IsFiniteSet(0 .. Len(q)) /\ K \subseteq 0 .. Len(q)
    BY <1>2, FS_Interval
  <2>3. IsFiniteSet(K)
    BY <2>2, FS_Subset
  <2> HIDE DEF K
  <2> QED
    BY <2>1, <2>3, LargestOf
<1>4. g \in 0 .. Len(q) /\ \A i \in 1 .. g : BankTimedOut(q[i], o) \/ IsReady(q[i])
  BY <1>3
<1> HIDE DEF g, K
<1>5. PICK b : b = SubSeq(q, g + 1, Len(q))
  OBVIOUS
<1>6. b \in Seq(E) /\ Len(b) = Len(q) - g /\ \A j \in 1 .. Len(q) - g : b[j] = q[g + j]
  <2>1. g \in 0 .. Len(q)
    BY <1>4
  <2>2. /\ SubSeq(q, g + 1, Len(q)) \in Seq(E)
        /\ Len(SubSeq(q, g + 1, Len(q))) = Len(q) - g
        /\ \A j \in 1 .. Len(q) - g : SubSeq(q, g + 1, Len(q))[j] = q[g + j]
    BY ONLY q \in Seq(E), <2>1, SuffixOf
  <2> QED
    BY ONLY <1>5, <2>2, Zenon
<1>7. \A j \in DOMAIN b : \E i \in DOMAIN q : b[j] = q[i]
  BY <1>2, <1>4, <1>6
<1>8. ASSUME NEW i \in DOMAIN q
      PROVE  \/ \E j \in DOMAIN b : b[j] = q[i]
             \/ IsReady(q[i]) /\ q[i].ch \in derived' \cup lost'
             \/ ~IsReady(q[i]) /\ BankTimedOut(q[i], o)
  <2>1. CASE i > g
    <3>1. i - g \in DOMAIN b /\ b[i - g] = q[i]
      BY <1>2, <1>4, <1>6, <2>1
    <3> QED
      BY <3>1
  <2>2. CASE i \in 1 .. g
    <3>1. CASE IsReady(q[i])
      <4>1. i \in ready \ late \/ i \in ready \cap late
        BY <2>2, <3>1
      <4> HIDE DEF ready, late
      <4> QED
        BY <1>1, <3>1, <4>1
    <3> QED
      BY <1>4, <2>2, <3>1
  <2> QED
    BY <1>2, <1>4, <2>1, <2>2
<1>9. derived' \subseteq derived \cup {q[i].ch : i \in DOMAIN q}
  <2>1. ready \ late \subseteq DOMAIN q
    BY <1>2, <1>4
  <2> HIDE DEF ready, late
  <2> QED
    BY <1>1, <2>1
<1> HIDE DEF ready, late
<1> QED
  BY <1>1, <1>5, <1>6, <1>7, <1>8, <1>9

(***************************************************************************)
(* Appending an element, place by place.                                   *)
(***************************************************************************)
LEMMA AppendedTo ==
  ASSUME NEW S, NEW s \in Seq(S), NEW e \in S
  PROVE  /\ Append(s, e) \in Seq(S) /\ DOMAIN Append(s, e) = 1 .. Len(s) + 1
         /\ Append(s, e)[Len(s) + 1] = e /\ \A i \in DOMAIN s : Append(s, e)[i] = s[i]
  OBVIOUS

\* The queue q after frame n of channel c at origin o.
Ingested(q, c, n, o) ==
  /\ q \in Seq(Entries) /\ \A i \in DOMAIN q : i \in DOMAIN bank \/ q[i].ch = c
  /\ \A i \in DOMAIN bank :
       /\ i \in DOMAIN q /\ q[i].ch = bank[i].ch /\ q[i].open = bank[i].open
       /\ bank[i].frames \subseteq q[i].frames
       /\ bank[i].ch = c /\ ~BankTimedOut(bank[i], o) => n \in q[i].frames
  /\ (\A i \in DOMAIN bank : bank[i].ch # c) =>
       \E i \in DOMAIN q : q[i].ch = c /\ q[i].open = o /\ q[i].frames = {n}

(***************************************************************************)
(* IngestFrame keeps the entries, opens the channel when there is no entry *)
(* of it, and adds the frame to it when it has not timed out.              *)
(***************************************************************************)
LEMMA IngestFacts ==
  ASSUME bank \in Seq(Entries), NEW c \in DOMAIN chans, NEW n \in Nat, NEW o \in Nat, NEW q,
         q = IngestFrame(<<c, n>>, o)
  PROVE  Ingested(q, c, n, o)
<1>1. Len(bank) \in Nat /\ DOMAIN bank = 1 .. Len(bank) /\ \A i \in DOMAIN bank : bank[i] \in Entries
  OBVIOUS
<1>2. CASE \A i \in DOMAIN bank : bank[i].ch # c
  <2>1. PICK e : e = [ch |-> c, open |-> o, frames |-> {n}]
    OBVIOUS
  <2>2. e \in Entries /\ e.ch = c /\ e.open = o /\ e.frames = {n}
    BY <2>1 DEF Entries
  <2>3. q = Append(bank, e)
    BY <1>2, <2>1 DEF IngestFrame
  <2>4. /\ q \in Seq(Entries) /\ DOMAIN q = 1 .. Len(bank) + 1 /\ q[Len(bank) + 1] = e
        /\ \A i \in DOMAIN bank : q[i] = bank[i]
    <3>1. PICK E : E = Entries
      OBVIOUS
    <3>2. e \in E /\ bank \in Seq(E)
      BY <2>2, <3>1
    <3>3. /\ Append(bank, e) \in Seq(E) /\ DOMAIN Append(bank, e) = 1 .. Len(bank) + 1
          /\ Append(bank, e)[Len(bank) + 1] = e
          /\ \A i \in DOMAIN bank : Append(bank, e)[i] = bank[i]
      BY <3>2, AppendedTo
    <3> QED
      BY <2>3, <3>1, <3>3, Zenon
  <2>5. \A i \in DOMAIN q : i \in DOMAIN bank \/ i = Len(bank) + 1
    BY <1>1, <2>4
  <2>6. Len(bank) + 1 \in DOMAIN q /\ \A i \in DOMAIN bank : i \in DOMAIN q
    <3>1. \A k \in Nat : k + 1 \in 1 .. k + 1 /\ \A i \in 1 .. k : i \in 1 .. k + 1
      OBVIOUS
    <3> QED
      BY <1>1, <2>4, <3>1
  <2> QED
    BY <1>2, <2>2, <2>4, <2>5, <2>6 DEF Ingested
<1>3. CASE ~\A i \in DOMAIN bank : bank[i].ch # c
  <2> DEFINE new(i) == IF bank[i].ch = c /\ ~BankTimedOut(bank[i], o)
                         THEN [bank[i] EXCEPT !.frames = @ \cup {n}] ELSE bank[i]
  <2>1. q = [i \in DOMAIN bank |-> new(i)]
    BY <1>3 DEF IngestFrame
  <2>2. ASSUME NEW i \in DOMAIN bank
        PROVE  /\ new(i) \in Entries /\ new(i).ch = bank[i].ch /\ new(i).open = bank[i].open
               /\ bank[i].frames \subseteq new(i).frames
               /\ bank[i].ch = c /\ ~BankTimedOut(bank[i], o) => n \in new(i).frames
    <3>1. bank[i] \in Entries
      BY <1>1
    <3> QED
      BY <3>1 DEF Entries
  <2> HIDE DEF new
  <2>3. DOMAIN q = 1 .. Len(bank) /\ \A i \in DOMAIN bank : q[i] = new(i)
    BY <1>1, <2>1
  <2>4. q \in Seq(Entries)
    BY <1>1, <2>1, <2>2
  <2> QED
    BY <1>1, <1>3, <2>2, <2>3, <2>4 DEF Ingested
<1> QED
  BY <1>2, <1>3

KnownIn(q, c) ==
  \E i \in DOMAIN q : /\ q[i].ch = c /\ Arrived(c) \subseteq q[i].frames
                      /\ \E e \in OfChannel(c) : q[i].open = e[2]

(***************************************************************************)
(* The bank's part of the invariant holds after Read, when it holds of the *)
(* queue that Read works on.                                               *)
(***************************************************************************)
LEMMA ReadKeepsBank ==
  ASSUME BankInv, UNCHANGED chans, stale' \subseteq stale,
         \A e \in onL1' : e[1] \in MadeIn(chans),
         NEW q \in Seq(Entries), Read(q, l1Head'),
         \A i \in DOMAIN q : OfChannel(q[i].ch)' # {},
         \A c \in DOMAIN chans : OfChannel(c)' # {} /\ Near(c)' =>
           c \in derived \cup lost \/ KnownIn(q, c)' \/ Dropped(c)'
  PROVE  BankInv'
<1>1. /\ bank' \in Seq(Entries)
      /\ \A j \in DOMAIN bank' : \E i \in DOMAIN q : bank'[j] = q[i]
      /\ \A i \in DOMAIN q : \/ \E j \in DOMAIN bank' : bank'[j] = q[i]
                             \/ IsReady(q[i]) /\ q[i].ch \in derived' \cup lost'
                             \/ ~IsReady(q[i]) /\ BankTimedOut(q[i], l1Head')
      /\ derived \subseteq derived' /\ lost \subseteq lost'
      /\ derived' \subseteq derived \cup {q[i].ch : i \in DOMAIN q}
  <2>1. PICK E, o : E = Entries /\ o = l1Head'
    OBVIOUS
  <2>2. q \in Seq(E) /\ Read(q, o)
    BY <2>1
  <2> QED
    BY <2>1, <2>2, ReadFacts
<1>2. Made'
  BY DEF BankInv, Made, MadeIn
<1>3. \A i \in DOMAIN q : q[i].ch \in DOMAIN chans
  <2>1. \A i \in DOMAIN q : q[i] \in Entries
    BY ElementOfSeq
  <2> QED
    BY <2>1 DEF Entries
<1>4. BankType'
  <2>1. Entries' = Entries
    BY DEF Entries
  <2>2. bank' \in Seq(Entries')
    BY <1>1, <2>1
  <2>3. \A j \in DOMAIN bank' : OfChannel(bank[j].ch)' # {}
    BY <1>1
  <2>4. derived' \subseteq DOMAIN chans'
    BY <1>1, <1>3 DEF BankInv, BankType
  <2> QED
    BY <2>2, <2>3, <2>4 DEF BankType, OfChannel
<1>5. BankKnows'
  <2> SUFFICES ASSUME NEW c \in DOMAIN chans, OfChannel(c)' # {}, Near(c)'
               PROVE  c \in derived' \cup lost' \/ InQueue(c)' \/ Dropped(c)'
    BY DEF BankKnows
  <2>1. CASE c \in derived \cup lost
    BY <1>1, <2>1
  <2>2. CASE KnownIn(q, c)'
    <3>1. PICK i \in DOMAIN q : /\ q[i].ch = c /\ Arrived(c)' \subseteq q[i].frames
                                /\ \E e \in OfChannel(c)' : q[i].open = e[2]
      BY <2>2 DEF KnownIn
    <3>2. CASE \E j \in DOMAIN bank' : bank'[j] = q[i]
      BY <3>1, <3>2 DEF InQueue
    <3>3. CASE IsReady(q[i]) /\ q[i].ch \in derived' \cup lost'
      BY <3>1, <3>3
    <3>4. CASE ~IsReady(q[i]) /\ BankTimedOut(q[i], l1Head')
      <4>1. ~CompleteOnL1(c)'
        BY <3>1, <3>4 DEF IsReady, CompleteOnL1
      <4>2. \E e \in OfChannel(c)' : e[2] + ChannelTimeout < l1Head'
        BY <3>1, <3>4 DEF BankTimedOut
      <4> QED
        BY <4>1, <4>2 DEF Dropped
    <3> QED
      BY <1>1, <3>2, <3>3, <3>4
  <2> QED
    BY <2>1, <2>2
<1> QED
  BY <1>2, <1>4, <1>5 DEF BankInv

(***************************************************************************)
(* A complete channel stays in the bank, or is read or dropped.            *)
(***************************************************************************)
LEMMA ReadKeepsReady ==
  ASSUME UNCHANGED chans, NEW E, NEW q \in Seq(E), NEW o, Read(q, o),
         \A i \in DOMAIN bank : \E j \in DOMAIN q :
           q[j].ch = bank[i].ch /\ bank[i].frames \subseteq q[j].frames,
         NEW c, c \in derived \cup lost \/ InBank(c)
  PROVE  c \in derived' \cup lost' \/ InBank(c)'
<1>1. /\ \A i \in DOMAIN q : \/ \E j \in DOMAIN bank' : bank'[j] = q[i]
                             \/ IsReady(q[i]) /\ q[i].ch \in derived' \cup lost'
                             \/ ~IsReady(q[i]) /\ BankTimedOut(q[i], o)
      /\ derived \subseteq derived' /\ lost \subseteq lost'
  BY ReadFacts
<1>2. CASE InBank(c)
  <2>1. PICK i \in DOMAIN bank : bank[i].ch = c /\ IsReady(bank[i])
    BY <1>2 DEF InBank
  <2>2. PICK j \in DOMAIN q : q[j].ch = bank[i].ch /\ bank[i].frames \subseteq q[j].frames
    OBVIOUS
  <2>3. q[j].ch = c /\ IsReady(q[j])
    BY <2>1, <2>2 DEF IsReady
  <2>4. \A k \in DOMAIN bank' : bank'[k] = q[j] => IsReady(bank[k])' /\ bank'[k].ch = c
    BY <2>3 DEF IsReady
  <2> QED
    BY <1>1, <2>3, <2>4 DEF InBank
<1> QED
  BY <1>1, <1>2

(***************************************************************************)
(* The bank's part holds when the channels grow.                           *)
(***************************************************************************)
LEMMA BankKept ==
  ASSUME BankInv, EnvType, ManagerType, ChansGrow(chans, chans'), chans' \in Seq(Channels),
         UNCHANGED <<l1Head, onL1, bankVars>>, stale' \subseteq stale \cup MadeIn(chans)
  PROVE  BankInv'
<1> USE DEF BankInv
<1>1. UNCHANGED <<bank, derived, lost, onL1, l1Head>>
  BY DEF bankVars
<1>2. \A c \in DOMAIN chans : /\ c \in DOMAIN chans' /\ Grown(chans[c], chans'[c])
                              /\ chans[c].numFrames \in Nat /\ chans'[c].numFrames \in Nat
                              /\ chans'[c].numFrames <= MaxFrames /\ MaxFrames \in Nat
                              /\ chans[c].full \in BOOLEAN /\ chans'[c].full \in BOOLEAN
  <2>1. \A c \in DOMAIN chans : c \in DOMAIN chans' /\ Grown(chans[c], chans'[c])
    BY DEF ChansGrow
  <2>2. \A c \in DOMAIN chans : chans[c] \in Channels /\ chans'[c] \in Channels
    BY <2>1, ElementOfSeq DEF ManagerType, GoodChans
  <2> QED
    BY <2>1, <2>2, ChannelFields
<1>3. MadeIn(chans) \subseteq MadeIn(chans')
  <2> SUFFICES ASSUME NEW t \in (DOMAIN chans) \X FrameNumbers, t[2] < chans[t[1]].numFrames
               PROVE  t \in (DOMAIN chans') \X FrameNumbers /\ t[2] < chans'[t[1]].numFrames
    BY DEF MadeIn
  <2>1. PICK c \in DOMAIN chans, n \in FrameNumbers : t = <<c, n>>
    OBVIOUS
  <2>2. n \in Int /\ n < chans[c].numFrames
    BY <2>1, BatcherAssumption DEF FrameNumbers
  <2>3. n < chans'[c].numFrames
    BY <1>2, <2>2 DEF Grown
  <2> QED
    BY <1>2, <2>1, <2>3
<1>4. Made'
  BY <1>1, <1>3 DEF Made
<1>5. \A c : OfChannel(c)' = OfChannel(c) /\ Arrived(c)' = Arrived(c) /\ Near(c)' = Near(c)
             /\ InQueue(c)' = InQueue(c)
  BY <1>1 DEF OfChannel, Arrived, Near, InQueue
<1>6. BankType'
  <2>1. Entries \subseteq Entries'
    BY <1>2 DEF Entries
  <2>2. bank' \in Seq(Entries')
    <3>1. bank \in Seq(Entries)
      BY DEF BankType
    <3> QED
      BY <1>1, <2>1, <3>1
  <2> QED
    BY <1>1, <1>2, <1>5, <2>2 DEF BankType, OfChannel
<1>7. ASSUME NEW c \in DOMAIN chans, CompleteOnL1(c)' PROVE CompleteOnL1(c)
  <2>1. chans'[c].full /\ 0 .. chans'[c].numFrames - 1 \subseteq Arrived(c)
    BY <1>5, <1>7 DEF CompleteOnL1
  <2>2. \A n \in Arrived(c) : n < chans[c].numFrames
    BY DEF Arrived, OfChannel, Made, MadeIn
  <2>3. chans[c].numFrames <= chans'[c].numFrames
    BY <1>2 DEF Grown
  <2>4. chans'[c].numFrames = chans[c].numFrames
    <3>1. CASE chans'[c].numFrames > chans[c].numFrames
      <4>1. chans[c].numFrames \in 0 .. chans'[c].numFrames - 1
        BY <1>2, <3>1
      <4> QED
        BY <1>2, <2>1, <2>2, <4>1
    <3> QED
      BY <1>2, <2>3, <3>1
  <2>5. chans[c].full
    BY <1>2, <2>1, <2>4 DEF Grown
  <2> QED
    BY <2>1, <2>4, <2>5 DEF CompleteOnL1
<1>8. ASSUME NEW c \in DOMAIN chans' \ DOMAIN chans PROVE OfChannel(c)' = {}
  <2>1. \A e \in onL1 : e[1][1] \in DOMAIN chans
    BY DEF Made, MadeIn
  <2> QED
    BY <1>5, <2>1 DEF OfChannel
<1>9. BankKnows'
  <2> SUFFICES ASSUME NEW c \in DOMAIN chans', OfChannel(c)' # {}, Near(c)'
               PROVE  c \in derived' \cup lost' \/ InQueue(c)' \/ Dropped(c)'
    BY DEF BankKnows
  <2>1. c \in DOMAIN chans
    BY <1>8
  <2>2. c \in derived \cup lost \/ InQueue(c) \/ Dropped(c)
    BY <1>5, <2>1 DEF BankKnows
  <2>3. Dropped(c) => Dropped(c)'
    BY <1>1, <1>5, <1>7, <2>1 DEF Dropped
  <2> QED
    BY <1>1, <1>5, <2>2, <2>3
<1> QED
  BY <1>4, <1>6, <1>9

-----------------------------------------------------------------------------
(***************************************************************************)
(* The operations of the channel manager.  A block stays accounted for     *)
(* when a channel's content may change only in the queue, when a channel   *)
(* leaves the queue only with its blocks back or on L1, and when a waiting *)
(* block moves only to a queued channel.                                   *)
(***************************************************************************)
InclusionsIn(on, c, n) == {e[2] : e \in {f \in on : f[1] = <<c, n>>}}

Reached(c) == c \in derived \cup lost \/ InBank(c) \/ OpenedEarly(c)

CoverKept ==
  /\ DOMAIN chans \subseteq DOMAIN chans' /\ channelQueue' \in Seq(DOMAIN chans')
  /\ \A c \in DOMAIN chans : ToSet(chans[c].blocks) \subseteq ToSet(chans'[c].blocks)
  /\ \A c \in DOMAIN chans : c \in ToSet(channelQueue') \/ SameContent(chans[c], chans'[c])
  /\ \A c \in ToSet(channelQueue) :
       \/ c \in ToSet(channelQueue')
       \/ ToSet(chans[c].blocks) \subseteq ToSet(blocks')
       \/ Reached(c)'
  /\ \A b \in ToSet(blocks) :
       b \in ToSet(blocks') \/ \E c \in ToSet(channelQueue') : Holds(c, b)'

(***************************************************************************)
(* removePendingChannel.                                                   *)
(***************************************************************************)
LEMMA RemoveChannelFacts ==
  ASSUME ManagerType, NEW c, RemoveChannel(c)
  PROVE  /\ channelQueue' \in Seq(DOMAIN chans)
         /\ currentChannel' \in {0} \cup ToSet(channelQueue')
         /\ \A d \in ToSet(channelQueue) : d # c => d \in ToSet(channelQueue')
<1>1. channelQueue \in Seq(DOMAIN chans) /\ currentChannel \in {0} \cup ToSet(channelQueue)
  BY DEF ManagerType
<1>2. PICK r : r = removePendingChannel(channelQueue, c)
  OBVIOUS
<1>3. r \in Seq(DOMAIN chans) /\ \A d \in ToSet(channelQueue) : d # c => d \in ToSet(r)
  BY <1>1, <1>2, RemovedFacts
<1>4. channelQueue' = r /\ currentChannel' = IF currentChannel = c THEN 0 ELSE currentChannel
  BY <1>2 DEF RemoveChannel
<1> QED
  BY <1>1, <1>3, <1>4

(***************************************************************************)
(* The channel and the number of a known transaction.                      *)
(***************************************************************************)
LEMMA KnownTx ==
  ASSUME TxPending, NEW t \in txChannels
  PROVE  \E c \in DOMAIN chans, n \in FrameNumbers : t = <<c, n>>
BY DEF TxPending, PendingIn

(***************************************************************************)
(* TxFailed.                                                               *)
(***************************************************************************)
LEMMA TxFailedFacts ==
  ASSUME ManagerType, TxPending, NEW t \in txChannels, TxFailed(t)
  PROVE  /\ ManagerType' /\ TxPending' /\ txChannels' = txChannels \ {t}
         /\ KeepsContent(chans, chans') /\ KeepsConfirmed(chans, chans')
         /\ blocks' = blocks /\ tip' = tip /\ closed' = closed
         /\ ~closed => channelQueue' = channelQueue
<1>1. PICK c \in DOMAIN chans, n \in FrameNumbers : t = <<c, n>>
  BY KnownTx
<1>2. PICK ds : ds = [chans EXCEPT ![c].pending = @ \ {n}, ![c].frames = Append(@, n)]
  OBVIOUS
<1>3. /\ txChannels' = txChannels \ {t} /\ chans' = ds
      /\ RemoveChannel(c) \/ UNCHANGED <<channelQueue, currentChannel>>
      /\ ~closed => UNCHANGED channelQueue
      /\ UNCHANGED <<blocks, tip, closed>>
  BY <1>1, <1>2 DEF TxFailed
<1>4. /\ GoodChans(ds) /\ PendingIn(ds, txChannels \ {<<c, n>>})
      /\ KeepsContent(chans, ds) /\ KeepsConfirmed(chans, ds)
  <2>1. GoodChans(chans) /\ PendingIn(chans, txChannels)
    BY DEF ManagerType, TxPending
  <2> QED
    BY <1>1, <1>2, <2>1, ReturnStep
<1>5. channelQueue' \in Seq(DOMAIN chans) /\ currentChannel' \in {0} \cup ToSet(channelQueue')
  <2>1. CASE RemoveChannel(c)
    BY <2>1, RemoveChannelFacts
  <2>2. CASE UNCHANGED <<channelQueue, currentChannel>>
    BY <2>2 DEF ManagerType
  <2> QED
    BY <1>3, <2>1, <2>2
<1>6. DOMAIN chans' = DOMAIN chans
  BY <1>3, <1>4 DEF KeepsContent
<1>7. ManagerType'
  <2>1. blocks' \in Seq(L2Chains) /\ tip' \in L2Chains /\ closed' \in BOOLEAN
    BY <1>3 DEF ManagerType
  <2>2. GoodChans(chans)'
    BY <1>3, <1>4 DEF GoodChans
  <2> QED
    BY <1>5, <1>6, <2>1, <2>2 DEF ManagerType
<1>8. TxPending'
  BY <1>1, <1>3, <1>4 DEF TxPending, PendingIn
<1> QED
  BY <1>3, <1>4, <1>7, <1>8

(***************************************************************************)
(* The inclusions of a frame are finitely many numbers.                    *)
(***************************************************************************)
LEMMA InclusionsFinite ==
  ASSUME NEW on, IsFiniteSet(on), \A e \in on : e[2] \in Nat, NEW c, NEW n
  PROVE  InclusionsIn(on, c, n) \subseteq Nat /\ IsFiniteSet(InclusionsIn(on, c, n))
<1> DEFINE E == {f \in on : f[1] = <<c, n>>}
<1>1. E \subseteq on /\ \A e \in E : e[2] \in Nat
  OBVIOUS
<1>2. IsFiniteSet(E)
  BY <1>1, FS_Subset
<1>3. IsFiniteSet({e[2] : e \in E})
  <2> DEFINE second == [e \in E |-> e[2]]
  <2>1. {e[2] : e \in E} = {second[e] : e \in E}
    OBVIOUS
  <2>2. PICK D, f : D = E /\ f = second
    OBVIOUS
  <2>3. IsFiniteSet(D)
    BY <1>2, <2>2
  <2>4. IsFiniteSet({f[x] : x \in D})
    BY <2>3, ImageFinite
  <2>5. {e[2] : e \in E} = {f[x] : x \in D}
    BY <2>1, <2>2
  <2> QED
    BY <2>4, <2>5
<1> QED
  BY <1>1, <1>3 DEF InclusionsIn

(***************************************************************************)
(* A channel without waiting or pending frames, whose confirmed frames are *)
(* close enough, reached the bank complete, or opened it early.            *)
(***************************************************************************)
LEMMA SubmittedReached ==
  ASSUME EnvType, BankInv, NEW c \in DOMAIN chans, NEW ch \in Channels, Split(ch),
         SameContent(chans[c], ch), DOMAIN ch.confirmed # {},
         \A n \in DOMAIN ch.confirmed : <<<<c, n>>, ch.confirmed[n]>> \in onL1,
         isFullySubmitted(ch), ~isTimedOut(ch)
  PROVE  Reached(c)
<1> DEFINE F == 0 .. ch.numFrames - 1
           at == {ch.confirmed[n] : n \in DOMAIN ch.confirmed}
<1>1. ch.full /\ ch.pending = {} /\ ch.frames = <<>>
  BY DEF isFullySubmitted
<1>2. DOMAIN ch.confirmed = F
  <2>1. Waiting(ch) = {}
    BY <1>1 DEF Waiting
  <2> QED
    BY <1>1, <2>1 DEF Split
<1>3. /\ F \subseteq 0 .. MaxFrames - 1 /\ ch.numFrames \in Nat
      /\ chans[c].numFrames = ch.numFrames /\ chans[c].full = ch.full
  BY ChannelFields DEF SameContent
<1>4. F \subseteq Arrived(c) /\ OfChannel(c) # {}
  <2>1. ASSUME NEW n \in F PROVE n \in Arrived(c)
    <3>1. PICK e : e = <<<<c, n>>, ch.confirmed[n]>>
      OBVIOUS
    <3>2. e \in onL1 /\ e[1][1] = c /\ e[1][2] = n
      BY <1>2, <3>1
    <3> QED
      BY <3>2 DEF Arrived, OfChannel
  <2>2. PICK n \in F : TRUE
    BY <1>2
  <2> QED
    BY <2>1, <2>2 DEF Arrived
<1>5. CompleteOnL1(c)
  BY <1>1, <1>3, <1>4 DEF CompleteOnL1
<1>6. CASE Near(c)
  <2>1. c \in derived \cup lost \/ InQueue(c)
    BY <1>4, <1>5, <1>6 DEF BankInv, BankKnows, Dropped
  <2>2. InQueue(c) => InBank(c)
    BY <1>1, <1>3, <1>4 DEF InQueue, InBank, IsReady
  <2> QED
    BY <2>1, <2>2 DEF Reached
<1>7. CASE ~Near(c)
  <2>1. PICK e \in OfChannel(c), f \in OfChannel(c) : ~(f[2] <= e[2] + ChannelTimeout)
    BY <1>7 DEF Near
  <2>2. /\ IsFiniteSet(onL1) /\ (\A x \in onL1 : x[2] \in Nat)
        /\ ChannelTimeout \in Nat /\ e[2] \in Nat /\ f[2] \in Nat
    BY BatcherAssumption DEF EnvType, OfChannel
  <2>3. e[2] + ChannelTimeout < f[2]
    BY <2>1, <2>2
  <2>4. ASSUME ~SentTwice(c), NEW x \in OfChannel(c) PROVE x[2] \in at
    <3>1. PICK n, a : x = <<<<c, n>>, a>> /\ n \in F /\ a \in Nat
      <4>1. x \in FrameIDs \X Nat /\ x[1] \in MadeIn(chans) /\ x[1][1] = c
        BY DEF OfChannel, EnvType, BankInv, Made
      <4>2. PICK d, n, a : x = <<<<d, n>>, a>> /\ n \in 0 .. MaxFrames - 1 /\ a \in Nat
        BY <4>1 DEF FrameIDs
      <4>3. d = c /\ n < chans[c].numFrames
        BY <4>1, <4>2 DEF MadeIn
      <4> QED
        BY <1>3, <4>2, <4>3
    <3>2. PICK S : S = InclusionsIn(onL1, c, n)
      OBVIOUS
    <3>3. S \subseteq Nat /\ IsFiniteSet(S)
      <4>1. PICK on : on = onL1
        OBVIOUS
      <4>2. IsFiniteSet(on) /\ \A y \in on : y[2] \in Nat
        BY <2>2, <4>1
      <4> QED
        BY <3>2, <4>1, <4>2, InclusionsFinite
    <3>4. a \in S /\ ch.confirmed[n] \in S
      <4>1. PICK b : b = ch.confirmed[n]
        OBVIOUS
      <4>2. <<<<c, n>>, a>> \in onL1 /\ <<<<c, n>>, b>> \in onL1
        BY <1>2, <3>1, <4>1 DEF OfChannel
      <4>3. /\ <<<<c, n>>, a>>[1] = <<c, n>> /\ <<<<c, n>>, a>>[2] = a
            /\ <<<<c, n>>, b>>[1] = <<c, n>> /\ <<<<c, n>>, b>>[2] = b
        OBVIOUS
      <4>4. a \in InclusionsIn(onL1, c, n) /\ b \in InclusionsIn(onL1, c, n)
        BY <4>2, <4>3 DEF InclusionsIn
      <4> QED
        BY <3>2, <4>1, <4>4
    <3>5. ~(Cardinality(S) > 1)
      BY <1>3, <2>4, <3>1, <3>2 DEF SentTwice, Inclusions, InclusionsIn
    <3>6. a = ch.confirmed[n]
      BY <3>3, <3>4, <3>5, TwoMembers
    <3> QED
      BY <1>2, <3>1, <3>6
  <2>5. SentTwice(c)
    <3> SUFFICES ASSUME ~SentTwice(c) PROVE FALSE
      OBVIOUS
    <3>1. e[2] \in at /\ f[2] \in at
      BY <2>4
    <3>2. IsFiniteSet(at) /\ at \subseteq Nat
      <4>1. 0 \in Int /\ ch.numFrames - 1 \in Int
        BY <1>3
      <4>2. IsFiniteSet(F)
        BY <4>1, FS_Interval
      <4>3. IsFiniteSet({ch.confirmed[n] : n \in F})
        BY <4>2, ImageFinite
      <4>4. \A n \in F : ch.confirmed[n] \in Nat
        <5> SUFFICES ASSUME NEW n \in F PROVE ch.confirmed[n] \in Nat
          OBVIOUS
        <5>1. <<<<c, n>>, ch.confirmed[n]>> \in onL1
          BY <1>2
        <5> QED
          BY <2>2, <5>1
      <4> QED
        BY <1>2, <4>3, <4>4
    <3>3. ~(Max(at) - Min(at) >= ChannelTimeout)
      BY <3>1 DEF isTimedOut
    <3> HIDE DEF at
    <3>4. /\ Min(at) \in at /\ Max(at) \in at /\ Max(at) >= f[2] /\ Min(at) <= e[2]
      BY <3>1, <3>2, SmallestOf, LargestOf
    <3>5. Min(at) \in Nat /\ Max(at) \in Nat
      BY <3>2, <3>4
    <3> QED
      BY <2>2, <2>3, <3>3, <3>4, <3>5
  <2>6. OpenedEarly(c)
    BY <2>3, <2>5 DEF OpenedEarly, OfChannel
  <2> QED
    BY <2>6 DEF Reached
<1> QED
  BY <1>6, <1>7

(***************************************************************************)
(* What reached the bank stays so while the channel and the bank do.       *)
(***************************************************************************)
LEMMA ReachedKept ==
  ASSUME UNCHANGED <<onL1, bankVars>>, NEW c, SameContent(chans[c], chans'[c]), Reached(c)
  PROVE  Reached(c)'
<1>1. UNCHANGED <<onL1, bank, derived, lost>>
  BY DEF bankVars
<1>2. OpenedEarly(c) => OpenedEarly(c)'
  BY <1>1 DEF OpenedEarly, SentTwice, Inclusions
<1>3. InBank(c) => InBank(c)'
  BY <1>1 DEF InBank, IsReady, SameContent
<1> QED
  BY <1>1, <1>2, <1>3 DEF Reached

(***************************************************************************)
(* TxConfirmed.                                                            *)
(***************************************************************************)
LEMMA TxConfirmedFacts ==
  ASSUME EnvType, BankInv, ManagerType, TxPending, ConfirmedIn(chans, onL1),
         UNCHANGED <<onL1, bankVars>>,
         NEW t \in txChannels, NEW at \in Nat, <<t, at>> \in onL1, TxConfirmed(t, at)
  PROVE  /\ ManagerType' /\ TxPending' /\ txChannels' = txChannels \ {t}
         /\ ConfirmedIn(chans, onL1)' /\ CoverKept /\ KeepsContent(chans, chans')
         /\ tip' = tip /\ closed' = closed
<1>1. PICK c \in DOMAIN chans, n \in FrameNumbers : t = <<c, n>>
  BY KnownTx
<1>2. PICK ch : ch = Confirmed(<<c, n>>, at)
  OBVIOUS
<1>3. PICK ds : ds = [chans EXCEPT ![c] = ch]
  OBVIOUS
<1>4. /\ txChannels' = txChannels \ {t} /\ chans' = ds
      /\ blocks' = IF isTimedOut(ch) THEN ch.blocks \o blocks ELSE blocks
      /\ IF isTimedOut(ch) \/ isFullySubmitted(ch)
           THEN RemoveChannel(c) ELSE UNCHANGED <<channelQueue, currentChannel>>
      /\ tip' = tip /\ closed' = closed
  BY <1>1, <1>2, <1>3 DEF TxConfirmed
<1>5. /\ GoodChans(ds) /\ PendingIn(ds, txChannels \ {<<c, n>>})
      /\ KeepsContent(chans, ds) /\ ConfirmedIn(ds, onL1) /\ ds[c] = ch
  <2>1. GoodChans(chans)
    BY DEF ManagerType
  <2> QED
    BY <1>1, <1>2, <1>3, <2>1, ConfirmStep
<1>6. DOMAIN ds = DOMAIN chans /\ \A d \in DOMAIN chans : ds[d].blocks = chans[d].blocks
  BY <1>5 DEF KeepsContent, SameContent
<1>7. ch \in Channels /\ Split(ch)
  BY <1>5, <1>6, ElementOfSeq DEF GoodChans
<1>8. /\ channelQueue' \in Seq(DOMAIN chans) /\ currentChannel' \in {0} \cup ToSet(channelQueue')
      /\ \A d \in ToSet(channelQueue) : d # c => d \in ToSet(channelQueue')
      /\ isTimedOut(ch) \/ isFullySubmitted(ch) \/ channelQueue' = channelQueue
  <2>1. CASE RemoveChannel(c) /\ (isTimedOut(ch) \/ isFullySubmitted(ch))
    BY <2>1, RemoveChannelFacts
  <2>2. CASE UNCHANGED <<channelQueue, currentChannel>>
    BY <2>2 DEF ManagerType
  <2> QED
    BY <1>4, <2>1, <2>2
<1>9. blocks \in Seq(L2Chains) /\ ch.blocks \in Seq(L2Chains) /\ tip \in L2Chains /\ closed \in BOOLEAN
  BY <1>7, ChannelFields DEF ManagerType
<1>10. /\ ch.blocks \o blocks \in Seq(L2Chains)
       /\ ToSet(ch.blocks \o blocks) = ToSet(ch.blocks) \cup ToSet(blocks)
  BY <1>9, ToSetConcat
<1>11. blocks' \in Seq(L2Chains)
  BY <1>4, <1>9, <1>10
<1>12. ManagerType'
  <2>1. GoodChans(chans)' /\ DOMAIN chans' = DOMAIN chans
    BY <1>4, <1>5, <1>6 DEF GoodChans
  <2> QED
    BY <1>4, <1>8, <1>9, <1>11, <2>1 DEF ManagerType
<1>13. TxPending' /\ ConfirmedIn(chans, onL1)'
  BY <1>1, <1>4, <1>5 DEF TxPending, PendingIn, ConfirmedIn
<1>14. isFullySubmitted(ch) /\ ~isTimedOut(ch) => Reached(c)'
  <2> SUFFICES ASSUME isFullySubmitted(ch), ~isTimedOut(ch) PROVE Reached(c)'
    OBVIOUS
  <2>1. \A m \in DOMAIN ch.confirmed : <<<<c, m>>, ch.confirmed[m]>> \in onL1
    BY <1>5, <1>6 DEF ConfirmedIn
  <2>2. SameContent(chans[c], ch) /\ DOMAIN ch.confirmed # {}
    <3>1. chans \in Seq(Channels) /\ Split(chans[c]) /\ n \in chans[c].pending
      BY <1>1 DEF ManagerType, GoodChans, TxPending, PendingIn
    <3>2. SameContent(chans[c], ch) /\ n \in DOMAIN ch.confirmed
      BY <1>2, <3>1, ConfirmFacts
    <3> QED
      BY <3>2
  <2>3. Reached(c)
    BY <1>7, <2>1, <2>2, SubmittedReached
  <2> QED
    BY <1>4, <1>5, <1>6, <2>2, <2>3, ReachedKept
<1>15. CoverKept
  <2>1. DOMAIN chans \subseteq DOMAIN chans' /\ channelQueue' \in Seq(DOMAIN chans')
    BY <1>4, <1>6, <1>8
  <2>2. \A d \in DOMAIN chans : /\ ToSet(chans[d].blocks) \subseteq ToSet(chans'[d].blocks)
                                /\ SameContent(chans[d], chans'[d])
    BY <1>4, <1>5, <1>6 DEF KeepsContent
  <2>3. \A b \in ToSet(blocks) : b \in ToSet(blocks')
    BY <1>4, <1>10
  <2>4. isTimedOut(ch) => ToSet(chans[c].blocks) \subseteq ToSet(blocks')
    BY <1>4, <1>5, <1>6, <1>10
  <2>5. \A d \in ToSet(channelQueue) :
          \/ d \in ToSet(channelQueue')
          \/ ToSet(chans[d].blocks) \subseteq ToSet(blocks')
          \/ Reached(d)'
    BY <1>8, <1>14, <2>4
  <2> QED
    BY <2>1, <2>2, <2>3, <2>5 DEF CoverKept
<1> QED
  BY <1>4, <1>5, <1>12, <1>13, <1>15

(***************************************************************************)
(* TxData gives out a frame that was not pending, or none.                 *)
(***************************************************************************)
GivesFrame ==
  \/ sending' = NoFrame /\ txChannels' = txChannels
  \/ /\ sending' # NoFrame /\ sending' \notin txChannels
     /\ txChannels' = txChannels \cup {sending'}

TxDataDone ==
  /\ ManagerType' /\ TxPending' /\ ConfirmedIn(chans, onL1)' /\ CoverKept /\ GivesFrame
  /\ tip' = tip /\ closed' = closed /\ ChansGrow(chans, chans')

(***************************************************************************)
(* nextTxData on channels cs that hold what chans holds, and more only in  *)
(* channels of the queue.                                                  *)
(***************************************************************************)
Extends(cs, q, bs) ==
  /\ GoodChans(cs) /\ ConfirmedIn(cs, onL1) /\ ChansGrow(chans, cs)
  /\ DOMAIN chans \subseteq DOMAIN cs
  /\ \A d \in DOMAIN chans : ToSet(chans[d].blocks) \subseteq ToSet(cs[d].blocks)
  /\ \A d \in DOMAIN chans : d \in ToSet(q) \/ SameContent(chans[d], cs[d])
  /\ q \in Seq(DOMAIN cs) /\ ToSet(channelQueue) \subseteq ToSet(q)
  /\ bs \in Seq(L2Chains)
  /\ \A b \in ToSet(blocks) :
       b \in ToSet(bs) \/ \E c \in ToSet(q) : b \in ToSet(cs[c].blocks)

(***************************************************************************)
(* A step that extends the channels and gives a frame, or none, is what    *)
(* TxData may do.                                                          *)
(***************************************************************************)
LEMMA ExtendsDone ==
  ASSUME NEW cs, NEW q, NEW bs, Extends(cs, q, bs), ManagerType, UNCHANGED <<onL1, tip, closed>>,
         chans' = cs, channelQueue' = q, blocks' = bs, currentChannel' \in {0} \cup ToSet(q),
         GivesFrame, PendingIn(cs, txChannels')
  PROVE  TxDataDone
<1>1. ManagerType'
  <2>1. GoodChans(chans)'
    BY DEF Extends, GoodChans
  <2>2. tip' \in L2Chains /\ closed' \in BOOLEAN
    BY DEF ManagerType
  <2> QED
    BY <2>1, <2>2 DEF Extends, ManagerType
<1>2. TxPending' /\ ConfirmedIn(chans, onL1)'
  BY DEF Extends, TxPending, PendingIn, ConfirmedIn
<1>3. CoverKept
  <2>1. \A c \in DOMAIN chans : c \in ToSet(q) \/ SameContent(chans[c], chans'[c])
    BY DEF Extends
  <2>2. \A c \in ToSet(channelQueue) : c \in ToSet(channelQueue')
    BY DEF Extends
  <2>3. \A b \in ToSet(blocks) : b \in ToSet(blocks') \/ \E c \in ToSet(channelQueue') : Holds(c, b)'
    BY DEF Extends, Holds
  <2>4. /\ DOMAIN chans \subseteq DOMAIN chans' /\ channelQueue' \in Seq(DOMAIN chans')
        /\ \A c \in DOMAIN chans : ToSet(chans[c].blocks) \subseteq ToSet(chans'[c].blocks)
    BY DEF Extends
  <2> QED
    BY <2>1, <2>2, <2>3, <2>4 DEF CoverKept
<1>4. ChansGrow(chans, chans')
  BY DEF Extends
<1> QED
  BY <1>1, <1>2, <1>3, <1>4 DEF TxDataDone

(***************************************************************************)
(* nextTxData takes a frame of an extended channel.                        *)
(***************************************************************************)
LEMMA NextTxDataDone ==
  ASSUME NEW cs, NEW q, NEW bs, NEW c, Extends(cs, q, bs), ManagerType, PendingIn(cs, txChannels),
         UNCHANGED <<onL1, tip, closed>>, c \in DOMAIN cs, cs[c].frames # <<>>, nextTxData(cs, c),
         channelQueue' = q, blocks' = bs, currentChannel' \in {0} \cup ToSet(q)
  PROVE  TxDataDone
<1>1. PICK n : n = Head(cs[c].frames)
  OBVIOUS
<1>2. PICK ds : ds = [cs EXCEPT ![c].frames = Tail(@), ![c].pending = @ \cup {n}]
  OBVIOUS
<1>3. chans' = ds /\ txChannels' = txChannels \cup {<<c, n>>} /\ sending' = <<c, n>>
  BY <1>1, <1>2 DEF nextTxData
<1>4. /\ GoodChans(ds) /\ PendingIn(ds, txChannels \cup {<<c, n>>})
      /\ KeepsContent(cs, ds) /\ KeepsConfirmed(cs, ds)
      /\ n \in FrameNumbers /\ <<c, n>> \notin txChannels
  <2>1. GoodChans(cs)
    BY DEF Extends
  <2> QED
    BY <1>1, <1>2, <2>1, TakeStep
<1>5. c # 0
  <2>1. cs \in Seq(Channels)
    BY DEF Extends, GoodChans
  <2> QED
    BY <2>1
<1>6. GivesFrame
  BY <1>3, <1>4, <1>5 DEF GivesFrame, NoFrame
<1>7. PendingIn(ds, txChannels')
  BY <1>3, <1>4
<1>8. /\ DOMAIN ds = DOMAIN cs
      /\ \A d \in DOMAIN cs : ds[d].confirmed = cs[d].confirmed /\ SameContent(cs[d], ds[d])
                              /\ ds[d].blocks = cs[d].blocks
  BY <1>4 DEF KeepsContent, KeepsConfirmed, SameContent
<1>9. /\ ConfirmedIn(ds, onL1)
      /\ \A d \in DOMAIN chans : /\ ToSet(chans[d].blocks) \subseteq ToSet(ds[d].blocks)
                                 /\ d \in ToSet(q) \/ SameContent(chans[d], ds[d])
  BY <1>8 DEF Extends, ConfirmedIn, SameContent
<1>10. q \in Seq(DOMAIN cs) /\ \A d \in ToSet(q) : d \in DOMAIN cs
  <2>1. q \in Seq(DOMAIN cs)
    BY DEF Extends
  <2> QED
    BY <2>1, ElementOfSeq DEF ToSet
<1>11. DOMAIN chans \subseteq DOMAIN ds /\ ToSet(channelQueue) \subseteq ToSet(q) /\ bs \in Seq(L2Chains)
  BY <1>8 DEF Extends
<1>12. \A b \in ToSet(blocks) :
         b \in ToSet(bs) \/ \E d \in ToSet(q) : b \in ToSet(ds[d].blocks)
  BY <1>8, <1>10 DEF Extends
<1>13. q \in Seq(DOMAIN ds)
  BY <1>8, <1>10
<1>14. ChansGrow(chans, ds)
  BY <1>8, <1>11 DEF Extends, ChansGrow, Grown, SameContent
<1>15. Extends(ds, q, bs)
  BY <1>4, <1>9, <1>11, <1>12, <1>13, <1>14 DEF Extends
<1> QED
  BY <1>3, <1>6, <1>7, <1>15, ExtendsDone

(***************************************************************************)
(* TxData, for a frame that waits.                                         *)
(***************************************************************************)
LEMMA SameExtends ==
  ASSUME ManagerType, ConfirmedIn(chans, onL1)
  PROVE  Extends(chans, channelQueue, blocks)
<1>1. ChansGrow(chans, chans)
  BY GrowSame DEF ManagerType, GoodChans, SameContent
<1> QED
  BY <1>1 DEF ManagerType, Extends, SameContent

(***************************************************************************)
(* TxData with a frame that waits in a queued channel.                     *)
(***************************************************************************)
LEMMA TxDataPendingDone ==
  ASSUME ManagerType, TxPending, ConfirmedIn(chans, onL1), UNCHANGED onL1, TxDataPending
  PROVE  TxDataDone
<1>1. PICK cs, q, bs : cs = chans /\ q = channelQueue /\ bs = blocks
  OBVIOUS
<1>2. Extends(cs, q, bs) /\ PendingIn(cs, txChannels)
  BY <1>1, SameExtends DEF TxPending
<1>3. Min(WithFrame) \in WithFrame
  <2>1. WithFrame \subseteq Nat /\ WithFrame # {}
    BY DEF TxDataPending, WithFrame, ManagerType
  <2> QED
    BY <2>1, SmallestOf
<1>4. PICK c : c = channelQueue[Min(WithFrame)]
  OBVIOUS
<1>5. c \in DOMAIN cs /\ cs[c].frames # <<>>
  BY <1>1, <1>3, <1>4, ElementOfSeq DEF WithFrame, ManagerType
<1>6. /\ nextTxData(cs, c) /\ UNCHANGED <<onL1, tip, closed>>
      /\ channelQueue' = q /\ blocks' = bs /\ currentChannel' \in {0} \cup ToSet(q)
  BY <1>1, <1>4 DEF TxDataPending, ManagerType
<1> QED
  BY <1>2, <1>5, <1>6, NextTxDataDone

(***************************************************************************)
(* TxData with nothing to send.                                            *)
(***************************************************************************)
LEMMA TxDataEOFDone ==
  ASSUME ManagerType, TxPending, ConfirmedIn(chans, onL1), UNCHANGED onL1, TxDataEOF
  PROVE  TxDataDone
<1>1. PICK cs, q, bs : cs = chans /\ q = channelQueue /\ bs = blocks
  OBVIOUS
<1>2. Extends(cs, q, bs) /\ PendingIn(cs, txChannels)
  BY <1>1, SameExtends DEF TxPending
<1>3. /\ GivesFrame /\ UNCHANGED <<onL1, tip, closed>> /\ txChannels' = txChannels
      /\ chans' = cs /\ channelQueue' = q /\ blocks' = bs /\ currentChannel' \in {0} \cup ToSet(q)
  BY <1>1 DEF TxDataEOF, GivesFrame, managerVars, ManagerType
<1> QED
  BY <1>2, <1>3, ExtendsDone

(***************************************************************************)
(* The channel that blocks are added to: the current one or a new one.     *)
(***************************************************************************)
LEMMA EnsureChannel ==
  ASSUME ManagerType, TxPending, ConfirmedIn(chans, onL1), NEW c, NEW cs, NEW q,
         \/ c = currentChannel /\ c # 0 /\ cs = chans /\ q = channelQueue
         \/ c = Len(chans) + 1 /\ cs = Append(chans, newChannel) /\ q = Append(channelQueue, c)
  PROVE  /\ GoodChans(cs) /\ PendingIn(cs, txChannels) /\ ConfirmedIn(cs, onL1)
         /\ c \in DOMAIN cs /\ c \in ToSet(q) /\ q \in Seq(DOMAIN cs)
         /\ DOMAIN chans \subseteq DOMAIN cs /\ ToSet(channelQueue) \subseteq ToSet(q)
         /\ \A d \in DOMAIN chans : cs[d] = chans[d]
<1>1. /\ chans \in Seq(Channels) /\ \A d \in DOMAIN chans : Split(chans[d])
      /\ channelQueue \in Seq(DOMAIN chans)
  BY DEF ManagerType, GoodChans
<1>2. \A d \in ToSet(channelQueue) : d \in DOMAIN chans
  BY <1>1, ElementOfSeq DEF ToSet
<1>3. CASE c = currentChannel /\ c # 0 /\ cs = chans /\ q = channelQueue
  BY <1>1, <1>2, <1>3 DEF ManagerType, TxPending
<1>4. CASE c = Len(chans) + 1 /\ cs = Append(chans, newChannel) /\ q = Append(channelQueue, c)
  <2>1. /\ cs \in Seq(Channels) /\ DOMAIN cs = DOMAIN chans \cup {c} /\ c \notin DOMAIN chans
        /\ cs[c] = newChannel /\ \A d \in DOMAIN chans : cs[d] = chans[d]
    <3>1. newChannel \in Channels
      BY NewChannelFacts
    <3>2. PICK new : new = newChannel
      OBVIOUS
    <3> QED
      BY <1>1, <1>4, <3>1, <3>2, AppendProperties
  <2>2. GoodChans(cs)
    BY <1>1, <2>1, NewChannelFacts DEF GoodChans
  <2>3. PendingIn(cs, txChannels)
    BY <2>1, NewChannelFacts DEF PendingIn, TxPending
  <2>4. ConfirmedIn(cs, onL1)
    BY <2>1, NewChannelFacts DEF ConfirmedIn
  <2>5. channelQueue \in Seq(DOMAIN cs)
    <3>1. DOMAIN chans \subseteq DOMAIN cs
      BY <2>1
    <3> QED
      BY <1>1, <3>1, SeqMonotonic
  <2>6. q \in Seq(DOMAIN cs) /\ ToSet(q) = ToSet(channelQueue) \cup {c}
    BY <1>4, <2>1, <2>5, ToSetAppend
  <2> QED
    BY <2>1, <2>2, <2>3, <2>4, <2>6
<1> QED
  BY <1>3, <1>4

(***************************************************************************)
(* The first k elements of a sequence, and the others.                     *)
(***************************************************************************)
LEMMA TwoParts ==
  ASSUME NEW S, NEW s \in Seq(S), NEW k \in 0 .. Len(s)
  PROVE  /\ SubSeq(s, 1, k) \in Seq(S) /\ SubSeq(s, k + 1, Len(s)) \in Seq(S)
         /\ ToSet(s) = ToSet(SubSeq(s, 1, k)) \cup ToSet(SubSeq(s, k + 1, Len(s)))
<1> DEFINE a == SubSeq(s, 1, k)
           b == SubSeq(s, k + 1, Len(s))
<1>1. a \in Seq(S) /\ b \in Seq(S) /\ Len(s) \in Nat
  OBVIOUS
<1>2. s = a \o b
  <2>1. Len(a) = k /\ Len(b) = Len(s) - k
    OBVIOUS
  <2>2. \A i \in 1 .. k : a[i] = s[i]
    OBVIOUS
  <2>3. \A i \in 1 .. Len(s) - k : b[i] = s[k + i]
    OBVIOUS
  <2> HIDE DEF a, b
  <2>4. PICK r : r = a \o b
    OBVIOUS
  <2>5. /\ r \in Seq(S) /\ Len(r) = Len(a) + Len(b)
        /\ \A i \in 1 .. Len(a) + Len(b) : r[i] = IF i <= Len(a) THEN a[i] ELSE b[i - Len(a)]
    BY <1>1, <2>4, ConcatProperties
  <2>6. Len(r) = Len(s)
    BY <1>1, <2>1, <2>5
  <2>7. ASSUME NEW i \in 1 .. Len(s) PROVE s[i] = r[i]
    <3>1. r[i] = IF i <= k THEN a[i] ELSE b[i - k]
      BY <1>1, <2>1, <2>5
    <3>2. CASE i <= k
      BY <2>2, <3>1, <3>2
    <3>3. CASE ~(i <= k)
      <4>1. i - k \in 1 .. Len(s) - k /\ k + (i - k) = i
        BY <1>1, <3>3
      <4>2. b[i - k] = s[k + (i - k)]
        BY <2>3, <4>1
      <4> QED
        BY <3>1, <3>3, <4>1, <4>2
    <3> QED
      BY <3>2, <3>3
  <2> QED
    BY <2>4, <2>5, <2>6, <2>7, SeqEqual
<1> HIDE DEF a, b
<1>3. ToSet(a \o b) = ToSet(a) \cup ToSet(b)
  BY <1>1, ToSetConcat
<1> QED
  BY <1>1, <1>2, <1>3 DEF a, b

(***************************************************************************)
(* The channel with blocks added and the L1 head registered.               *)
(***************************************************************************)
LEMMA RegisteredFacts ==
  ASSUME NEW ch \in Channels, NEW bs \in Seq(L2Chains), NEW filled \in BOOLEAN, NEW head \in Nat
  PROVE  LET reg == RegisterL1Block([AddBlocks(ch, bs) EXCEPT !.full = filled], head) IN
         reg \in Channels /\ SameFrames(ch, reg) /\ reg.blocks = ch.blocks \o bs
<1>1. PICK a : a = AddBlocks(ch, bs)
  OBVIOUS
<1>2. a \in Channels /\ SameFrames(ch, a) /\ a.blocks = ch.blocks \o bs
  BY <1>1, AddBlocksFacts
<1>3. PICK added : added = [a EXCEPT !.full = filled]
  OBVIOUS
<1>4. added \in Channels /\ SameFrames(a, added) /\ added.blocks = a.blocks
  BY <1>2, <1>3 DEF Channels, SameFrames
<1>5. PICK reg : reg = RegisterL1Block(added, head)
  OBVIOUS
<1>6. reg \in Channels /\ SameFrames(added, reg) /\ reg.blocks = added.blocks
  BY <1>4, <1>5, RegisterFacts
<1>7. SameFrames(ch, reg) /\ reg.blocks = ch.blocks \o bs
  BY <1>2, <1>4, <1>6 DEF SameFrames
<1> QED
  BY <1>1, <1>3, <1>5, <1>6, <1>7

(***************************************************************************)
(* TxData, when blocks have to be added.                                   *)
(***************************************************************************)
BlocksAdded(cs, c) ==
  \E k \in (IF cs[c].blocks = <<>> THEN 1 ELSE 0) .. Len(blocks), filled \in BOOLEAN :
    LET added == [AddBlocks(cs[c], SubSeq(blocks, 1, k)) EXCEPT !.full = filled]
        ch == RegisterL1Block(added, l1Head)
    IN /\ k < Len(blocks) => filled
       /\ blocks' = SubSeq(blocks, k + 1, Len(blocks))
       /\ \E n \in FrameCounts(ch) :
            LET out == [cs EXCEPT ![c] = outputFrames(ch, n)] IN
            IF out[c].frames # <<>>
              THEN nextTxData(out, c)
              ELSE chans' = out /\ sending' = NoFrame /\ UNCHANGED txChannels

(***************************************************************************)
(* TxData that opens a channel when there is none, adds the waiting blocks *)
(* to it and gives its first frame, if it has one.                         *)
(***************************************************************************)
LEMMA TxDataNewDone ==
  ASSUME l1Head \in Nat, ManagerType, TxPending, ConfirmedIn(chans, onL1), UNCHANGED onL1, TxDataNew
  PROVE  TxDataDone
<1> DEFINE fresh == currentChannel = 0 \/ chans[currentChannel].full
           c0 == IF fresh THEN Len(chans) + 1 ELSE currentChannel
           cs0 == IF fresh THEN Append(chans, newChannel) ELSE chans
<1>1. /\ currentChannel' = c0 /\ UNCHANGED <<tip, closed>>
      /\ channelQueue' = IF fresh THEN Append(channelQueue, c0) ELSE channelQueue
  BY DEF TxDataNew
<1>2. BlocksAdded(cs0, c0)
  BY DEF TxDataNew, BlocksAdded
<1>3. PICK c, cs, q : /\ c = c0 /\ cs = cs0
                      /\ q = IF fresh THEN Append(channelQueue, c) ELSE channelQueue
  OBVIOUS
<1>4. currentChannel' = c /\ channelQueue' = q /\ UNCHANGED <<tip, closed>> /\ BlocksAdded(cs, c)
  <2>1. BlocksAdded(cs, c)
    <3> HIDE DEF c0, cs0
    <3> QED
      BY <1>2, <1>3
  <2> QED
    BY <1>1, <1>3, <2>1
<1>5. \/ c = currentChannel /\ c # 0 /\ cs = chans /\ q = channelQueue
      \/ c = Len(chans) + 1 /\ cs = Append(chans, newChannel) /\ q = Append(channelQueue, c)
  BY <1>3
<1> HIDE DEF fresh, c0, cs0
<1>6. /\ GoodChans(cs) /\ PendingIn(cs, txChannels) /\ ConfirmedIn(cs, onL1)
      /\ c \in DOMAIN cs /\ c \in ToSet(q) /\ q \in Seq(DOMAIN cs)
      /\ DOMAIN chans \subseteq DOMAIN cs /\ ToSet(channelQueue) \subseteq ToSet(q)
      /\ \A d \in DOMAIN chans : cs[d] = chans[d]
  BY <1>5, EnsureChannel
<1>7. cs[c] \in Channels /\ Split(cs[c]) /\ cs[c].blocks \in Seq(L2Chains)
  <2>1. cs[c] \in Channels /\ Split(cs[c])
    BY <1>6, ElementOfSeq DEF GoodChans
  <2> QED
    BY <2>1, ChannelFields
<1>8. PICK k \in 0 .. Len(blocks), filled \in BOOLEAN :
        LET added == [AddBlocks(cs[c], SubSeq(blocks, 1, k)) EXCEPT !.full = filled]
            ch == RegisterL1Block(added, l1Head)
        IN /\ blocks' = SubSeq(blocks, k + 1, Len(blocks))
           /\ \E n \in FrameCounts(ch) :
                LET out == [cs EXCEPT ![c] = outputFrames(ch, n)] IN
                IF out[c].frames # <<>>
                  THEN nextTxData(out, c)
                  ELSE chans' = out /\ sending' = NoFrame /\ UNCHANGED txChannels
  <2>1. Len(blocks) \in Nat
    BY DEF ManagerType
  <2>2. \A k \in (IF cs[c].blocks = <<>> THEN 1 ELSE 0) .. Len(blocks) : k \in 0 .. Len(blocks)
    BY <2>1
  <2> QED
    BY <1>4, <2>2 DEF BlocksAdded
<1>9. PICK fst, rest : fst = SubSeq(blocks, 1, k) /\ rest = SubSeq(blocks, k + 1, Len(blocks))
  OBVIOUS
<1>10. /\ fst \in Seq(L2Chains) /\ rest \in Seq(L2Chains)
       /\ ToSet(blocks) = ToSet(fst) \cup ToSet(rest)
  <2>1. blocks \in Seq(L2Chains)
    BY DEF ManagerType
  <2> QED
    BY <1>9, <2>1, TwoParts
<1>11. PICK reg : reg = RegisterL1Block([AddBlocks(cs[c], fst) EXCEPT !.full = filled], l1Head)
  OBVIOUS
<1>12. PICK n \in FrameCounts(reg) :
         LET out == [cs EXCEPT ![c] = outputFrames(reg, n)] IN
         IF out[c].frames # <<>>
           THEN nextTxData(out, c)
           ELSE chans' = out /\ sending' = NoFrame /\ UNCHANGED txChannels
  BY <1>8, <1>9, <1>11
<1>13. PICK o : o = outputFrames(reg, n)
  OBVIOUS
<1>14. /\ o \in Channels /\ Split(o) /\ o.pending = cs[c].pending
       /\ o.confirmed = cs[c].confirmed /\ o.blocks = cs[c].blocks \o fst
       /\ reg \in Channels /\ cs[c].numFrames = reg.numFrames
       /\ o.numFrames = reg.numFrames + n /\ o.full = reg.full
  <2>1. PICK ch, head : ch = cs[c] /\ head = l1Head
    OBVIOUS
  <2>2. ch \in Channels /\ Split(ch) /\ head \in Nat /\ filled \in BOOLEAN
    BY <1>7, <1>8, <2>1
  <2>3. reg = RegisterL1Block([AddBlocks(ch, fst) EXCEPT !.full = filled], head)
    BY <1>11, <2>1
  <2>4. reg \in Channels /\ SameFrames(ch, reg) /\ reg.blocks = ch.blocks \o fst
    BY <1>10, <2>2, <2>3, RegisteredFacts
  <2>5. Split(reg)
    BY <2>2, <2>4, SplitSame
  <2>6. n \in 0 .. MaxFrames - reg.numFrames
    <3>1. reg.numFrames \in Nat /\ MaxFrames \in Nat /\ n \in FrameCounts(reg)
      BY <1>12, <2>4, ChannelFields
    <3> QED
      BY <3>1 DEF FrameCounts
  <2>7. /\ o \in Channels /\ Split(o) /\ o.pending = reg.pending /\ o.confirmed = reg.confirmed
        /\ o.blocks = reg.blocks /\ o.numFrames = reg.numFrames + n /\ o.full = reg.full
    BY <1>13, <2>4, <2>5, <2>6, OutputFacts
  <2> QED
    BY <2>1, <2>4, <2>7 DEF SameFrames
<1>15. PICK out : out = [cs EXCEPT ![c] = o]
  OBVIOUS
<1>16. /\ GoodChans(out) /\ DOMAIN out = DOMAIN cs /\ out[c] = o
       /\ \A d \in DOMAIN cs : d # c => out[d] = cs[d]
  BY <1>6, <1>14, <1>15, GoodReplaced
<1>17. PendingIn(out, txChannels) /\ ConfirmedIn(out, onL1)
  <2>1. \A d \in DOMAIN cs : out[d].pending = cs[d].pending /\ out[d].confirmed = cs[d].confirmed
    BY <1>14, <1>16
  <2> QED
    BY <1>6, <1>16, <2>1 DEF PendingIn, ConfirmedIn
<1>18. ToSet(out[c].blocks) = ToSet(cs[c].blocks) \cup ToSet(fst)
  <2>1. PICK cb : cb = cs[c].blocks
    OBVIOUS
  <2>2. cb \in Seq(L2Chains) /\ out[c].blocks = cb \o fst
    BY <1>7, <1>14, <1>16, <2>1
  <2> QED
    BY <1>10, <2>1, <2>2, ToSetConcat
<1>19. ChansGrow(chans, out)
  <2>1. Grown(cs[c], o)
    <3>1. cs[c].numFrames = reg.numFrames /\ o.numFrames = reg.numFrames + n /\ o.full = reg.full
      BY <1>13, <1>14
    <3>2. reg.numFrames \in Nat /\ reg.full \in BOOLEAN /\ MaxFrames \in Nat
      BY <1>14, ChannelFields
    <3>3. n \in Nat /\ (reg.full => n # 0)
      BY <1>12, <3>2 DEF FrameCounts
    <3> QED
      BY <3>1, <3>2, <3>3 DEF Grown
  <2>2. \A d \in DOMAIN chans : cs[d].numFrames \in Nat
    <3>1. \A d \in DOMAIN chans : cs[d] \in Channels
      BY <1>6, ElementOfSeq DEF GoodChans
    <3> QED
      BY <3>1, ChannelFields
  <2>3. \A d \in DOMAIN chans : Grown(chans[d], out[d])
    BY <1>6, <1>16, <2>1, <2>2 DEF Grown
  <2> QED
    BY <1>6, <1>16, <2>3 DEF ChansGrow
<1>20. Extends(out, q, rest)
  <2>1. \A d \in DOMAIN chans : /\ ToSet(chans[d].blocks) \subseteq ToSet(out[d].blocks)
                                /\ d \in ToSet(q) \/ SameContent(chans[d], out[d])
    BY <1>6, <1>16, <1>18 DEF SameContent
  <2>2. \A b \in ToSet(blocks) : b \in ToSet(rest) \/ \E d \in ToSet(q) : b \in ToSet(out[d].blocks)
    BY <1>6, <1>10, <1>18
  <2> QED
    BY <1>6, <1>10, <1>16, <1>17, <1>19, <2>1, <2>2 DEF Extends
<1>21. /\ channelQueue' = q /\ blocks' = rest /\ currentChannel' \in {0} \cup ToSet(q)
       /\ UNCHANGED <<onL1, tip, closed>>
  BY <1>4, <1>6, <1>8, <1>9
<1>22. IF out[c].frames # <<>>
         THEN nextTxData(out, c)
         ELSE chans' = out /\ sending' = NoFrame /\ UNCHANGED txChannels
  BY <1>12, <1>13, <1>15
<1>23. CASE out[c].frames # <<>>
  <2>1. nextTxData(out, c) /\ c \in DOMAIN out
    BY <1>6, <1>16, <1>22, <1>23
  <2> QED
    BY <1>17, <1>20, <1>21, <1>23, <2>1, NextTxDataDone
<1>24. CASE out[c].frames = <<>>
  <2>1. chans' = out /\ GivesFrame /\ PendingIn(out, txChannels')
    BY <1>17, <1>22, <1>24 DEF GivesFrame
  <2> QED
    BY <1>20, <1>21, <2>1, ExtendsDone
<1> QED
  BY <1>23, <1>24

(***************************************************************************)
(* Close.                                                                  *)
(***************************************************************************)
LEMMA CloseFacts ==
  ASSUME ManagerType, TxPending, ConfirmedIn(chans, onL1), UNCHANGED onL1, Close
  PROVE  /\ ManagerType' /\ TxPending' /\ ConfirmedIn(chans, onL1)'
         /\ closed' = TRUE /\ tip' = tip /\ txChannels' = txChannels /\ DOMAIN chans' = DOMAIN chans
         /\ ChansGrow(chans, chans')
<1>1. PICK q : q = Unsubmitted
  OBVIOUS
<1>2. q \in Seq(DOMAIN chans)
  BY <1>1, UnsubmittedFacts DEF ManagerType, GoodChans
<1>3. PICK cur : cur = IF currentChannel \in ToSet(q) THEN currentChannel ELSE 0
  OBVIOUS
<1>4. /\ closed' = TRUE /\ channelQueue' = q /\ currentChannel' = cur
      /\ UNCHANGED <<blocks, tip, txChannels>>
      /\ IF cur = 0 \/ chans[cur].full
           THEN UNCHANGED chans
           ELSE \E n \in 1 .. MaxFrames - chans[cur].numFrames :
                  chans' = [chans EXCEPT ![cur] = outputFrames([@ EXCEPT !.full = TRUE], n)]
  BY <1>1, <1>3 DEF Close
<1>5. cur \in {0} \cup ToSet(q) /\ (cur # 0 => cur \in DOMAIN chans)
  <2>1. \A d \in ToSet(q) : d \in DOMAIN chans
    BY <1>2, ElementOfSeq DEF ToSet
  <2> QED
    BY <1>3, <2>1
<1>6. PICK ds : ds = chans'
  OBVIOUS
<1>7. /\ GoodChans(ds) /\ DOMAIN ds = DOMAIN chans /\ PendingIn(ds, txChannels)
      /\ ConfirmedIn(ds, onL1) /\ ChansGrow(chans, ds)
  <2>1. GoodChans(chans)
    BY DEF ManagerType
  <2>2. CASE UNCHANGED chans
    BY <1>6, <2>1, <2>2, GrowSame DEF TxPending, GoodChans, SameContent
  <2>3. CASE cur # 0 /\ \E n \in 1 .. MaxFrames - chans[cur].numFrames :
               chans' = [chans EXCEPT ![cur] = outputFrames([@ EXCEPT !.full = TRUE], n)]
    <3>1. cur \in DOMAIN chans /\ chans[cur] \in Channels /\ Split(chans[cur])
      BY <1>5, <2>1, <2>3, ElementOfSeq DEF GoodChans
    <3>2. PICK n \in 1 .. MaxFrames - chans[cur].numFrames :
            chans' = [chans EXCEPT ![cur] = outputFrames([@ EXCEPT !.full = TRUE], n)]
      BY <2>3
    <3>3. PICK ch : ch = [chans[cur] EXCEPT !.full = TRUE]
      OBVIOUS
    <3>4. ch \in Channels /\ SameFrames(chans[cur], ch)
      BY <3>1, <3>3 DEF Channels, SameFrames
    <3>5. Split(ch) /\ n \in 0 .. MaxFrames - ch.numFrames
      <4>1. ch.numFrames = chans[cur].numFrames /\ ch.numFrames \in Nat /\ MaxFrames \in Nat
        BY <3>4, ChannelFields DEF SameFrames
      <4>2. Split(ch)
        BY <3>1, <3>4, SplitSame
      <4> QED
        BY <4>1, <4>2
    <3>6. PICK o : o = outputFrames(ch, n)
      OBVIOUS
    <3>7. /\ o \in Channels /\ Split(o) /\ o.pending = ch.pending /\ o.confirmed = ch.confirmed
          /\ o.numFrames = ch.numFrames + n
      BY <3>4, <3>5, <3>6, OutputFacts
    <3>8. ds = [chans EXCEPT ![cur] = o]
      BY <1>6, <3>2, <3>3, <3>6
    <3>9. /\ GoodChans(ds) /\ DOMAIN ds = DOMAIN chans /\ ds[cur] = o
          /\ \A d \in DOMAIN chans : d # cur => ds[d] = chans[d]
      BY <2>1, <3>1, <3>7, <3>8, GoodReplaced
    <3>10. \A d \in DOMAIN chans :
             ds[d].pending = chans[d].pending /\ ds[d].confirmed = chans[d].confirmed
      BY <3>4, <3>7, <3>9 DEF SameFrames
    <3>11. ChansGrow(chans, ds)
      <4>1. \A d \in DOMAIN chans : chans[d].numFrames \in Nat
        <5>1. \A d \in DOMAIN chans : chans[d] \in Channels
          BY <2>1, ElementOfSeq DEF GoodChans
        <5> QED
          BY <5>1, ChannelFields
      <4>2. n \in Nat \ {0} /\ o.numFrames = chans[cur].numFrames + n
        BY <3>1, <3>4, <3>7, ChannelFields DEF SameFrames
      <4> QED
        BY <3>1, <3>9, <4>1, <4>2 DEF ChansGrow, Grown
    <3> QED
      BY <3>9, <3>10, <3>11 DEF PendingIn, ConfirmedIn, TxPending
  <2> QED
    BY <1>4, <2>2, <2>3
<1>8. ManagerType'
  <2>1. GoodChans(chans)'
    BY <1>6, <1>7 DEF GoodChans
  <2>2. blocks' \in Seq(L2Chains) /\ tip' \in L2Chains
    BY <1>4 DEF ManagerType
  <2> QED
    BY <1>2, <1>4, <1>5, <1>6, <1>7, <2>1, <2>2 DEF ManagerType
<1>9. TxPending' /\ ConfirmedIn(chans, onL1)'
  BY <1>4, <1>6, <1>7 DEF TxPending, PendingIn, ConfirmedIn
<1> QED
  BY <1>4, <1>6, <1>7, <1>8, <1>9

(***************************************************************************)
(* What is accounted for stays so.                                         *)
(***************************************************************************)
Covered(b) ==
  \/ b \in ToSet(blocks)
  \/ \E c \in ToSet(channelQueue) : Holds(c, b)
  \/ \E c \in DOMAIN chans : Holds(c, b) /\ Reached(c)

(***************************************************************************)
(* Accounted, in terms of the covered blocks.                              *)
(***************************************************************************)
LEMMA AccountedIs ==
  Accounted <=> (~closed => \A last \in lastStored : IsPrefix(safe, last) =>
                              \A n \in Len(safe) + 1 .. Len(last) : Covered(SubSeq(last, 1, n)))
<1> DEFINE R == {c \in DOMAIN chans : c \in derived \cup lost \/ InBank(c) \/ OpenedEarly(c)}
<1>1. ASSUME NEW b
      PROVE  Covered(b) <=>
               \/ b \in ToSet(blocks)
               \/ \E i \in DOMAIN channelQueue : Holds(channelQueue[i], b)
               \/ \E c \in R : Holds(c, b)
  <2>1. (\E c \in ToSet(channelQueue) : Holds(c, b))
          <=> \E i \in DOMAIN channelQueue : Holds(channelQueue[i], b)
    BY DEF ToSet
  <2>2. (\E c \in DOMAIN chans : Holds(c, b) /\ Reached(c)) <=> \E c \in R : Holds(c, b)
    BY DEF Reached
  <2> QED
    BY <2>1, <2>2 DEF Covered
<1>2. Accounted <=> BlocksKept(R)
  BY DEF Accounted
<1> HIDE DEF R
<1> QED
  BY <1>1, <1>2 DEF BlocksKept

(***************************************************************************)
(* The same of the next state.                                             *)
(***************************************************************************)
LEMMA AccountedPrimeIs ==
  Accounted' <=> (~closed' => \A last \in lastStored' : IsPrefix(safe', last) =>
                               \A n \in Len(safe') + 1 .. Len(last) : Covered(SubSeq(last, 1, n))')
<1> DEFINE R == {c \in DOMAIN chans' : \/ c \in derived' \cup lost'
                                       \/ InBank(c)' \/ OpenedEarly(c)'}
<1>1. ASSUME NEW b
      PROVE  Covered(b)' <=>
               \/ b \in ToSet(blocks')
               \/ \E i \in DOMAIN channelQueue' : Holds(channelQueue[i], b)'
               \/ \E c \in R : Holds(c, b)'
  <2>1. (\E c \in ToSet(channelQueue') : Holds(c, b)')
          <=> \E i \in DOMAIN channelQueue' : Holds(channelQueue[i], b)'
    BY DEF ToSet, Holds
  <2>2. (\E c \in DOMAIN chans' : Holds(c, b)' /\ Reached(c)') <=> \E c \in R : Holds(c, b)'
    BY DEF Reached
  <2> QED
    BY <2>1, <2>2 DEF Covered
<1>2. Accounted' <=> (~closed' =>
        \A last \in lastStored' : IsPrefix(safe', last) =>
          \A n \in Len(safe') + 1 .. Len(last) :
            \/ SubSeq(last, 1, n) \in ToSet(blocks')
            \/ \E i \in DOMAIN channelQueue' : Holds(channelQueue[i], SubSeq(last, 1, n))'
            \/ \E c \in R : Holds(c, SubSeq(last, 1, n))')
  BY DEF Accounted, BlocksKept
<1> HIDE DEF R
<1> QED
  BY <1>1, <1>2

(***************************************************************************)
(* A block stays covered when the manager keeps what it holds.             *)
(***************************************************************************)
LEMMA CoverKeptCovered ==
  ASSUME ManagerType, CoverKept, UNCHANGED <<onL1, bankVars>>, NEW b, Covered(b)
  PROVE  Covered(b)'
<1>1. \A c \in ToSet(channelQueue) : c \in DOMAIN chans
  BY ElementOfSeq DEF ManagerType, ToSet
<1>2. \A c \in ToSet(channelQueue') : c \in DOMAIN chans'
  BY ElementOfSeq DEF CoverKept, ToSet
<1>3. CASE b \in ToSet(blocks)
  BY <1>3 DEF CoverKept, Covered
<1>4. ASSUME NEW c \in ToSet(channelQueue), Holds(c, b) PROVE Covered(b)'
  <2>1. c \in DOMAIN chans /\ c \in DOMAIN chans' /\ Holds(c, b)' /\ b \in ToSet(chans[c].blocks)
    BY <1>1, <1>4 DEF CoverKept, Holds
  <2>2. \/ c \in ToSet(channelQueue')
        \/ ToSet(chans[c].blocks) \subseteq ToSet(blocks')
        \/ Reached(c)'
    BY DEF CoverKept
  <2> QED
    BY <2>1, <2>2 DEF Covered
<1>5. ASSUME NEW c \in DOMAIN chans, Holds(c, b), Reached(c) PROVE Covered(b)'
  <2>1. c \in DOMAIN chans' /\ Holds(c, b)'
    BY <1>5 DEF CoverKept, Holds
  <2>2. CASE c \in ToSet(channelQueue')
    BY <2>1, <2>2 DEF Covered
  <2>3. CASE SameContent(chans[c], chans'[c])
    <3>1. Reached(c)'
      BY <1>5, <2>3, ReachedKept
    <3> QED
      BY <2>1, <3>1 DEF Covered
  <2> QED
    BY <2>2, <2>3 DEF CoverKept
<1> QED
  BY <1>3, <1>4, <1>5 DEF Covered

(***************************************************************************)
(* Accounted holds after a step in which the manager keeps what it holds.  *)
(***************************************************************************)
LEMMA CoverKeepsAccounted ==
  ASSUME ManagerType, CoverKept, UNCHANGED <<onL1, bankVars, safe, lastStored, closed>>, Accounted
  PROVE  Accounted'
<1>1. \A b : Covered(b) => Covered(b)'
  BY CoverKeptCovered
<1>2. ~closed => \A last \in lastStored : IsPrefix(safe, last) =>
        \A n \in Len(safe) + 1 .. Len(last) : Covered(SubSeq(last, 1, n))
  BY AccountedIs
<1>3. ~closed => \A last \in lastStored : IsPrefix(safe, last) =>
        \A n \in Len(safe) + 1 .. Len(last) : Covered(SubSeq(last, 1, n))'
  <2> SUFFICES ASSUME ~closed, NEW last \in lastStored, IsPrefix(safe, last),
                      NEW n \in Len(safe) + 1 .. Len(last)
               PROVE  Covered(SubSeq(last, 1, n))'
    OBVIOUS
  <2>1. PICK b : b = SubSeq(last, 1, n)
    OBVIOUS
  <2>2. Covered(b)
    BY <1>2, <2>1
  <2>3. Covered(b)'
    BY <1>1, <2>2
  <2> QED
    BY <2>1, <2>3
<1> QED
  BY <1>3, AccountedPrimeIs

(***************************************************************************)
(* A channel that opened early stays one when L1 includes more.            *)
(***************************************************************************)
LEMMA EarlyKept ==
  ASSUME onL1 \subseteq onL1', IsFiniteSet(onL1'), \A e \in onL1' : e[2] \in Nat,
         NEW c, OpenedEarly(c)
  PROVE  OpenedEarly(c)'
<1>1. PICK n \in 0 .. MaxFrames - 1 : Cardinality(Inclusions(c, n)) > 1
  BY DEF OpenedEarly, SentTwice
<1>2. PICK S, T : S = InclusionsIn(onL1, c, n) /\ T = InclusionsIn(onL1', c, n)
  OBVIOUS
<1>3. S \subseteq T
  BY <1>2 DEF InclusionsIn
<1>4. IsFiniteSet(S) /\ IsFiniteSet(T)
  <2>1. PICK on : on = onL1'
    OBVIOUS
  <2>2. IsFiniteSet(on) /\ \A e \in on : e[2] \in Nat
    BY <2>1
  <2>3. IsFiniteSet(T)
    BY <1>2, <2>1, <2>2, InclusionsFinite
  <2> QED
    BY <1>3, <2>3, FS_Subset
<1>5. Cardinality(S) > 1
  BY <1>1, <1>2 DEF Inclusions, InclusionsIn
<1>6. Cardinality(T) > 1
  BY <1>3, <1>4, <1>5, TwoMembers
<1>7. SentTwice(c)'
  BY <1>2, <1>6 DEF SentTwice, Inclusions, InclusionsIn
<1>8. \E e, f \in {g \in onL1' : g[1][1] = c} : e[2] + ChannelTimeout < f[2]
  BY DEF OpenedEarly
<1> QED
  BY <1>7, <1>8 DEF OpenedEarly

-----------------------------------------------------------------------------
(***************************************************************************)
(* The steps.  What holds when the variables of a part do not change.      *)
(***************************************************************************)
LEMMA EnvKept ==
  ASSUME EnvType, ManagerType, BankInv, UNCHANGED envVars,
         ChansGrow(chans, chans'), chans' \in Seq(Channels)
  PROVE  EnvType' /\ BankInv'
<1>1. FrameIDs \subseteq FrameIDs'
  BY DEF FrameIDs, ChansGrow
<1>2. UNCHANGED <<l1Head, l2, safe, onL1, stale, bankVars>>
  BY DEF envVars
<1>3. BankInv'
  BY <1>2, BankKept
<1> QED
  BY <1>1, <1>2, <1>3 DEF EnvType

(***************************************************************************)
(* The same when the channels do not change.                               *)
(***************************************************************************)
LEMMA EnvStill ==
  ASSUME EnvType, ManagerType, BankInv, UNCHANGED envVars, UNCHANGED chans
  PROVE  EnvType' /\ BankInv'
<1>1. chans \in Seq(Channels)
  BY DEF ManagerType, GoodChans
<1>2. ChansGrow(chans, chans') /\ chans' \in Seq(Channels)
  BY <1>1, GrowSame DEF SameContent
<1> QED
  BY <1>2, EnvKept

(***************************************************************************)
(* The manager's part of the invariant holds while its state does.         *)
(***************************************************************************)
LEMMA ManagerKept ==
  ASSUME ManagerType, TxPending, ConfirmedIn(chans, onL1), UNCHANGED managerVars, UNCHANGED onL1
  PROVE  ManagerType' /\ TxPending' /\ ConfirmedIn(chans, onL1)'
<1>1. UNCHANGED <<chans, blocks, tip, currentChannel, channelQueue, txChannels, closed>>
  BY DEF managerVars
<1> QED
  BY <1>1 DEF ManagerType, TxPending, PendingIn, ConfirmedIn, GoodChans

(***************************************************************************)
(* Accounted holds while the state that it reads does.                     *)
(***************************************************************************)
LEMMA AccountedKept ==
  ASSUME ManagerType, Accounted, UNCHANGED managerVars, UNCHANGED <<onL1, bankVars, safe, lastStored>>
  PROVE  Accounted'
<1>1. UNCHANGED <<chans, blocks, tip, currentChannel, channelQueue, txChannels, closed>>
  BY DEF managerVars
<1>2. CoverKept
  BY <1>1 DEF CoverKept, SameContent, ManagerType
<1> QED
  BY <1>1, <1>2, CoverKeepsAccounted

(***************************************************************************)
(* The start of the range to load: the safe head, or the last block        *)
(* stored.                                                                 *)
(***************************************************************************)
LEMMA RangeStartFacts ==
  ASSUME EnvType, LoopType
  PROVE  /\ RangeStart \in L2Chains /\ Len(safe) <= Len(RangeStart)
         /\ RangeStart = safe \/ RangeStart \in lastStored
<1>1. safe \in L2Chains /\ Len(safe) \in Nat
  BY DEF EnvType, L2Chains
<1>2. CASE lastStored = {} \/ \E b \in lastStored : Len(b) < Len(safe)
  BY <1>1, <1>2 DEF RangeStart
<1>3. CASE ~(lastStored = {} \/ \E b \in lastStored : Len(b) < Len(safe))
  <2>1. RangeStart = CHOOSE b \in lastStored : TRUE
    BY <1>3 DEF RangeStart
  <2>2. RangeStart \in lastStored
    BY <1>3, <2>1
  <2>3. RangeStart \in L2Chains /\ ~(Len(RangeStart) < Len(safe)) /\ Len(RangeStart) \in Nat
    BY <1>3, <2>2 DEF LoopType, L2Chains
  <2> QED
    BY <1>1, <2>2, <2>3
<1> QED
  BY <1>2, <1>3

(***************************************************************************)
(* Steps of the loop that leave the manager alone.                         *)
(***************************************************************************)
LEMMA CalculateStep ==
  ASSUME BatcherInv, calculateL2BlockRangeToStore
  PROVE  BatcherInv'
<1> USE DEF BatcherInv
<1>1. PICK start : start = RangeStart
  OBVIOUS
<1>2. /\ main = "select" /\ lastStored' = {start}
      /\ \/ main' = "publish" /\ drain' = "no" /\ pub' = "next"
         \/ main' = "load" /\ UNCHANGED <<drain, pub>>
      /\ UNCHANGED <<envVars, managerVars, sending, queueVars>>
  BY <1>1 DEF calculateL2BlockRangeToStore, StartPublishing
<1>3. /\ start \in L2Chains /\ Len(safe) <= Len(start)
      /\ start = safe \/ start \in lastStored
  BY <1>1, RangeStartFacts
<1>4. UNCHANGED <<inflight, groupErr, sending, onL1, bankVars, safe, tip, closed, chans, txChannels>>
  BY <1>2 DEF queueVars, envVars, managerVars
<1>5. EnvType' /\ BankInv' /\ ManagerType' /\ TxPending' /\ ConfirmedIn(chans, onL1)'
  BY <1>2, <1>4, EnvStill, ManagerKept DEF Included
<1>6. LoopType'
  BY <1>2, <1>3, <1>4 DEF LoopType
<1>7. Control'
  BY <1>2, <1>4 DEF Control
<1>8. Held' /\ Included'
  BY <1>4, <1>5 DEF Held, Included
<1>9. TipStored'
  <2>1. IsPrefix(safe, safe)
    BY ChainPrefix DEF EnvType
  <2> QED
    BY <1>2, <1>3, <1>4, <2>1 DEF TipStored
<1>10. Accounted'
  <2>1. CASE start \in lastStored
    <3>1. lastStored' = lastStored
      BY <1>2, <2>1 DEF LoopType
    <3> QED
      BY <1>2, <1>4, <3>1, AccountedKept
  <2>2. CASE start = safe
    <3>1. Len(safe') + 1 .. Len(safe) = {}
      BY <1>4 DEF EnvType, L2Chains
    <3> QED
      BY <1>2, <2>2, <3>1 DEF Accounted, BlocksKept
  <2> QED
    BY <1>3, <2>1, <2>2
<1> QED
  BY <1>5, <1>6, <1>7, <1>8, <1>9, <1>10

(***************************************************************************)
(* A failed call ends the loading or the publishing, and changes neither   *)
(* the manager nor what is sent.                                           *)
(***************************************************************************)
LEMMA QuietStep ==
  ASSUME BatcherInv, SyncStatusFails \/ LoadFails \/ L1TipFails
  PROVE  BatcherInv'
<1> USE DEF BatcherInv
<1>1. /\ UNCHANGED <<envVars, managerVars, lastStored, sending, queueVars>>
      /\ \/ /\ main \in {"select", "load"}
            /\ main' = "publish" /\ drain' = "no" /\ pub' = "next"
         \/ /\ pub = "next" /\ UNCHANGED drain
            /\ \/ drain = "no" /\ pub' = "none" /\ main' = "select"
               \/ drain # "no" /\ pub' = "wait" /\ UNCHANGED main
  BY DEF SyncStatusFails, LoadFails, L1TipFails, StartPublishing, PublisherEnds
<1>2. /\ UNCHANGED <<inflight, groupErr, sending, onL1, bankVars, safe, tip, closed, chans>>
      /\ UNCHANGED <<txChannels, lastStored>>
  BY <1>1 DEF queueVars, envVars, managerVars
<1>3. EnvType' /\ BankInv' /\ ManagerType' /\ TxPending' /\ ConfirmedIn(chans, onL1)'
  BY <1>1, <1>2, EnvStill, ManagerKept DEF Included
<1>4. LoopType'
  BY <1>1, <1>2 DEF LoopType
<1>5. Control'
  BY <1>1, <1>2 DEF Control
<1>6. Held' /\ Included' /\ TipStored'
  BY <1>2, <1>3 DEF Held, Included, TipStored
<1>7. Accounted'
  BY <1>1, <1>2, AccountedKept
<1> QED
  BY <1>3, <1>4, <1>5, <1>6, <1>7

(***************************************************************************)
(* The publisher hands its frame to the queue.                             *)
(***************************************************************************)
LEMMA SendStep ==
  ASSUME BatcherInv, QueueSend
  PROVE  BatcherInv'
<1> USE DEF BatcherInv
<1>1. /\ pub = "send" /\ pub' = "next" /\ sending' = NoFrame /\ groupErr' \in BOOLEAN
      /\ inflight' = [t \in DOMAIN inflight \cup {sending} |->
                        IF t = sending THEN 0 ELSE inflight[t]]
      /\ UNCHANGED <<envVars, managerVars, lastStored, main, drain, loadEnd>>
  BY DEF QueueSend, loopVars
<1>2. UNCHANGED <<onL1, bankVars, safe, tip, closed, chans, txChannels>>
  BY <1>1 DEF envVars, managerVars
<1>3. EnvType' /\ BankInv' /\ ManagerType' /\ TxPending' /\ ConfirmedIn(chans, onL1)'
  BY <1>1, <1>2, EnvStill, ManagerKept DEF Included
<1>4. LoopType'
  BY <1>1 DEF LoopType
<1>5. Control'
  BY <1>1 DEF Control
<1>6. sending # NoFrame /\ NoFrame \notin txChannels
  <2>1. sending # NoFrame
    BY <1>1 DEF Control
  <2>2. \A c \in DOMAIN chans : c # 0
    BY DEF ManagerType, GoodChans
  <2> QED
    BY <2>1, <2>2 DEF TxPending, PendingIn, NoFrame
<1>7. Held'
  <2>1. DOMAIN inflight' = DOMAIN inflight \cup {sending}
    BY <1>1
  <2>2. \A t \in DOMAIN inflight' : inflight'[t] \in Nat
    BY <1>1, <2>1 DEF Held
  <2> QED
    BY <1>1, <1>2, <1>6, <2>1, <2>2 DEF Held
<1>8. Included'
  <2>1. \A t \in DOMAIN inflight' : inflight'[t] # 0 => t \in DOMAIN inflight /\ inflight'[t] = inflight[t]
    BY <1>1
  <2> QED
    BY <1>2, <1>3, <2>1 DEF Included
<1>9. TipStored' /\ Accounted'
  BY <1>1, <1>2, AccountedKept DEF TipStored
<1> QED
  BY <1>3, <1>4, <1>5, <1>7, <1>8, <1>9

(***************************************************************************)
(* A publisher that drained returns, and the loop clears the state after a *)
(* reorg; a stopped loop starts again.                                     *)
(***************************************************************************)
LEMMA ClearFacts ==
  ASSUME EnvType, ManagerType, TxPending, ConfirmedIn(chans, onL1), UNCHANGED onL1,
         txChannels = {}, Clear
  PROVE  /\ ManagerType' /\ TxPending' /\ ConfirmedIn(chans, onL1)'
         /\ txChannels' = {} /\ chans' = chans
<1>1. /\ blocks' = <<>> /\ tip' = <<>> /\ closed' = FALSE /\ currentChannel' = 0
      /\ channelQueue' = <<>> /\ txChannels' = {} /\ chans' = chans
  BY DEF Clear
<1>2. <<>> \in Seq(L2Chains) /\ <<>> \in Seq(DOMAIN chans)
  OBVIOUS
<1>3. <<>> \in L2Chains
  BY BatcherAssumption DEF L2Chains
<1>4. ManagerType'
  BY <1>1, <1>2, <1>3 DEF ManagerType, GoodChans
<1>5. TxPending' /\ ConfirmedIn(chans, onL1)'
  BY <1>1 DEF TxPending, PendingIn, ConfirmedIn
<1> QED
  BY <1>1, <1>4, <1>5

(***************************************************************************)
(* The publisher ends: every send has returned.                            *)
(***************************************************************************)
LEMMA WaitStep ==
  ASSUME BatcherInv, QueueWait
  PROVE  BatcherInv'
<1> USE DEF BatcherInv
<1>1. /\ DOMAIN inflight = {} /\ pub = "wait" /\ pub' = "none" /\ drain' = "no"
      /\ main' \in {"stopped", "select"}
      /\ \/ drain = "reorg" /\ Clear
         \/ UNCHANGED managerVars
      /\ UNCHANGED <<envVars, lastStored, sending, queueVars>>
  BY DEF QueueWait, DrainReturns
<1>2. UNCHANGED <<inflight, groupErr, sending, onL1, bankVars, safe, lastStored>>
  BY <1>1 DEF queueVars, envVars
<1>3. sending = NoFrame /\ txChannels = {}
  BY <1>1 DEF Control, Held
<1>4. /\ ManagerType' /\ TxPending' /\ ConfirmedIn(chans, onL1)'
      /\ txChannels' = txChannels /\ chans' = chans
  <2>1. CASE UNCHANGED managerVars
    BY <1>2, <2>1, ManagerKept DEF Included, managerVars
  <2>2. CASE Clear
    BY <1>2, <1>3, <2>2, ClearFacts DEF Included
  <2> QED
    BY <1>1, <2>1, <2>2
<1>5. EnvType' /\ BankInv'
  BY <1>1, <1>4, EnvStill
<1>6. LoopType' /\ Control'
  BY <1>1, <1>2, <1>3 DEF LoopType, Control
<1>7. Held' /\ Included'
  BY <1>2, <1>4 DEF Held, Included
<1>8. TipStored' /\ Accounted'
  <2>1. CASE UNCHANGED managerVars
    BY <1>2, <2>1, AccountedKept DEF TipStored, managerVars
  <2>2. CASE drain = "reorg"
    <3>1. lastStored' = {}
      BY <1>2, <2>2 DEF Control
    <3> QED
      BY <3>1 DEF TipStored, Accounted, BlocksKept
  <2> QED
    BY <1>1, <2>1, <2>2
<1> QED
  BY <1>4, <1>5, <1>6, <1>7, <1>8

(***************************************************************************)
(* A new start of the batcher: the queue is empty, the manager cleared.    *)
(***************************************************************************)
LEMMA StartStep ==
  ASSUME BatcherInv, Start
  PROVE  BatcherInv'
<1> USE DEF BatcherInv
<1>1. /\ main = "stopped" /\ main' = "select" /\ Clear /\ lastStored' = {}
      /\ inflight' = [t \in {} |-> 0] /\ groupErr' = FALSE
      /\ UNCHANGED <<envVars, drain, loadEnd, pub, sending>>
  BY DEF Start, pubVars
<1>2. UNCHANGED <<onL1, bankVars, safe>> /\ DOMAIN inflight' = {}
  BY <1>1 DEF envVars
<1>3. pub = "none" /\ sending = NoFrame /\ drain = "no" /\ txChannels = {}
  BY <1>1 DEF Control, Held
<1>4. /\ ManagerType' /\ TxPending' /\ ConfirmedIn(chans, onL1)'
      /\ txChannels' = {} /\ chans' = chans
  BY <1>1, <1>2, <1>3, ClearFacts DEF Included
<1>5. EnvType' /\ BankInv'
  BY <1>1, <1>4, EnvStill
<1>6. LoopType' /\ Control'
  BY <1>1, <1>2, <1>3 DEF LoopType, Control
<1>7. Held' /\ Included'
  BY <1>1, <1>2, <1>3, <1>4 DEF Held, Included
<1>8. TipStored' /\ Accounted'
  BY <1>1 DEF TipStored, Accounted, BlocksKept
<1> QED
  BY <1>4, <1>5, <1>6, <1>7, <1>8

(***************************************************************************)
(* The batcher that drains for a shutdown is killed.                       *)
(***************************************************************************)
LEMMA KillStep ==
  ASSUME BatcherInv, Kill
  PROVE  BatcherInv'
<1> USE DEF BatcherInv
<1>1. /\ drain = "stop" /\ drain' = "kill" /\ groupErr' = TRUE
      /\ UNCHANGED <<envVars, managerVars, lastStored, main, pub, sending, inflight>>
  BY DEF Kill, pubVars
<1>2. UNCHANGED <<onL1, bankVars, safe, tip, chans, txChannels, lastStored>>
  BY <1>1 DEF envVars, managerVars
<1>3. EnvType' /\ BankInv' /\ ManagerType' /\ TxPending' /\ ConfirmedIn(chans, onL1)'
  BY <1>1, <1>2, EnvStill, ManagerKept DEF Included
<1>4. LoopType' /\ Control'
  BY <1>1 DEF LoopType, Control
<1>5. Held' /\ Included' /\ TipStored' /\ Accounted'
  BY <1>1, <1>2, <1>3, AccountedKept DEF Held, Included, TipStored
<1> QED
  BY <1>3, <1>4, <1>5

(***************************************************************************)
(* A block is loaded: it follows the last block stored, so that the blocks *)
(* before it are the ones that were accounted for.                         *)
(***************************************************************************)
LEMMA LoadedBlock ==
  ASSUME EnvType, LoopType, TipStored, Len(RangeStart) < Len(l2), ExtendsTip(NextBlock)
  PROVE  /\ NextBlock \in L2Chains /\ Len(NextBlock) = Len(RangeStart) + 1
         /\ \A n \in 1 .. Len(RangeStart) :
              IsPrefix(safe, NextBlock) /\ n > Len(safe) =>
                /\ RangeStart \in lastStored /\ IsPrefix(safe, RangeStart)
                /\ SubSeq(NextBlock, 1, n) = SubSeq(RangeStart, 1, n)
         /\ SubSeq(NextBlock, 1, Len(NextBlock)) = NextBlock
<1>1. PICK b, r : b = NextBlock /\ r = RangeStart
  OBVIOUS
<1>2. l2 \in L2Chains /\ safe \in L2Chains /\ Len(l2) \in Nat /\ Len(safe) \in Nat
  BY DEF EnvType, L2Chains
<1>3. /\ r \in L2Chains /\ Len(safe) <= Len(r) /\ Len(r) \in Nat
      /\ r = safe \/ r \in lastStored
  BY <1>1, RangeStartFacts DEF L2Chains
<1>4. b \in L2Chains /\ Len(b) = Len(r) + 1
  <2>1. Len(r) + 1 \in 0 .. Len(l2)
    BY <1>1, <1>2, <1>3
  <2> QED
    BY <1>1, <1>2, <2>1, FirstBlocks DEF NextBlock
<1>5. SubSeq(b, 1, Len(b)) = b
  BY <1>4 DEF L2Chains
<1>6. ASSUME NEW n \in 1 .. Len(r), IsPrefix(safe, b), n > Len(safe)
      PROVE  /\ r \in lastStored /\ IsPrefix(safe, r)
             /\ SubSeq(b, 1, n) = SubSeq(r, 1, n)
  <2>1. r # safe /\ r \in lastStored
    BY <1>2, <1>3, <1>6
  <2>2. ~IsPrefix(r, safe)
    <3>1. Len(r) > Len(safe)
      BY <1>2, <1>3, <1>6
    <3> QED
      BY <1>2, <1>3, <3>1, ChainPrefix
  <2>3. r = tip
    BY <2>1, <2>2 DEF TipStored
  <2>4. r # <<>>
    BY <1>6
  <2>5. r = Front(b)
    BY <1>1, <2>3, <2>4 DEF ExtendsTip
  <2>6. b # <<>>
    BY <1>3, <1>4
  <2>7. \A i \in 1 .. Len(r) : r[i] = b[i]
    BY <1>3, <1>4, <2>5, <2>6, FrontOf
  <2>8. IsPrefix(safe, r)
    BY <1>2, <1>3, <1>4, <1>6, <2>7, ChainPrefix
  <2>9. SubSeq(b, 1, n) = SubSeq(r, 1, n)
    <3>1. n \in 0 .. Len(b) /\ n \in 0 .. Len(r)
      BY <1>3, <1>4
    <3>2. PICK p, s : p = SubSeq(b, 1, n) /\ s = SubSeq(r, 1, n)
      OBVIOUS
    <3>3. /\ p \in L2Chains /\ s \in L2Chains /\ Len(p) = n /\ Len(s) = n
          /\ \A i \in 1 .. n : p[i] = b[i] /\ s[i] = r[i]
      BY <1>3, <1>4, <3>1, <3>2, FirstBlocks
    <3>4. \A i \in 1 .. n : p[i] = s[i]
      BY <1>3, <2>7, <3>3
    <3>5. p = s
      BY <3>3, <3>4, ChainPrefix
    <3> QED
      BY <3>2, <3>5
  <2> QED
    BY <2>1, <2>8, <2>9
<1> QED
  BY <1>1, <1>4, <1>5, <1>6

(***************************************************************************)
(* A block is loaded and added to the manager.                             *)
(***************************************************************************)
LEMMA LoadStep ==
  ASSUME BatcherInv, LoadBlock
  PROVE  BatcherInv'
<1> USE DEF BatcherInv
<1>1. PICK b, r : b = NextBlock /\ r = RangeStart
  OBVIOUS
<1>2. /\ main = "load" /\ Len(r) < Len(l2) /\ ExtendsTip(b)
      /\ blocks' = Append(blocks, b) /\ tip' = b /\ lastStored' = {b}
      /\ \/ main' = "publish" /\ drain' = "no" /\ pub' = "next"
         \/ UNCHANGED <<main, drain, pub>>
      /\ UNCHANGED <<envVars, chans, currentChannel, channelQueue, txChannels, closed,
                     sending, queueVars>>
  BY <1>1 DEF LoadBlock, StartPublishing
<1>3. UNCHANGED <<inflight, groupErr, onL1, bankVars, safe>>
  BY <1>2 DEF queueVars, envVars
<1>4. /\ b \in L2Chains /\ Len(b) = Len(r) + 1 /\ SubSeq(b, 1, Len(b)) = b
      /\ \A n \in 1 .. Len(r) : IsPrefix(safe, b) /\ n > Len(safe) =>
           r \in lastStored /\ IsPrefix(safe, r) /\ SubSeq(b, 1, n) = SubSeq(r, 1, n)
  BY <1>1, <1>2, LoadedBlock
<1>5. r \in L2Chains /\ Len(safe) <= Len(r) /\ Len(r) \in Nat /\ Len(safe) \in Nat
  BY <1>1, RangeStartFacts DEF L2Chains, EnvType
<1>6. EnvType' /\ BankInv'
  BY <1>2, EnvStill
<1>7. blocks' \in Seq(L2Chains) /\ ToSet(blocks') = ToSet(blocks) \cup {b}
  <2>1. blocks \in Seq(L2Chains)
    BY DEF ManagerType
  <2> QED
    BY <1>2, <1>4, <2>1, ToSetAppend
<1>8. ManagerType' /\ TxPending' /\ ConfirmedIn(chans, onL1)'
  BY <1>2, <1>3, <1>4, <1>7 DEF ManagerType, GoodChans, TxPending, PendingIn, Included, ConfirmedIn
<1>9. LoopType' /\ Control'
  BY <1>2, <1>3, <1>4 DEF LoopType, Control
<1>10. Held' /\ Included' /\ TipStored'
  BY <1>2, <1>3, <1>8 DEF Held, Included, TipStored
<1>11. Accounted'
  <2>1. CoverKept
    BY <1>2, <1>7 DEF CoverKept, SameContent, ManagerType
  <2>2. \A x : Covered(x) => Covered(x)'
    BY <1>3, <2>1, CoverKeptCovered
  <2>3. ASSUME ~closed, IsPrefix(safe, b), NEW n \in Len(safe) + 1 .. Len(b)
        PROVE  Covered(SubSeq(b, 1, n))'
    <3>1. CASE n = Len(b)
      BY <1>4, <1>7, <3>1 DEF Covered
    <3>2. CASE n # Len(b)
      <4>1. n \in 1 .. Len(r) /\ n > Len(safe) /\ n \in Len(safe) + 1 .. Len(r)
        BY <1>4, <1>5, <2>3, <3>2
      <4>2. r \in lastStored /\ IsPrefix(safe, r) /\ SubSeq(b, 1, n) = SubSeq(r, 1, n)
        BY <1>4, <2>3, <4>1
      <4>3. PICK x : x = SubSeq(b, 1, n)
        OBVIOUS
      <4>4. Covered(x)
        BY <2>3, <4>1, <4>2, <4>3, AccountedIs
      <4>5. Covered(x)'
        BY <2>2, <4>4
      <4> QED
        BY <4>3, <4>5
    <3> QED
      BY <3>1, <3>2
  <2>4. closed' = closed /\ safe' = safe /\ lastStored' = {b}
    BY <1>2, <1>3
  <2> QED
    BY <2>3, <2>4, AccountedPrimeIs
<1> QED
  BY <1>6, <1>8, <1>9, <1>10, <1>11

(***************************************************************************)
(* The manager is closed, for a reorg or a shutdown.                       *)
(***************************************************************************)
LEMMA CloseStep ==
  ASSUME BatcherInv, LoadReorg \/ Stop
  PROVE  BatcherInv'
<1> USE DEF BatcherInv
<1>1. /\ main \in {"select", "load"} /\ Close /\ main' = "publish" /\ pub' = "next"
      /\ \/ drain' = "reorg" /\ lastStored' = {}
         \/ drain' = "stop" /\ lastStored' = lastStored
      /\ UNCHANGED <<envVars, sending, queueVars>>
  BY DEF LoadReorg, Stop, StartPublishing
<1>2. UNCHANGED <<inflight, groupErr, sending, onL1, bankVars, safe>>
  BY <1>1 DEF queueVars, envVars
<1>3. /\ ManagerType' /\ TxPending' /\ ConfirmedIn(chans, onL1)'
      /\ closed' = TRUE /\ tip' = tip /\ txChannels' = txChannels /\ DOMAIN chans' = DOMAIN chans
      /\ ChansGrow(chans, chans')
  BY <1>1, <1>2, CloseFacts DEF Included
<1>4. EnvType' /\ BankInv'
  BY <1>1, <1>3, EnvKept DEF ManagerType, GoodChans
<1>5. LoopType' /\ Control'
  BY <1>1, <1>2 DEF LoopType, Control
<1>6. Held' /\ Included'
  BY <1>2, <1>3 DEF Held, Included
<1>7. TipStored' /\ Accounted'
  BY <1>1, <1>2, <1>3 DEF TipStored, Accounted, BlocksKept
<1> QED
  BY <1>3, <1>4, <1>5, <1>6, <1>7

(***************************************************************************)
(* The publisher asks for a frame.                                         *)
(***************************************************************************)
LEMMA PublishStep ==
  ASSUME BatcherInv, PublishTxToL1
  PROVE  BatcherInv'
<1> USE DEF BatcherInv
<1>1. /\ pub = "next" /\ TxData /\ UNCHANGED <<envVars, lastStored, drain, loadEnd, queueVars>>
      /\ IF sending' = NoFrame THEN PublisherEnds ELSE pub' = "send" /\ UNCHANGED main
  BY DEF PublishTxToL1
<1>2. UNCHANGED <<inflight, groupErr, onL1, bankVars, safe>>
  BY <1>1 DEF queueVars, envVars
<1>3. TxDataDone
  <2>1. l1Head \in Nat /\ ManagerType /\ TxPending /\ ConfirmedIn(chans, onL1) /\ UNCHANGED onL1
    BY <1>2 DEF EnvType, Included
  <2> QED
    BY <1>1, <2>1, TxDataPendingDone, TxDataNewDone, TxDataEOFDone DEF TxData
<1>4. /\ ManagerType' /\ TxPending' /\ ConfirmedIn(chans, onL1)' /\ CoverKept /\ GivesFrame
      /\ tip' = tip /\ closed' = closed /\ ChansGrow(chans, chans')
  BY <1>3 DEF TxDataDone
<1>5. EnvType' /\ BankInv'
  BY <1>1, <1>4, EnvKept DEF ManagerType, GoodChans
<1>6. LoopType' /\ Control'
  BY <1>1, <1>2 DEF LoopType, Control, PublisherEnds
<1>7. Held'
  <2>1. sending = NoFrame /\ txChannels = DOMAIN inflight
    BY <1>1 DEF Control, Held
  <2>2. NoFrame \notin txChannels
    <3>1. \A c \in DOMAIN chans : c # 0
      BY DEF ManagerType, GoodChans
    <3> QED
      BY <3>1 DEF TxPending, PendingIn, NoFrame
  <2> QED
    BY <1>2, <1>4, <2>1, <2>2 DEF Held, GivesFrame
<1>8. Included' /\ TipStored'
  BY <1>1, <1>2, <1>4 DEF Included, TipStored
<1>9. Accounted'
  BY <1>1, <1>2, <1>4, CoverKeepsAccounted
<1> QED
  BY <1>4, <1>5, <1>6, <1>7, <1>8, <1>9

(***************************************************************************)
(* The frame of a known transaction has been made.                         *)
(***************************************************************************)
LEMMA SentMade ==
  ASSUME ManagerType, TxPending, NEW t \in txChannels
  PROVE  t \in MadeIn(chans)
<1>1. PICK c \in DOMAIN chans, n \in FrameNumbers : t = <<c, n>>
  BY KnownTx
<1>2. chans[c] \in Channels /\ Split(chans[c]) /\ n \in chans[c].pending
  BY <1>1, ElementOfSeq DEF ManagerType, GoodChans, TxPending, PendingIn
<1>3. n \in 0 .. chans[c].numFrames - 1 /\ chans[c].numFrames \in Nat
  BY <1>2, ChannelFields DEF Split
<1> QED
  BY <1>1, <1>3 DEF MadeIn

(***************************************************************************)
(* A receipt is read.                                                      *)
(***************************************************************************)
LEMMA SendDoneFacts ==
  ASSUME Held, NEW t \in DOMAIN inflight, SendDone(t), txChannels' = txChannels \ {t},
         UNCHANGED sending
  PROVE  Held' /\ \A u \in DOMAIN inflight' : u \in DOMAIN inflight /\ inflight'[u] = inflight[u]
<1>1. /\ DOMAIN inflight' = DOMAIN inflight \ {t}
      /\ \A u \in DOMAIN inflight' : inflight'[u] = inflight[u]
  BY DEF SendDone
<1> QED
  BY <1>1 DEF Held

(***************************************************************************)
(* A receipt of an included transaction.                                   *)
(***************************************************************************)
LEMMA ReceiptOKStep ==
  ASSUME BatcherInv, NEW t \in DOMAIN inflight, ReceiptOK(t)
  PROVE  BatcherInv'
<1> USE DEF BatcherInv
<1>1. PICK at : at = inflight[t]
  OBVIOUS
<1>2. /\ ReadsReceipts /\ at # 0 /\ SendDone(t) /\ TxConfirmed(t, at)
      /\ UNCHANGED <<envVars, loopVars, pubVars, groupErr>>
  BY <1>1 DEF ReceiptOK
<1>3. UNCHANGED <<groupErr, sending, pub, lastStored, main, drain, onL1, bankVars, safe>>
  BY <1>2 DEF loopVars, pubVars, envVars
<1>4. t \in txChannels /\ at \in Nat /\ <<t, at>> \in onL1
  BY <1>1, <1>2 DEF Held, Included
<1>5. /\ ManagerType' /\ TxPending' /\ txChannels' = txChannels \ {t}
      /\ ConfirmedIn(chans, onL1)' /\ CoverKept /\ tip' = tip /\ closed' = closed
      /\ KeepsContent(chans, chans')
  BY <1>2, <1>3, <1>4, TxConfirmedFacts DEF Included
<1>6. Held' /\ \A u \in DOMAIN inflight' : u \in DOMAIN inflight /\ inflight'[u] = inflight[u]
  BY <1>2, <1>3, <1>5, SendDoneFacts
<1>7. EnvType' /\ BankInv'
  <2>1. ChansGrow(chans, chans') /\ chans' \in Seq(Channels)
    BY <1>5, GrowSame DEF KeepsContent, ManagerType, GoodChans
  <2> QED
    BY <1>2, <2>1, EnvKept
<1>8. LoopType' /\ Control'
  BY <1>3, <1>6 DEF LoopType, Control
<1>9. Included' /\ TipStored'
  BY <1>3, <1>5, <1>6 DEF Included, TipStored
<1>10. Accounted'
  BY <1>3, <1>5, CoverKeepsAccounted
<1> QED
  BY <1>5, <1>6, <1>7, <1>8, <1>9, <1>10

(***************************************************************************)
(* A receipt of a failed send.                                             *)
(***************************************************************************)
LEMMA ReceiptErrStep ==
  ASSUME BatcherInv, NEW t \in DOMAIN inflight, ReceiptErr(t)
  PROVE  BatcherInv'
<1> USE DEF BatcherInv
<1>1. /\ SendDone(t) /\ TxFailed(t) /\ groupErr' = TRUE
      /\ stale' \in {stale, stale \cup {t}}
      /\ UNCHANGED <<l1Head, l2, safe, onL1, bankVars, loopVars, pubVars>>
  BY DEF ReceiptErr
<1>2. UNCHANGED <<sending, pub, lastStored, main, drain, onL1, bankVars, safe, l1Head, l2>>
  BY <1>1 DEF loopVars, pubVars
<1>3. t \in txChannels
  BY DEF Held
<1>4. /\ ManagerType' /\ TxPending' /\ txChannels' = txChannels \ {t}
      /\ KeepsContent(chans, chans') /\ KeepsConfirmed(chans, chans')
      /\ blocks' = blocks /\ tip' = tip /\ closed' = closed
      /\ ~closed => channelQueue' = channelQueue
  BY <1>1, <1>3, TxFailedFacts
<1>5. Held' /\ \A u \in DOMAIN inflight' : u \in DOMAIN inflight /\ inflight'[u] = inflight[u]
  BY <1>1, <1>2, <1>4, SendDoneFacts
<1>6. /\ DOMAIN chans' = DOMAIN chans
      /\ \A c \in DOMAIN chans : /\ chans'[c].confirmed = chans[c].confirmed
                                 /\ chans'[c].blocks = chans[c].blocks
                                 /\ SameContent(chans[c], chans'[c])
  BY <1>4 DEF KeepsContent, KeepsConfirmed, SameContent
<1>7. EnvType'
  <2>1. FrameIDs' = FrameIDs
    BY <1>6 DEF FrameIDs
  <2>2. t \in FrameIDs
    BY <1>3 DEF TxPending, PendingIn, FrameIDs, FrameNumbers
  <2> QED
    BY <1>1, <1>2, <2>1, <2>2 DEF EnvType
<1>8. BankInv'
  <2>1. ChansGrow(chans, chans') /\ chans' \in Seq(Channels)
    BY <1>4, <1>6, GrowSame DEF ManagerType, GoodChans
  <2>2. t \in MadeIn(chans)
    BY <1>3, SentMade
  <2> QED
    BY <1>1, <1>2, <2>1, <2>2, BankKept
<1>9. LoopType' /\ Control'
  BY <1>1, <1>2, <1>5 DEF LoopType, Control
<1>10. Included'
  BY <1>2, <1>5, <1>6 DEF Included, ConfirmedIn
<1>11. TipStored'
  BY <1>2, <1>4 DEF TipStored
<1>12. Accounted'
  <2>1. CASE closed
    BY <1>4, <2>1 DEF Accounted, BlocksKept
  <2>2. CASE ~closed
    <3>1. CoverKept
      BY <1>4, <1>6, <2>2 DEF CoverKept, ManagerType
    <3> QED
      BY <1>2, <1>4, <3>1, CoverKeepsAccounted
  <2> QED
    BY <2>1, <2>2
<1> QED
  BY <1>4, <1>5, <1>7, <1>8, <1>9, <1>10, <1>11, <1>12

(***************************************************************************)
(* The steps of the chains.  Most of the state is left alone by them.      *)
(***************************************************************************)
BatcherStill ==
  /\ UNCHANGED managerVars
  /\ UNCHANGED <<lastStored, main, drain, pub, sending, groupErr>>
  /\ DOMAIN inflight' = DOMAIN inflight

(***************************************************************************)
(* A step of the chains keeps what the invariant says of the batcher.      *)
(***************************************************************************)
LEMMA StillFacts ==
  ASSUME BatcherInv, BatcherStill, onL1 \subseteq onL1'
  PROVE  /\ ManagerType' /\ TxPending' /\ ConfirmedIn(chans, onL1)' /\ LoopType' /\ Control'
         /\ FrameIDs' = FrameIDs
<1> USE DEF BatcherInv
<1>1. /\ UNCHANGED <<chans, blocks, tip, currentChannel, channelQueue, txChannels, closed>>
      /\ UNCHANGED <<lastStored, main, drain, pub, sending, groupErr>>
      /\ DOMAIN inflight' = DOMAIN inflight
  BY DEF BatcherStill, managerVars
<1>2. ManagerType' /\ TxPending' /\ FrameIDs' = FrameIDs
  BY <1>1 DEF ManagerType, TxPending, PendingIn, GoodChans, FrameIDs
<1>3. ConfirmedIn(chans, onL1)'
  BY <1>1 DEF Included, ConfirmedIn
<1>4. LoopType' /\ Control'
  BY <1>1 DEF LoopType, Control
<1> QED
  BY <1>2, <1>3, <1>4

(***************************************************************************)
(* L2 grows, or the unsafe chain is reorganised.                           *)
(***************************************************************************)
LEMMA HeadsStep ==
  ASSUME BatcherInv, L2Block \/ L2Reorg
  PROVE  BatcherInv'
<1> USE DEF BatcherInv
<1>1. /\ UNCHANGED <<l1Head, safe, onL1, stale, bankVars, managerVars, loopVars, pubVars, queueVars>>
      /\ \/ Len(l2) < MaxL2 /\ l2' = Append(l2, "x")
         \/ \E n \in Len(safe) .. Len(l2) - 1 : l2' = Append(SubSeq(l2, 1, n), "y")
  BY DEF L2Block, L2Reorg
<1>2. /\ UNCHANGED <<safe, onL1, stale, lastStored, main, drain, pub, sending, inflight, groupErr>>
      /\ UNCHANGED <<tip, txChannels, chans>>
  BY <1>1 DEF loopVars, pubVars, queueVars, managerVars
<1>3. BatcherStill
  BY <1>1, <1>2 DEF BatcherStill
<1>4. /\ ManagerType' /\ TxPending' /\ ConfirmedIn(chans, onL1)' /\ LoopType' /\ Control'
      /\ FrameIDs' = FrameIDs
  BY <1>2, <1>3, StillFacts
<1>5. /\ l1Head \in Nat /\ l2 \in L2Chains /\ safe \in L2Chains /\ IsPrefix(safe, l2)
      /\ Len(l2) \in Nat /\ Len(safe) \in Nat /\ Len(l2) <= MaxL2 /\ MaxL2 \in Nat
      /\ l2 \in Seq({"x", "y"})
      /\ Len(safe) <= Len(l2) /\ \A i \in 1 .. Len(safe) : safe[i] = l2[i]
  BY ChainPrefix, BatcherAssumption DEF EnvType, L2Chains
<1>6. BankInv'
  <2>1. chans \in Seq(Channels)
    BY DEF ManagerType, GoodChans
  <2>2. ChansGrow(chans, chans') /\ chans' \in Seq(Channels)
    BY <1>2, <2>1, GrowSame DEF SameContent
  <2> QED
    BY <1>1, <2>2, BankKept
<1>7. l2' \in L2Chains /\ IsPrefix(safe, l2')
  <2>1. ASSUME NEW p \in L2Chains, NEW e \in {"x", "y"}, Len(p) < MaxL2, Len(safe) <= Len(p),
               \A i \in 1 .. Len(safe) : safe[i] = p[i], l2' = Append(p, e)
        PROVE  l2' \in L2Chains /\ IsPrefix(safe, l2')
    <3>1. PICK q : q = Append(p, e)
      OBVIOUS
    <3>2. p \in Seq({"x", "y"}) /\ Len(p) \in Nat
      BY DEF L2Chains
    <3>3. q \in Seq({"x", "y"}) /\ Len(q) = Len(p) + 1 /\ \A i \in 1 .. Len(p) : q[i] = p[i]
      BY <3>1, <3>2
    <3>4. q \in L2Chains
      BY <1>5, <2>1, <3>2, <3>3 DEF L2Chains
    <3>5. Len(safe) <= Len(q) /\ \A i \in 1 .. Len(safe) : safe[i] = q[i]
      BY <1>5, <2>1, <3>2, <3>3
    <3>6. IsPrefix(safe, q)
      BY <1>5, <3>4, <3>5, ChainPrefix
    <3> QED
      BY <2>1, <3>1, <3>4, <3>6
  <2>2. CASE Len(l2) < MaxL2 /\ l2' = Append(l2, "x")
    BY <1>5, <2>1, <2>2
  <2>3. ASSUME NEW n \in Len(safe) .. Len(l2) - 1, l2' = Append(SubSeq(l2, 1, n), "y")
        PROVE  l2' \in L2Chains /\ IsPrefix(safe, l2')
    <3>1. PICK p : p = SubSeq(l2, 1, n)
      OBVIOUS
    <3>2. n \in 0 .. Len(l2) /\ n < MaxL2
      BY <1>5
    <3>3. p \in L2Chains /\ Len(p) = n /\ \A i \in 1 .. n : p[i] = l2[i]
      BY <1>5, <3>1, <3>2, FirstBlocks
    <3>4. Len(safe) <= Len(p) /\ \A i \in 1 .. Len(safe) : safe[i] = p[i]
      BY <1>5, <3>3
    <3> QED
      BY <2>1, <2>3, <3>1, <3>2, <3>3, <3>4
  <2> QED
    BY <1>1, <2>2, <2>3
<1>8. EnvType'
  BY <1>1, <1>2, <1>4, <1>5, <1>7 DEF EnvType
<1>9. Held' /\ Included' /\ TipStored'
  BY <1>2, <1>4 DEF Held, Included, TipStored
<1>10. Accounted'
  BY <1>1, <1>2, AccountedKept
<1> QED
  BY <1>4, <1>6, <1>8, <1>9, <1>10

(***************************************************************************)
(* Accounted holds after a step of L1: what reached the bank stays so.     *)
(***************************************************************************)
LEMMA L1KeepsAccounted ==
  ASSUME Accounted, BatcherStill, UNCHANGED safe, \A c : Reached(c) => Reached(c)'
  PROVE  Accounted'
<1>1. UNCHANGED <<chans, blocks, channelQueue, closed, lastStored, safe>>
  BY DEF BatcherStill, managerVars
<1>2. \A b : Covered(b) => Covered(b)'
  BY <1>1 DEF Covered, Holds
<1> SUFFICES ASSUME ~closed, NEW last \in lastStored, IsPrefix(safe, last),
                    NEW n \in Len(safe) + 1 .. Len(last)
             PROVE  Covered(SubSeq(last, 1, n))'
  BY <1>1, AccountedPrimeIs
<1>3. PICK b : b = SubSeq(last, 1, n)
  OBVIOUS
<1>4. Covered(b)
  BY <1>3, AccountedIs
<1>5. Covered(b)'
  BY <1>2, <1>4
<1> QED
  BY <1>3, <1>5

(***************************************************************************)
(* A new L1 block: channels time out.                                      *)
(***************************************************************************)
LEMMA L1BlockStep ==
  ASSUME BatcherInv, L1Block
  PROVE  BatcherInv'
<1> USE DEF BatcherInv
<1>1. /\ l1Head' = l1Head + 1 /\ Read(bank, l1Head')
      /\ UNCHANGED <<l2, safe, onL1, stale, managerVars, loopVars, pubVars, queueVars>>
  BY DEF L1Block
<1>2. /\ UNCHANGED <<safe, onL1, stale, lastStored, main, drain, pub, sending, inflight, groupErr>>
      /\ UNCHANGED <<tip, txChannels, chans, l2>>
  BY <1>1 DEF loopVars, pubVars, queueVars, managerVars
<1>3. BatcherStill
  BY <1>1, <1>2 DEF BatcherStill
<1>4. /\ ManagerType' /\ TxPending' /\ ConfirmedIn(chans, onL1)' /\ LoopType' /\ Control'
      /\ FrameIDs' = FrameIDs
  BY <1>2, <1>3, StillFacts
<1>5. EnvType'
  BY <1>1, <1>2, <1>4 DEF EnvType
<1>6. PICK q : q = bank
  OBVIOUS
<1>7. q \in Seq(Entries) /\ Read(q, l1Head')
  BY <1>1, <1>6 DEF BankInv, BankType
<1>8. BankInv'
  <2>1. \A c : /\ OfChannel(c)' = OfChannel(c) /\ Arrived(c)' = Arrived(c) /\ Near(c)' = Near(c)
               /\ KnownIn(q, c)' = InQueue(c)
    BY <1>2, <1>6 DEF OfChannel, Arrived, Near, KnownIn, InQueue
  <2>2. \A i \in DOMAIN q : OfChannel(q[i].ch)' # {}
    BY <1>6, <2>1 DEF BankInv, BankType
  <2>3. \A c : Dropped(c) => Dropped(c)'
    <3> SUFFICES ASSUME NEW c, Dropped(c) PROVE Dropped(c)'
      OBVIOUS
    <3>1. PICK e \in OfChannel(c) : e[2] + ChannelTimeout < l1Head
      BY DEF Dropped
    <3>2. e[2] \in Nat /\ l1Head \in Nat /\ ChannelTimeout \in Nat
      BY BatcherAssumption DEF OfChannel, EnvType
    <3>3. e[2] + ChannelTimeout < l1Head'
      BY <1>1, <3>1, <3>2
    <3>4. ~CompleteOnL1(c)'
      BY <1>2, <2>1 DEF Dropped, CompleteOnL1
    <3> QED
      BY <2>1, <3>3, <3>4 DEF Dropped
  <2>4. \A c \in DOMAIN chans : OfChannel(c)' # {} /\ Near(c)' =>
          c \in derived \cup lost \/ KnownIn(q, c)' \/ Dropped(c)'
    BY <2>1, <2>3 DEF BankInv, BankKnows
  <2>5. stale' \subseteq stale /\ \A e \in onL1' : e[1] \in MadeIn(chans)
    BY <1>2 DEF BankInv, Made
  <2> QED
    BY <1>2, <1>7, <2>2, <2>4, <2>5, ReadKeepsBank
<1>9. ASSUME NEW c, Reached(c) PROVE Reached(c)'
  <2>1. OpenedEarly(c) => OpenedEarly(c)'
    BY <1>2 DEF OpenedEarly, SentTwice, Inclusions
  <2>2. c \in derived \cup lost \/ InBank(c) => c \in derived' \cup lost' \/ InBank(c)'
    <3>1. PICK E, o : E = Entries /\ o = l1Head'
      OBVIOUS
    <3>2. q \in Seq(E) /\ Read(q, o)
      BY <1>7, <3>1
    <3>3. \A i \in DOMAIN bank : \E j \in DOMAIN q :
            q[j].ch = bank[i].ch /\ bank[i].frames \subseteq q[j].frames
      BY <1>6
    <3> QED
      BY <1>2, <3>2, <3>3, ReadKeepsReady
  <2> QED
    BY <1>9, <2>1, <2>2 DEF Reached
<1>10. Held' /\ Included' /\ TipStored'
  BY <1>2, <1>4 DEF Held, Included, TipStored
<1>11. Accounted'
  BY <1>2, <1>3, <1>9, L1KeepsAccounted
<1> QED
  BY <1>4, <1>5, <1>8, <1>10, <1>11

(***************************************************************************)
(* L1 includes a frame: its channel is opened, or has timed out, or gets   *)
(* the frame.                                                              *)
(***************************************************************************)
LEMMA InL1Facts ==
  ASSUME BatcherInv, BatcherStill, NEW t \in MadeIn(chans), InL1(t), stale' \subseteq stale
  PROVE  /\ Accounted' /\ BankInv' /\ IsFiniteSet(onL1') /\ onL1' \subseteq FrameIDs \X Nat
<1> USE DEF BatcherInv
<1>1. PICK c0 \in DOMAIN chans, m \in FrameNumbers : t = <<c0, m>>
  BY DEF MadeIn
<1>2. PICK q : q = IngestFrame(t, l1Head)
  OBVIOUS
<1>3. /\ UNCHANGED <<chans, l1Head, safe>> /\ onL1' = onL1 \cup {<<t, l1Head>>}
      /\ Read(q, l1Head) /\ Read(q, l1Head')
  BY <1>2 DEF BatcherStill, managerVars, InL1
<1>4. /\ IsFiniteSet(onL1) /\ onL1 \subseteq FrameIDs \X Nat /\ l1Head \in Nat
      /\ m \in Nat /\ ChannelTimeout \in Nat /\ t \in FrameIDs
  BY <1>1, BatcherAssumption DEF EnvType, FrameIDs, FrameNumbers
<1>5. IsFiniteSet(onL1') /\ onL1' \subseteq FrameIDs \X Nat
  <2>1. PICK on, x : on = onL1 /\ x = <<t, l1Head>>
    OBVIOUS
  <2>2. onL1' = on \cup {x} /\ IsFiniteSet(on)
    BY <1>3, <1>4, <2>1
  <2>3. IsFiniteSet(on \cup {x})
    BY <2>2, FS_AddElement
  <2>4. on \subseteq FrameIDs \X Nat /\ x \in FrameIDs \X Nat
    BY <1>4, <2>1
  <2>5. onL1' \subseteq FrameIDs \X Nat
    BY <2>2, <2>4
  <2> QED
    BY <2>2, <2>3, <2>5
<1>6. /\ q \in Seq(Entries) /\ \A i \in DOMAIN q : i \in DOMAIN bank \/ q[i].ch = c0
      /\ \A i \in DOMAIN bank :
           /\ i \in DOMAIN q /\ q[i].ch = bank[i].ch /\ q[i].open = bank[i].open
           /\ bank[i].frames \subseteq q[i].frames
           /\ bank[i].ch = c0 /\ ~BankTimedOut(bank[i], l1Head) => m \in q[i].frames
      /\ (\A i \in DOMAIN bank : bank[i].ch # c0) =>
           \E i \in DOMAIN q : q[i].ch = c0 /\ q[i].open = l1Head /\ q[i].frames = {m}
  <2>1. bank \in Seq(Entries) /\ q = IngestFrame(<<c0, m>>, l1Head)
    BY <1>1, <1>2 DEF BankInv, BankType
  <2>2. PICK o : o = l1Head
    OBVIOUS
  <2>3. o \in Nat /\ m \in Nat /\ q = IngestFrame(<<c0, m>>, o)
    BY <1>4, <2>1, <2>2
  <2>4. Ingested(q, c0, m, o)
    BY <1>1, <2>1, <2>3, IngestFacts
  <2> QED
    BY <2>2, <2>4 DEF Ingested
<1>7. PICK x : x = <<<<c0, m>>, l1Head>>
  OBVIOUS
<1>8. x[1][1] = c0 /\ x[1][2] = m /\ x[2] = l1Head /\ onL1' = onL1 \cup {x}
  BY <1>1, <1>3, <1>7
<1>9. /\ OfChannel(c0)' = OfChannel(c0) \cup {x} /\ Arrived(c0)' = Arrived(c0) \cup {m}
      /\ \A c : c # c0 => OfChannel(c)' = OfChannel(c)
  <2>1. OfChannel(c0)' = OfChannel(c0) \cup {x}
    BY <1>8 DEF OfChannel
  <2>2. \A c : c # c0 => OfChannel(c)' = OfChannel(c)
    BY <1>8 DEF OfChannel
  <2>3. Arrived(c0)' = {e[1][2] : e \in OfChannel(c0) \cup {x}}
    BY <2>1 DEF Arrived
  <2>4. {e[1][2] : e \in OfChannel(c0) \cup {x}} = {e[1][2] : e \in OfChannel(c0)} \cup {x[1][2]}
    BY ONLY Zenon
  <2>5. Arrived(c0)' = Arrived(c0) \cup {m}
    BY <1>8, <2>3, <2>4 DEF Arrived
  <2> QED
    BY <2>1, <2>2, <2>5
<1>10. BankInv'
  <2>1. ASSUME NEW i \in DOMAIN q
        PROVE  OfChannel(q[i].ch)' # {}
    <3>1. CASE q[i].ch = c0
      <4>1. OfChannel(c0)' # {}
        BY <1>9
      <4> QED
        BY <3>1, <4>1
    <3>2. CASE q[i].ch # c0
      <4>1. i \in DOMAIN bank /\ q[i].ch = bank[i].ch
        BY <1>6, <3>2
      <4>2. OfChannel(q[i].ch) # {}
        BY <4>1 DEF BankInv, BankType
      <4>3. OfChannel(q[i].ch)' = OfChannel(q[i].ch)
        BY <1>9, <3>2
      <4> QED
        BY <4>2, <4>3
    <3> QED
      BY <3>1, <3>2
  <2>2. ASSUME NEW c \in DOMAIN chans, OfChannel(c)' # {}, Near(c)'
        PROVE  c \in derived \cup lost \/ KnownIn(q, c)' \/ Dropped(c)'
    <3>1. CASE c # c0
      <4>1. /\ OfChannel(c)' = OfChannel(c) /\ Arrived(c)' = Arrived(c) /\ Near(c)
        BY <1>9, <2>2, <3>1 DEF Arrived, Near
      <4>2. c \in derived \cup lost \/ InQueue(c) \/ Dropped(c)
        BY <2>2, <4>1 DEF BankInv, BankKnows
      <4>3. InQueue(c) => KnownIn(q, c)'
        BY <1>6, <4>1 DEF InQueue, KnownIn
      <4>4. Dropped(c) => Dropped(c)'
        BY <1>3, <4>1 DEF Dropped, CompleteOnL1
      <4> QED
        BY <4>2, <4>3, <4>4
    <3>2. CASE c = c0
      <4>1. /\ Near(c0)
            /\ \A e \in OfChannel(c0) : l1Head <= e[2] + ChannelTimeout
        BY <1>8, <1>9, <2>2, <3>2 DEF Near
      <4>2. \A e \in OfChannel(c0) : e[2] \in Nat
        BY <1>4 DEF OfChannel
      <4>3. x \in OfChannel(c0)'
        BY <1>9
      <4>4. CASE OfChannel(c0) = {}
        <5>1. Arrived(c0)' = {m} /\ \A i \in DOMAIN bank : bank[i].ch # c0
          BY <1>9, <4>4 DEF Arrived, BankInv, BankType
        <5> QED
          BY <1>6, <1>8, <3>2, <4>3, <5>1 DEF KnownIn
      <4>5. CASE OfChannel(c0) # {}
        <5>1. ~Dropped(c0)
          BY <1>4, <4>1, <4>2 DEF Dropped
        <5>2. c0 \in derived \cup lost \/ InQueue(c0)
          BY <4>1, <4>5, <5>1 DEF BankInv, BankKnows
        <5>3. CASE InQueue(c0)
          <6>1. PICK i \in DOMAIN bank :
                  /\ bank[i].ch = c0 /\ Arrived(c0) \subseteq bank[i].frames
                  /\ \E e \in OfChannel(c0) : bank[i].open = e[2]
            BY <5>3 DEF InQueue
          <6>2. ~BankTimedOut(bank[i], l1Head)
            BY <1>4, <4>1, <4>2, <6>1 DEF BankTimedOut
          <6>3. /\ i \in DOMAIN q /\ q[i].ch = c0 /\ Arrived(c0)' \subseteq q[i].frames
                /\ \E e \in OfChannel(c0)' : q[i].open = e[2]
            BY <1>6, <1>9, <6>1, <6>2
          <6> QED
            BY <3>2, <6>3 DEF KnownIn
        <5> QED
          BY <3>2, <5>2, <5>3
      <4> QED
        BY <4>4, <4>5
    <3> QED
      BY <3>1, <3>2
  <2>3. \A e \in onL1' : e[1] \in MadeIn(chans)
    BY <1>3 DEF BankInv, Made
  <2> QED
    BY <1>3, <1>6, <2>1, <2>2, <2>3, ReadKeepsBank
<1>11. ASSUME NEW c, Reached(c) PROVE Reached(c)'
  <2>1. OpenedEarly(c) => OpenedEarly(c)'
    BY <1>3, <1>5, EarlyKept
  <2>2. c \in derived \cup lost \/ InBank(c) => c \in derived' \cup lost' \/ InBank(c)'
    <3>1. PICK E, o : E = Entries /\ o = l1Head
      OBVIOUS
    <3>2. q \in Seq(E) /\ Read(q, o)
      BY <1>3, <1>6, <3>1
    <3>3. \A i \in DOMAIN bank : \E j \in DOMAIN q :
            q[j].ch = bank[i].ch /\ bank[i].frames \subseteq q[j].frames
      BY <1>6
    <3> QED
      BY <1>3, <3>2, <3>3, ReadKeepsReady
  <2> QED
    BY <1>11, <2>1, <2>2 DEF Reached
<1>12. Accounted'
  BY <1>3, <1>11, L1KeepsAccounted
<1> QED
  BY <1>5, <1>10, <1>12

(***************************************************************************)
(* L1 includes a transaction that is being sent, or one whose send was     *)
(* reported as failed.                                                     *)
(***************************************************************************)
LEMMA IncludeStep ==
  ASSUME BatcherInv,
         \/ \E t \in DOMAIN inflight : Include(t)
         \/ \E t \in stale : IncludeStale(t)
  PROVE  BatcherInv'
<1> USE DEF BatcherInv
<1>1. PICK t \in DOMAIN inflight \cup stale :
        /\ InL1(t)
        /\ \/ t \in DOMAIN inflight /\ inflight' = [inflight EXCEPT ![t] = l1Head] /\ UNCHANGED stale
           \/ UNCHANGED inflight /\ stale' = stale \ {t}
        /\ UNCHANGED <<managerVars, loopVars, pubVars, groupErr>>
  BY DEF Include, SendMined, IncludeStale, queueVars
<1>2. UNCHANGED <<l1Head, l2, safe, lastStored, main, drain, pub, sending, groupErr, tip, txChannels>>
  BY <1>1 DEF loopVars, pubVars, managerVars, InL1
<1>3. BatcherStill /\ onL1' = onL1 \cup {<<t, l1Head>>}
  BY <1>1, <1>2 DEF BatcherStill, InL1
<1>4. /\ ManagerType' /\ TxPending' /\ ConfirmedIn(chans, onL1)' /\ LoopType' /\ Control'
      /\ FrameIDs' = FrameIDs
  BY <1>3, StillFacts
<1>5. t \in MadeIn(chans) /\ stale' \subseteq stale
  <2>1. t \in stale \/ t \in txChannels
    BY DEF Held
  <2> QED
    BY <1>1, <2>1, SentMade DEF BankInv, Made
<1>6. Accounted' /\ BankInv' /\ IsFiniteSet(onL1') /\ onL1' \subseteq FrameIDs \X Nat
  BY <1>1, <1>3, <1>5, InL1Facts
<1>7. EnvType'
  BY <1>1, <1>2, <1>4, <1>6 DEF EnvType
<1>8. /\ DOMAIN inflight' = DOMAIN inflight
      /\ \A u \in DOMAIN inflight : \/ inflight'[u] = inflight[u]
                                    \/ u = t /\ inflight'[u] = l1Head
  BY <1>1
<1>9. Held'
  BY <1>2, <1>8 DEF Held, EnvType
<1>10. Included'
  BY <1>3, <1>4, <1>8 DEF Included
<1>11. TipStored'
  BY <1>2 DEF TipStored
<1> QED
  BY <1>4, <1>6, <1>7, <1>9, <1>10, <1>11

(***************************************************************************)
(* Derivation extends the safe head.                                       *)
(***************************************************************************)
LEMMA DeriveStep ==
  ASSUME BatcherInv, Derive
  PROVE  BatcherInv'
<1> USE DEF BatcherInv
<1>1. PICK b \in DerivableBlocks :
        b # <<>> /\ Front(b) = safe /\ safe' = b /\ l2' = IF IsPrefix(b, l2) THEN l2 ELSE b
  BY DEF Derive
<1>2. /\ UNCHANGED <<l1Head, onL1, stale, bankVars, lastStored, main, drain, pub, sending>>
      /\ UNCHANGED <<inflight, groupErr>>
      /\ UNCHANGED <<tip, txChannels, chans, blocks, channelQueue, closed>> /\ UNCHANGED managerVars
  BY DEF Derive, loopVars, pubVars, queueVars, managerVars
<1>3. BatcherStill
  BY <1>2 DEF BatcherStill
<1>4. /\ ManagerType' /\ TxPending' /\ ConfirmedIn(chans, onL1)' /\ LoopType' /\ Control'
      /\ FrameIDs' = FrameIDs
  BY <1>2, <1>3, StillFacts
<1>5. b \in L2Chains
  <2>1. PICK c \in DOMAIN chans : b \in ToSet(chans[c].blocks)
    BY DEF DerivableBlocks, BankInv, BankType
  <2>2. chans[c].blocks \in Seq(L2Chains)
    <3>1. chans[c] \in Channels
      BY ElementOfSeq DEF ManagerType, GoodChans
    <3> QED
      BY <3>1, ChannelFields
  <2> QED
    BY <2>1, <2>2, ElementOfSeq DEF ToSet
<1>6. safe \in L2Chains /\ l2 \in L2Chains /\ Len(safe) \in Nat
  BY DEF EnvType, L2Chains
<1>7. Len(b) = Len(safe) + 1 /\ \A i \in 1 .. Len(safe) : safe[i] = b[i]
  <2>1. Len(safe) = Len(b) - 1 /\ Len(b) \in Nat /\ \A i \in 1 .. Len(b) - 1 : safe[i] = b[i]
    BY <1>1, <1>5, FrontOf
  <2> QED
    BY <1>6, <2>1
<1>8. EnvType'
  <2>1. IsPrefix(b, b)
    BY <1>5, ChainPrefix
  <2>2. l2' \in L2Chains /\ IsPrefix(b, l2')
    BY <1>1, <1>5, <1>6, <2>1
  <2> QED
    BY <1>1, <1>2, <1>4, <1>5, <2>2 DEF EnvType
<1>9. BankInv'
  <2>1. chans \in Seq(Channels)
    BY DEF ManagerType, GoodChans
  <2>2. ChansGrow(chans, chans') /\ chans' \in Seq(Channels)
    BY <1>2, <2>1, GrowSame DEF SameContent
  <2> QED
    BY <1>2, <2>2, BankKept
<1>10. Held' /\ Included'
  BY <1>2, <1>4 DEF Held, Included
<1>11. TipStored'
  <2>1. ASSUME NEW last \in L2Chains, IsPrefix(last, safe) PROVE IsPrefix(last, b)
    <3>1. Len(last) <= Len(safe) /\ Len(last) \in Nat /\ \A i \in 1 .. Len(last) : last[i] = safe[i]
      BY <1>6, <2>1, ChainPrefix
    <3>2. Len(last) <= Len(b) /\ \A i \in 1 .. Len(last) : last[i] = b[i]
      BY <1>6, <1>7, <3>1
    <3> QED
      BY <1>5, <3>2, ChainPrefix
  <2>2. \A last \in lastStored : last \in L2Chains
    BY DEF LoopType
  <2> QED
    BY <1>1, <1>2, <2>1, <2>2 DEF TipStored
<1>12. Accounted'
  <2> SUFFICES ASSUME ~closed, NEW last \in lastStored, IsPrefix(b, last),
                      NEW n \in Len(b) + 1 .. Len(last)
               PROVE  Covered(SubSeq(last, 1, n))'
    BY <1>1, <1>2, AccountedPrimeIs
  <2>1. last \in L2Chains /\ Len(last) \in Nat
    BY DEF LoopType, L2Chains
  <2>2. Len(b) <= Len(last) /\ \A i \in 1 .. Len(b) : b[i] = last[i]
    BY <1>5, <2>1, ChainPrefix
  <2>3. IsPrefix(safe, last)
    <3>1. Len(safe) <= Len(last) /\ \A i \in 1 .. Len(safe) : safe[i] = last[i]
      BY <1>6, <1>7, <2>1, <2>2
    <3> QED
      BY <1>6, <2>1, <3>1, ChainPrefix
  <2>4. n \in Len(safe) + 1 .. Len(last)
    BY <1>6, <1>7, <2>1
  <2>5. PICK x : x = SubSeq(last, 1, n)
    OBVIOUS
  <2>6. Covered(x)
    BY <2>3, <2>4, <2>5, AccountedIs
  <2>7. Covered(x)'
    <3>1. CoverKept
      BY <1>2 DEF CoverKept, SameContent, ManagerType
    <3> QED
      BY <1>2, <2>6, <3>1, CoverKeptCovered
  <2> QED
    BY <2>5, <2>7
<1> QED
  BY <1>4, <1>8, <1>9, <1>10, <1>11, <1>12

-----------------------------------------------------------------------------
(***************************************************************************)
(* The invariant is inductive.                                             *)
(***************************************************************************)
LEMMA BatcherInitInv == BatcherInit => BatcherInv
<1> SUFFICES ASSUME BatcherInit PROVE BatcherInv
  OBVIOUS
<1> USE DEF BatcherInit
<1>1. <<>> \in L2Chains /\ <<>> \in Seq(Channels) /\ <<>> \in Seq(L2Chains) /\ DOMAIN <<>> = {}
  BY BatcherAssumption DEF L2Chains
<1>2. IsPrefix(<<>>, <<>>)
  BY <1>1, ChainPrefix
<1>3. EnvType
  BY <1>1, <1>2, FS_EmptySet DEF EnvType
<1>4. LoopType /\ Control
  BY DEF LoopType, Control
<1>5. ManagerType
  <2>1. GoodChans(chans)
    BY <1>1 DEF GoodChans
  <2>2. channelQueue \in Seq(DOMAIN chans)
    BY <1>1
  <2>3. currentChannel = 0 /\ blocks \in Seq(L2Chains) /\ tip \in L2Chains /\ closed \in BOOLEAN
    BY <1>1
  <2> QED
    BY <2>1, <2>2, <2>3 DEF ManagerType
<1>6. BankInv
  <2>1. bank = <<>> /\ <<>> \in Seq(Entries)
    OBVIOUS
  <2> QED
    BY <1>1, <2>1 DEF BankInv, Made, BankType, BankKnows
<1>7. TxPending /\ Held /\ Included /\ TipStored /\ Accounted
  BY <1>1 DEF TxPending, PendingIn, Held, Included, ConfirmedIn, TipStored, Accounted, BlocksKept
<1> QED
  BY <1>3, <1>4, <1>5, <1>6, <1>7 DEF BatcherInv

(***************************************************************************)
(* A stuttering step keeps the invariant.                                  *)
(***************************************************************************)
LEMMA BatcherStuttering == BatcherInv /\ UNCHANGED vars => BatcherInv'
<1> SUFFICES ASSUME BatcherInv, UNCHANGED vars PROVE BatcherInv'
  OBVIOUS
<1> USE DEF BatcherInv
<1>1. /\ UNCHANGED <<envVars, managerVars, onL1, bankVars, safe, lastStored, chans, tip, txChannels>>
      /\ UNCHANGED <<main, drain, pub, sending, inflight, groupErr>>
  BY DEF vars, envVars, managerVars, loopVars, pubVars, queueVars
<1>2. EnvType' /\ BankInv' /\ ManagerType' /\ TxPending' /\ ConfirmedIn(chans, onL1)' /\ Accounted'
  BY <1>1, EnvStill, ManagerKept, AccountedKept DEF Included
<1>3. LoopType' /\ Control' /\ Held' /\ Included' /\ TipStored'
  BY <1>1, <1>2 DEF LoopType, Control, Held, Included, TipStored
<1> QED
  BY <1>2, <1>3

(***************************************************************************)
(* Each step of the batcher and of the chains keeps the invariant.         *)
(***************************************************************************)
LEMMA BatcherInvInductive == BatcherInv /\ [Next]_vars => BatcherInv'
<1> SUFFICES ASSUME BatcherInv, [Next]_vars PROVE BatcherInv'
  OBVIOUS
<1>1. CASE BatcherStep
  BY <1>1, CalculateStep, QuietStep, LoadStep, CloseStep, PublishStep, SendStep, WaitStep,
     ReceiptOKStep, ReceiptErrStep, KillStep, StartStep DEF BatcherStep
<1>2. CASE ChainStep
  BY <1>2, L1BlockStep, HeadsStep, DeriveStep, IncludeStep DEF ChainStep
<1>3. CASE UNCHANGED vars
  BY <1>3, BatcherStuttering
<1> QED
  BY <1>1, <1>2, <1>3 DEF Next

(***************************************************************************)
(* The invariant holds in every reachable state.                           *)
(***************************************************************************)
LEMMA BatcherInvHolds == Spec => []BatcherInv
<1> QED
  BY BatcherInitInv, BatcherInvInductive, PTL DEF Spec

(***************************************************************************)
(* The types of the batcher's state.                                       *)
(***************************************************************************)
THEOREM BatcherTypeCorrect == Spec => []BatcherTypeOK
<1>1. BatcherInv => BatcherTypeOK
  <2> SUFFICES ASSUME BatcherInv PROVE BatcherTypeOK
    OBVIOUS
  <2> USE DEF BatcherInv
  <2>1. \A i \in DOMAIN channelQueue : channelQueue[i] \in DOMAIN chans
    BY ElementOfSeq DEF ManagerType
  <2>2. /\ txChannels \subseteq FrameIDs
        /\ DOMAIN inflight \subseteq FrameIDs /\ sending \in FrameIDs \cup {NoFrame}
    BY DEF TxPending, PendingIn, Held, FrameIDs, FrameNumbers
  <2>3. Len(l2) <= MaxL2
    BY DEF EnvType, L2Chains
  <2> QED
    BY <2>1, <2>2, <2>3 DEF BatcherTypeOK, EnvType, LoopType, ManagerType
<1> QED
  BY <1>1, BatcherInvHolds, PTL

(***************************************************************************)
(* No frame is lost or sent twice at once (channel.go, NextFrame, TxFailed *)
(* and TxConfirmed): each frame of a queued channel waits, is pending or   *)
(* is confirmed, and the manager knows exactly the transactions that the   *)
(* publisher and the queue hold.                                           *)
(***************************************************************************)
THEOREM BatcherFramesTracked == Spec => []FramesTracked
<1>1. BatcherInv => FramesTracked
  <2> SUFFICES ASSUME BatcherInv PROVE FramesTracked
    OBVIOUS
  <2> USE DEF BatcherInv
  <2>1. ASSUME NEW c \in DOMAIN chans, NEW n \in 0 .. chans[c].numFrames - 1
        PROVE  Places(chans[c], n) = 1
    <3>1. PICK ch : ch = chans[c]
      OBVIOUS
    <3>2. Split(ch) /\ n \in 0 .. ch.numFrames - 1
      BY <3>1 DEF ManagerType, GoodChans
    <3> DEFINE I == {i \in DOMAIN ch.frames : ch.frames[i] = n}
               P == {n} \cap ch.pending
               D == {n} \cap DOMAIN ch.confirmed
    <3>3. \/ (\E i : I = {i}) /\ P = {} /\ D = {}
          \/ I = {} /\ P = {n} /\ D = {}
          \/ I = {} /\ P = {} /\ D = {n}
      <4>1. n \in Waiting(ch) \/ n \in ch.pending \/ n \in DOMAIN ch.confirmed
        BY <3>2 DEF Split
      <4>2. I = {} <=> n \notin Waiting(ch)
        BY DEF Waiting
      <4>3. \A i \in I : I = {i}
        BY <3>2 DEF Split
      <4>4. /\ ~(n \in Waiting(ch) /\ n \in ch.pending)
            /\ ~(n \in Waiting(ch) /\ n \in DOMAIN ch.confirmed)
            /\ ~(n \in ch.pending /\ n \in DOMAIN ch.confirmed)
        BY <3>2 DEF Split
      <4> HIDE DEF I
      <4> QED
        BY <4>1, <4>2, <4>3, <4>4
    <3>4. Cardinality({}) = 0 /\ \A x : Cardinality({x}) = 1
      BY FS_EmptySet, FS_Singleton
    <3>5. Places(ch, n) = Cardinality(I) + Cardinality(P) + Cardinality(D)
      BY DEF Places
    <3> HIDE DEF I, P, D
    <3>6. \/ Cardinality(I) = 1 /\ Cardinality(P) = 0 /\ Cardinality(D) = 0
          \/ Cardinality(I) = 0 /\ Cardinality(P) = 1 /\ Cardinality(D) = 0
          \/ Cardinality(I) = 0 /\ Cardinality(P) = 0 /\ Cardinality(D) = 1
      BY <3>3, <3>4
    <3>7. Places(ch, n) = 1
      BY <3>5, <3>6
    <3> QED
      BY <3>1, <3>7
  <2>2. ASSUME NEW c \in DOMAIN chans, NEW n \in chans[c].pending
        PROVE  <<c, n>> \in txChannels
    <3>1. chans[c] \in Channels /\ Split(chans[c])
      BY ElementOfSeq DEF ManagerType, GoodChans
    <3>2. 0 .. chans[c].numFrames - 1 \subseteq FrameNumbers
      BY <3>1, ChannelFields DEF FrameNumbers
    <3>3. n \in FrameNumbers
      BY <3>1, <3>2 DEF Split
    <3> QED
      BY <3>3 DEF TxPending, PendingIn
  <2>3. \A i \in DOMAIN channelQueue : channelQueue[i] \in DOMAIN chans
    BY ElementOfSeq DEF ManagerType
  <2>4. txChannels = DOMAIN inflight \cup ({sending} \ {NoFrame})
    BY DEF Held
  <2> QED
    BY <2>1, <2>2, <2>3, <2>4 DEF FramesTracked
<1> QED
  BY <1>1, BatcherInvHolds, PTL

(***************************************************************************)
(* No block is missed by the batcher (channel_manager.go, TxConfirmed and  *)
(* AddL2Block; driver.go, loadBlocksIntoState): while the manager is not   *)
(* closed, each block between the safe head and the last block stored      *)
(* waits, is in a queued channel, or is in a channel that the bank         *)
(* (channel_bank.go, IngestFrame and Read) has read, holds complete, or    *)
(* dropped although it was complete because one before it had timed out;   *)
(* except for a channel that L1 opened early with a frame it holds twice.  *)
(***************************************************************************)
THEOREM BatcherAccounted == Spec => []Accounted
<1>1. BatcherInv => Accounted
  BY DEF BatcherInv
<1> QED
  BY <1>1, BatcherInvHolds, PTL
=============================================================================
