-------------------------- MODULE DataStagesProofs --------------------------
(***************************************************************************)
(* Proofs about the channel bank and the L1 data stages, for every set of  *)
(* frames and blocks, every timeout and every bank size.                   *)
(*                                                                         *)
(* The sizes are sums over finite sets (MapThenSumSet).  The first part    *)
(* shows that such a sum is additive; the library's induction theorems take *)
(* an operator as a parameter, so the arguments take a smallest            *)
(* counterexample instead, which well-foundedness provides.                *)
(***************************************************************************)
EXTENDS DataStages, FiniteSetTheorems, WellFoundedInduction, TLAPS

-----------------------------------------------------------------------------
(***************************************************************************)
(* What MapThenSumSet computes for the values h of the members of S; and an *)
(* additive measure with the same values.                                  *)
(***************************************************************************)
Pick(s) == CHOOSE y \in s : TRUE

IsSum(g, h, S) ==
  g = [s \in SUBSET S |-> IF s = {} THEN 0 ELSE h[Pick(s)] + g[s \ {Pick(s)}]]

Additive(M, h, S) ==
  /\ M \in [SUBSET S -> Nat] /\ M[{}] = 0
  /\ \A T \in SUBSET S : \A x \in S \ T : M[T \cup {x}] = M[T] + h[x]

(***************************************************************************)
(* A non-empty set of subsets of a finite set has a smallest member.       *)
(***************************************************************************)
LEMMA SmallestSet ==
  ASSUME NEW S, IsFiniteSet(S), NEW C \in SUBSET (SUBSET S), C # {}
  PROVE  \E s \in C : \A t \in C : t \subseteq s => t = s
<1>1. IsWellFoundedOn(StrictSubsetOrdering(S), SUBSET S)
  BY FS_StrictSubsetOrderingWellFounded, FS_FiniteSubsetsOfFinite
<1>2. \E s \in C : \A t \in C : ~(<<t, s>> \in StrictSubsetOrdering(S))
  BY <1>1, WFMin
<1> QED
  BY <1>2 DEF StrictSubsetOrdering

(***************************************************************************)
(* There is an additive measure: on S it is the one on S without e, plus   *)
(* the value of e.  A smallest set without one cannot be.                  *)
(***************************************************************************)
LEMMA AdditiveExists ==
  ASSUME NEW S, IsFiniteSet(S), NEW h \in [S -> Nat]
  PROVE  \E M : Additive(M, h, S)
<1> DEFINE C == {s \in SUBSET S : ~ \E M : Additive(M, h, s)}
<1>1. SUFFICES C = {}
  BY <1>1
<1>2. SUFFICES ASSUME C # {} PROVE FALSE
  BY <1>2
<1>3. PICK s \in C : \A t \in C : t \subseteq s => t = s
  <2>1. C \in SUBSET (SUBSET S)
    OBVIOUS
  <2> HIDE DEF C
  <2> QED
    BY <1>2, <2>1, SmallestSet
<1>4. CASE s = {}
  <2>1. Additive([u \in SUBSET {} |-> 0], h, {})
    BY DEF Additive
  <2> QED
    BY <1>3, <1>4, <2>1
<1>5. CASE s # {}
  <2>1. PICK e : e \in s
    BY <1>5
  <2> DEFINE t == s \ {e}
  <2>2. t \in SUBSET S /\ t \notin C /\ e \in S
    BY <1>3, <2>1
  <2>3. PICK M : Additive(M, h, t)
    BY <2>2
  <2> DEFINE N == [u \in SUBSET s |-> M[u \ {e}] + (IF e \in u THEN h[e] ELSE 0)]
  <2>4. N \in [SUBSET s -> Nat]
    <3>1. \A u \in SUBSET s : u \ {e} \in SUBSET t
      OBVIOUS
    <3>2. h[e] \in Nat /\ \A u \in SUBSET t : M[u] \in Nat
      BY <2>2, <2>3 DEF Additive
    <3> QED
      BY <3>1, <3>2
  <2>5. N[{}] = 0
    <3>1. {} \ {e} = {} /\ {} \in SUBSET s
      OBVIOUS
    <3> QED
      BY <2>3, <3>1 DEF Additive
  <2>6. ASSUME NEW T \in SUBSET s, NEW x \in s \ T PROVE N[T \cup {x}] = N[T] + h[x]
    <3>1. /\ T \cup {x} \in SUBSET s /\ T \ {e} \in SUBSET t
          /\ M[T \ {e}] \in Nat /\ h[e] \in Nat /\ h[x] \in Nat
      BY <2>2, <2>3, <1>3 DEF Additive
    <3>2. CASE x = e
      <4>1. (T \cup {x}) \ {e} = T \ {e} /\ e \notin T
        BY <3>2
      <4> QED
        BY <3>1, <3>2, <4>1
    <3>3. CASE x # e
      <4>1. (T \cup {x}) \ {e} = (T \ {e}) \cup {x} /\ (e \in T \cup {x} <=> e \in T) /\ x \in t \ (T \ {e})
        BY <3>3
      <4>2. M[(T \ {e}) \cup {x}] = M[T \ {e}] + h[x]
        BY <2>3, <3>1, <4>1 DEF Additive
      <4>3. /\ N[T \cup {x}] = M[(T \ {e}) \cup {x}] + (IF e \in T THEN h[e] ELSE 0)
            /\ N[T] = M[T \ {e}] + (IF e \in T THEN h[e] ELSE 0)
        BY <3>1, <4>1
      <4> HIDE DEF N
      <4> QED
        BY <3>1, <4>2, <4>3
    <3> QED
      BY <3>2, <3>3
  <2>7. Additive(N, h, s)
    <3> HIDE DEF N
    <3> QED
      BY <2>4, <2>5, <2>6 DEF Additive
  <2> QED
    BY <1>3, <2>7
<1> QED
  BY <1>4, <1>5

(***************************************************************************)
(* An additive measure solves the equation of the sum.                     *)
(***************************************************************************)
LEMMA AdditiveIsSum ==
  ASSUME NEW S, NEW h \in [S -> Nat], NEW M, Additive(M, h, S)
  PROVE  IsSum(M, h, S)
<1>1. ASSUME NEW s \in SUBSET S, s # {} PROVE M[s] = h[Pick(s)] + M[s \ {Pick(s)}]
  <2>1. Pick(s) \in s
    BY <1>1 DEF Pick
  <2> DEFINE x == Pick(s)
             T == s \ {x}
  <2> HIDE DEF x
  <2>2. T \in SUBSET S /\ x \in S \ T /\ T \cup {x} = s
    BY <2>1 DEF x
  <2>3. M[s] = M[T] + h[x]
    BY <2>2 DEF Additive
  <2>4. M[T] \in Nat /\ h[x] \in Nat
    BY <2>2 DEF Additive
  <2> QED
    BY <2>3, <2>4 DEF x
<1> QED
  BY <1>1 DEF Additive, IsSum

(***************************************************************************)
(* It is the only solution: no smallest set can have two sums.             *)
(***************************************************************************)
LEMMA SumIsAdditive ==
  ASSUME NEW S, IsFiniteSet(S), NEW h \in [S -> Nat], NEW M, Additive(M, h, S), NEW g, IsSum(g, h, S)
  PROVE  \A s \in SUBSET S : g[s] = M[s]
<1> DEFINE C == {s \in SUBSET S : g[s] # M[s]}
<1>1. SUFFICES ASSUME C # {} PROVE FALSE
  BY <1>1
<1>2. PICK s \in C : \A t \in C : t \subseteq s => t = s
  <2>1. C \in SUBSET (SUBSET S)
    OBVIOUS
  <2> HIDE DEF C
  <2> QED
    BY <1>1, <2>1, SmallestSet
<1>3. s # {}
  BY <1>2 DEF IsSum, Additive
<1> DEFINE x == Pick(s)
           T == s \ {x}
<1>4. x \in s
  BY <1>3 DEF Pick
<1> HIDE DEF x
<1>5. T \in SUBSET S /\ x \in S \ T /\ T \cup {x} = s /\ T \notin C
  BY <1>2, <1>4 DEF x
<1>6. M[s] = M[T] + h[x]
  BY <1>5 DEF Additive
<1>7. g[s] = h[x] + g[T]
  BY <1>2, <1>3 DEF IsSum, x
<1>8. g[T] = M[T]
  BY <1>5
<1>9. M[T] \in Nat /\ h[x] \in Nat /\ g[s] # M[s]
  BY <1>2, <1>5 DEF Additive
<1> QED
  BY <1>6, <1>7, <1>8, <1>9

(***************************************************************************)
(* The sizes of the frames of a map.                                       *)
(***************************************************************************)
FrameSizes(inputs) == [n \in DOMAIN inputs |-> frameSize(inputs[n])]

(***************************************************************************)
(* InputsSize is the value of an additive measure.                         *)
(***************************************************************************)
LEMMA InputsSizeIs ==
  ASSUME NEW inputs, IsFiniteSet(DOMAIN inputs),
         \A n \in DOMAIN inputs : frameSize(inputs[n]) \in Nat,
         NEW M, Additive(M, FrameSizes(inputs), DOMAIN inputs)
  PROVE  InputsSize(inputs) = M[DOMAIN inputs]
<1> DEFINE S == DOMAIN inputs
           h == FrameSizes(inputs)
           F(g) == [s \in SUBSET S |->
                      IF s = {} THEN 0
                      ELSE frameSize(inputs[CHOOSE y \in s : TRUE]) + g[s \ {CHOOSE y \in s : TRUE}]]
           iter == CHOOSE g : g = F(g)
<1>1. InputsSize(inputs) = iter[S]
  BY Zenon DEF InputsSize, MapThenSumSet, MapThenFoldSet
<1>2. h \in [S -> Nat]
  BY DEF FrameSizes
<1>3. ASSUME NEW g PROVE IsSum(g, h, S) <=> g = F(g)
  <2>1. \A s \in SUBSET S : s # {} => (CHOOSE y \in s : TRUE) \in S
    OBVIOUS
  <2>2. \A s \in SUBSET S : s # {} => h[CHOOSE y \in s : TRUE] = frameSize(inputs[CHOOSE y \in s : TRUE])
    BY <2>1 DEF FrameSizes
  <2> QED
    BY <2>2 DEF IsSum, Pick
<1>4. IsSum(M, h, S)
  BY <1>2, AdditiveIsSum
<1>5. M = F(M)
  <2> HIDE DEF F
  <2> QED
    BY <1>3, <1>4
<1>6. iter = F(iter)
  BY <1>5
<1>7. IsSum(iter, h, S)
  BY <1>3, <1>6
<1> HIDE DEF iter
<1>8. iter[S] = M[S]
  BY <1>2, <1>7, SumIsAdditive
<1> QED
  BY <1>1, <1>8

(***************************************************************************)
(* The size of a map of frames grows by the size of a frame that is new.   *)
(***************************************************************************)
LEMMA InputsSizeGrows ==
  ASSUME NEW inputs, IsFiniteSet(DOMAIN inputs),
         \A n \in DOMAIN inputs : frameSize(inputs[n]) \in Nat,
         NEW k, k \notin DOMAIN inputs, NEW f, frameSize(f) \in Nat
  PROVE  /\ InputsSize(inputs) \in Nat
         /\ InputsSize([n \in DOMAIN inputs \cup {k} |-> IF n = k THEN f ELSE inputs[n]])
              = InputsSize(inputs) + frameSize(f)
<1> DEFINE S == DOMAIN inputs
           all == [n \in S \cup {k} |-> IF n = k THEN f ELSE inputs[n]]
<1>1. /\ DOMAIN all = S \cup {k} /\ IsFiniteSet(S \cup {k})
      /\ FrameSizes(all) \in [S \cup {k} -> Nat]
      /\ FrameSizes(all)[k] = frameSize(f)
      /\ \A n \in S : FrameSizes(all)[n] = FrameSizes(inputs)[n]
      /\ \A n \in S \cup {k} : frameSize(all[n]) \in Nat
  BY FS_AddElement DEF FrameSizes
<1> HIDE DEF all
<1>2. PICK M : Additive(M, FrameSizes(all), S \cup {k})
  BY <1>1, AdditiveExists
<1> DEFINE N == [s \in SUBSET S |-> M[s]]
<1>3. Additive(N, FrameSizes(inputs), S)
  <2>1. N \in [SUBSET S -> Nat] /\ N[{}] = 0
    BY <1>2 DEF Additive
  <2>2. ASSUME NEW T \in SUBSET S, NEW x \in S \ T PROVE N[T \cup {x}] = N[T] + FrameSizes(inputs)[x]
    <3>1. T \in SUBSET (S \cup {k}) /\ x \in (S \cup {k}) \ T /\ T \cup {x} \in SUBSET S
      OBVIOUS
    <3>2. M[T \cup {x}] = M[T] + FrameSizes(all)[x]
      BY <1>2, <3>1 DEF Additive
    <3> QED
      BY <1>1, <3>1, <3>2
  <2> HIDE DEF N
  <2> QED
    BY <2>1, <2>2 DEF Additive
<1>4. InputsSize(inputs) = N[S] /\ InputsSize(all) = M[S \cup {k}]
  <2> HIDE DEF N
  <2> QED
    BY <1>1, <1>2, <1>3, InputsSizeIs
<1>5. M[S \cup {k}] = M[S] + frameSize(f)
  BY <1>1, <1>2 DEF Additive
<1>6. N[S] = M[S] /\ M[S] \in Nat
  BY <1>2 DEF Additive
<1> QED
  BY <1>4, <1>5, <1>6 DEF all

(***************************************************************************)
(* A map without frames has size 0.                                        *)
(***************************************************************************)
LEMMA InputsSizeEmpty ==
  ASSUME NEW inputs, DOMAIN inputs = {}
  PROVE  InputsSize(inputs) = 0
<1>1. Additive([s \in SUBSET {} |-> 0], FrameSizes(inputs), {})
  BY DEF Additive
<1>2. IsFiniteSet({})
  BY FS_EmptySet
<1>3. InputsSize(inputs) = [s \in SUBSET {} |-> 0][{}]
  BY <1>1, <1>2, InputsSizeIs
<1> QED
  BY <1>3

(***************************************************************************)
(* The total of a map of channels is a natural number, 0 without channels. *)
(***************************************************************************)
LEMMA TotalSizeIsNat ==
  ASSUME NEW chs, IsFiniteSet(DOMAIN chs), \A id \in DOMAIN chs : chs[id].size \in Nat
  PROVE  TotalSize(chs) \in Nat /\ (DOMAIN chs = {} => TotalSize(chs) = 0)
<1> DEFINE S == DOMAIN chs
           h == [id \in S |-> chs[id].size]
           F(g) == [s \in SUBSET S |->
                      IF s = {} THEN 0
                      ELSE chs[CHOOSE y \in s : TRUE].size + g[s \ {CHOOSE y \in s : TRUE}]]
           iter == CHOOSE g : g = F(g)
<1>1. TotalSize(chs) = iter[S]
  BY Zenon DEF TotalSize, MapThenSumSet, MapThenFoldSet
<1>2. h \in [S -> Nat]
  OBVIOUS
<1>3. ASSUME NEW g PROVE IsSum(g, h, S) <=> g = F(g)
  <2>1. \A s \in SUBSET S : s # {} => (CHOOSE y \in s : TRUE) \in S
    OBVIOUS
  <2>2. \A s \in SUBSET S : s # {} => h[CHOOSE y \in s : TRUE] = chs[CHOOSE y \in s : TRUE].size
    BY <2>1
  <2> QED
    BY <2>2 DEF IsSum, Pick
<1> HIDE DEF h
<1>4. PICK M : Additive(M, h, S)
  BY <1>2, AdditiveExists
<1>5. IsSum(M, h, S)
  BY <1>2, <1>4, AdditiveIsSum
<1>6. M = F(M)
  <2> HIDE DEF F
  <2> QED
    BY <1>3, <1>5
<1>7. iter = F(iter)
  BY <1>6
<1>8. IsSum(iter, h, S)
  BY <1>3, <1>7
<1> HIDE DEF iter
<1>9. iter[S] = M[S]
  BY <1>2, <1>4, <1>8, SumIsAdditive
<1> QED
  BY <1>1, <1>4, <1>9 DEF Additive
-----------------------------------------------------------------------------
(***************************************************************************)
(* What is true of every channel: its type, what ChannelWellFormed says of *)
(* it, and, while it is open, a size that is the memory of its frames.     *)
(* Only then may a frame prune it, which subtracts that memory: afterwards *)
(* the channel is closed and the size is too small, but no longer used.    *)
(***************************************************************************)
WellFormed(ch) ==
  /\ \A n \in DOMAIN ch.inputs : n <= ch.highest
  /\ ch.closed => /\ ch.end \in DOMAIN ch.inputs
                  /\ \A n \in DOMAIN ch.inputs :
                       n <= ch.end /\ (ch.inputs[n].isLast <=> n = ch.end)
  /\ ~ch.closed => \A n \in DOMAIN ch.inputs : ~ch.inputs[n].isLast

SizeExact(ch) == ~ch.closed => ch.size = InputsSize(ch.inputs)

ChannelGood(ch) ==
  ChannelType(ch) /\ IsFiniteSet(DOMAIN ch.inputs) /\ WellFormed(ch) /\ SizeExact(ch)

(***************************************************************************)
(* A new channel is good.                                                  *)
(***************************************************************************)
LEMMA NewChannelGood == ChannelGood(NewChannel)
<1>1. IsFiniteSet(DOMAIN NewChannel.inputs)
  BY FS_EmptySet DEF NewChannel
<1>2. SizeExact(NewChannel)
  BY InputsSizeEmpty DEF SizeExact, NewChannel
<1>3. ChannelType(NewChannel) /\ WellFormed(NewChannel)
  BY ChannelAssumption DEF ChannelType, WellFormed, NewChannel, MaxAge
<1> QED
  BY <1>1, <1>2, <1>3 DEF ChannelGood

(***************************************************************************)
(* A channel stays good as it gets older, and keeps its place by age.      *)
(***************************************************************************)
LEMMA OlderGood ==
  ASSUME NEW ch, ChannelGood(ch)
  PROVE  ChannelGood(Older(ch))
<1>1. /\ DOMAIN ch = {"age", "size", "closed", "end", "highest", "inputs"}
      /\ ch.age \in 0 .. MaxAge /\ MaxAge \in Nat
  BY ChannelAssumption DEF ChannelGood, ChannelType, MaxAge
<1>2. /\ Older(ch).age \in 0 .. MaxAge
      /\ DOMAIN Older(ch) = {"age", "size", "closed", "end", "highest", "inputs"}
      /\ Older(ch).size = ch.size /\ Older(ch).closed = ch.closed /\ Older(ch).end = ch.end
      /\ Older(ch).highest = ch.highest /\ Older(ch).inputs = ch.inputs
  BY <1>1 DEF Older
<1> QED
  BY <1>2 DEF ChannelGood, ChannelType, WellFormed, SizeExact

(***************************************************************************)
(* The older of two channels stays the older.                              *)
(***************************************************************************)
LEMMA OlderMonotone ==
  ASSUME NEW ch, NEW other, ChannelGood(ch), ChannelGood(other), ch.age >= other.age
  PROVE  Older(ch).age >= Older(other).age
<1>1. /\ DOMAIN ch = {"age", "size", "closed", "end", "highest", "inputs"}
      /\ DOMAIN other = {"age", "size", "closed", "end", "highest", "inputs"}
      /\ ch.age \in 0 .. MaxAge /\ other.age \in 0 .. MaxAge /\ MaxAge \in Nat
  BY ChannelAssumption DEF ChannelGood, ChannelType, MaxAge
<1>2. /\ Older(ch).age = IF ch.age < MaxAge THEN ch.age + 1 ELSE ch.age
      /\ Older(other).age = IF other.age < MaxAge THEN other.age + 1 ELSE other.age
  BY <1>1 DEF Older
<1> QED
  BY <1>1, <1>2

(***************************************************************************)
(* A channel stays good with a frame that it does not refuse.  In          *)
(* particular the unsigned size does not wrap when the frame prunes.       *)
(***************************************************************************)
LEMMA AddFrameGood ==
  ASSUME NEW ch, ChannelGood(ch), NEW f \in Frames, ~AddFrameFails(ch, f)
  PROVE  ChannelGood(AddFrame(ch, f)) /\ AddFrame(ch, f).age = ch.age
<1> DEFINE new == AddFrame(ch, f)
           kept == {n \in DOMAIN ch.inputs : Prunes(ch, f) => n < f.number}
<1>1. /\ DOMAIN new = {"age", "size", "closed", "end", "highest", "inputs"}
      /\ new.age = ch.age /\ new.closed = (ch.closed \/ f.isLast)
      /\ new.size = (ch.size - Subtracted(ch, f)) + frameSize(f)
      /\ new.end = IF f.isLast THEN f.number ELSE ch.end
      /\ new.highest = IF Prunes(ch, f) \/ f.number > ch.highest THEN f.number ELSE ch.highest
      /\ new.inputs = [n \in kept \cup {f.number} |-> IF n = f.number THEN f ELSE ch.inputs[n]]
  BY DEF AddFrame
<1>2. /\ f.number \in Nat /\ f.isLast \in BOOLEAN /\ frameSize(f) \in Nat
      /\ \A n \in DOMAIN ch.inputs : /\ n \in Nat /\ ch.inputs[n] \in Frames
                                     /\ frameSize(ch.inputs[n]) \in Nat
  BY ChannelAssumption DEF ChannelGood, ChannelType, frameSize
<1>3. /\ ~(f.isLast /\ ch.closed) /\ f.number \notin DOMAIN ch.inputs
      /\ ~(ch.closed /\ f.number >= ch.end)
  BY DEF AddFrameFails
<1>4. /\ ch.age \in 0 .. MaxAge /\ ch.size \in Nat /\ ch.closed \in BOOLEAN /\ ch.end \in Nat
      /\ ch.highest \in Nat /\ \A n \in DOMAIN ch.inputs : ch.inputs[n].number = n
  BY DEF ChannelGood, ChannelType
<1> HIDE DEF new
<1>5. DOMAIN new.inputs = kept \cup {f.number} /\ IsFiniteSet(DOMAIN new.inputs)
  <2>1. IsFiniteSet(kept)
    BY FS_Subset DEF ChannelGood
  <2> QED
    BY <1>1, <2>1, FS_AddElement
<1>6. InputsSize(ch.inputs) \in Nat
  BY <1>2, <1>3, InputsSizeGrows DEF ChannelGood
<1>7. new.size \in Nat
  <2>1. CASE Prunes(ch, f)
    <3>1. Subtracted(ch, f) = ch.size
      BY <1>3, <1>4, <2>1 DEF Subtracted, Prunes, ChannelGood, SizeExact
    <3> QED
      BY <1>1, <1>2, <1>4, <3>1
  <2>2. CASE ~Prunes(ch, f)
    BY <1>1, <1>2, <1>4, <2>2 DEF Subtracted
  <2> QED
    BY <2>1, <2>2
<1>8. SizeExact(new)
  <2> SUFFICES ASSUME ~new.closed PROVE new.size = InputsSize(new.inputs)
    BY DEF SizeExact
  <2>1. ~ch.closed /\ ~f.isLast
    BY <1>1
  <2>2. Subtracted(ch, f) = 0 /\ kept = DOMAIN ch.inputs
    BY <2>1 DEF Subtracted, Prunes
  <2>3. InputsSize(new.inputs) = InputsSize(ch.inputs) + frameSize(f)
    BY <1>1, <1>2, <1>3, <2>2, InputsSizeGrows DEF ChannelGood
  <2> QED
    BY <1>1, <1>2, <1>4, <2>1, <2>2, <2>3 DEF ChannelGood, SizeExact
<1>9. \A n \in DOMAIN new.inputs :
        \/ n = f.number /\ new.inputs[n] = f
        \/ /\ n \in DOMAIN ch.inputs /\ n # f.number /\ new.inputs[n] = ch.inputs[n]
           /\ Prunes(ch, f) => n < f.number
  BY <1>1, <1>3, <1>5
<1>10. ChannelType(new)
  <2>1. \A n \in DOMAIN new.inputs : new.inputs[n] \in Frames /\ new.inputs[n].number = n
    BY <1>2, <1>4, <1>9
  <2>2. new.end \in Nat /\ new.highest \in Nat /\ new.closed \in BOOLEAN
    BY <1>1, <1>2, <1>4
  <2> QED
    BY <1>1, <1>4, <1>7, <2>1, <2>2 DEF ChannelType
<1>11. WellFormed(new)
  <2>1. \A n \in DOMAIN new.inputs : n <= new.highest
    BY <1>1, <1>2, <1>4, <1>9 DEF ChannelGood, WellFormed, Prunes
  <2>2. ASSUME new.closed
        PROVE  /\ new.end \in DOMAIN new.inputs
               /\ \A n \in DOMAIN new.inputs :
                    n <= new.end /\ (new.inputs[n].isLast <=> n = new.end)
    <3>1. CASE f.isLast
      <4>1. ~ch.closed /\ new.end = f.number
        BY <1>1, <1>3, <3>1
      <4>2. \A n \in DOMAIN ch.inputs : n <= ch.highest /\ ~ch.inputs[n].isLast
        BY <4>1 DEF ChannelGood, WellFormed
      <4> QED
        BY <1>2, <1>4, <1>5, <1>9, <3>1, <4>1, <4>2 DEF Prunes
    <3>2. CASE ~f.isLast
      <4>1. ch.closed /\ new.end = ch.end /\ f.number < ch.end /\ ~Prunes(ch, f)
        BY <1>1, <1>2, <1>3, <1>4, <2>2, <3>2 DEF Prunes
      <4>2. /\ ch.end \in DOMAIN ch.inputs
            /\ \A n \in DOMAIN ch.inputs : n <= ch.end /\ (ch.inputs[n].isLast <=> n = ch.end)
        BY <4>1 DEF ChannelGood, WellFormed
      <4> QED
        BY <1>2, <1>4, <1>5, <1>9, <3>2, <4>1, <4>2
    <3> QED
      BY <3>1, <3>2
  <2>3. ASSUME ~new.closed PROVE \A n \in DOMAIN new.inputs : ~new.inputs[n].isLast
    <3>1. ~ch.closed /\ ~f.isLast
      BY <1>1, <2>3
    <3> QED
      BY <1>9, <3>1 DEF ChannelGood, WellFormed
  <2> QED
    BY <2>1, <2>2, <2>3 DEF WellFormed
<1> QED
  BY <1>1, <1>5, <1>8, <1>10, <1>11 DEF ChannelGood, new

-----------------------------------------------------------------------------
(***************************************************************************)
(* What is true of a map of channels and a queue of IDs together.          *)
(***************************************************************************)
BankGood(chs, queue) ==
  /\ queue \in Seq(ChannelIDs)
  /\ DOMAIN chs = {queue[i] : i \in 1 .. Len(queue)} /\ IsFiniteSet(DOMAIN chs)
  /\ \A id \in DOMAIN chs : ChannelGood(chs[id])
  /\ \A i, j \in 1 .. Len(queue) :
       i < j => queue[i] # queue[j] /\ chs[queue[i]].age >= chs[queue[j]].age

(***************************************************************************)
(* The inductive invariant of the bank.                                    *)
(***************************************************************************)
BankInv == BankGood(channels, channelQueue)

(***************************************************************************)
(* What the invariant of the bank implies.                                 *)
(***************************************************************************)
LEMMA BankInvImplies == BankInv => BankTypeOK /\ QueueMatchesMap /\ ChannelWellFormed
<1> SUFFICES ASSUME BankInv PROVE BankTypeOK /\ QueueMatchesMap /\ ChannelWellFormed
  OBVIOUS
<1>1. DOMAIN channelQueue = 1 .. Len(channelQueue)
  BY DEF BankInv, BankGood
<1>2. BankTypeOK
  BY <1>1 DEF BankInv, BankGood, BankTypeOK, ChannelGood
<1>3. QueueMatchesMap
  BY <1>1 DEF BankInv, BankGood, QueueMatchesMap
<1>4. ChannelWellFormed
  BY DEF BankInv, BankGood, ChannelWellFormed, ChannelGood, WellFormed
<1> QED
  BY <1>2, <1>3, <1>4

(***************************************************************************)
(* The empty bank, at the start and after a reset.                         *)
(***************************************************************************)
LEMMA BankGoodEmpty == BankGood(NoChannels, << >>)
  BY FS_EmptySet DEF BankGood, NoChannels

(***************************************************************************)
(* Removing the first n channels of the queue keeps the bank good.         *)
(***************************************************************************)
LEMMA BankGoodWithout ==
  ASSUME NEW chs, NEW queue, BankGood(chs, queue), NEW n \in 0 .. Len(queue)
  PROVE  BankGood(Without(chs, PrunedIDs(queue, n)), SubSeq(queue, n + 1, Len(queue)))
<1> DEFINE left == SubSeq(queue, n + 1, Len(queue))
           rest == Without(chs, PrunedIDs(queue, n))
<1>1. queue \in Seq(ChannelIDs) /\ Len(queue) \in Nat
  BY DEF BankGood
<1>2. /\ left \in Seq(ChannelIDs) /\ Len(left) = Len(queue) - n
      /\ \A i \in 1 .. Len(left) : left[i] = queue[i + n] /\ i + n \in 1 .. Len(queue)
  BY <1>1
<1>3. DOMAIN rest = DOMAIN chs \ PrunedIDs(queue, n) /\ \A id \in DOMAIN rest : rest[id] = chs[id]
  BY DEF Without
<1> HIDE DEF left, rest
<1>4. DOMAIN rest = {left[i] : i \in 1 .. Len(left)}
  <2>1. ASSUME NEW id \in DOMAIN rest PROVE id \in {left[i] : i \in 1 .. Len(left)}
    <3>1. PICK j \in 1 .. Len(queue) : queue[j] = id
      BY <1>3 DEF BankGood
    <3>2. j > n
      BY <1>1, <1>3, <3>1 DEF PrunedIDs
    <3>3. j - n \in 1 .. Len(left) /\ left[j - n] = id
      BY <1>1, <1>2, <3>1, <3>2
    <3> QED
      BY <3>3
  <2>2. ASSUME NEW i \in 1 .. Len(left) PROVE left[i] \in DOMAIN rest
    <3>1. left[i] = queue[i + n] /\ i + n \in 1 .. Len(queue)
      BY <1>2
    <3>2. ASSUME NEW j \in 1 .. n PROVE queue[j] # queue[i + n]
      <4>1. j \in 1 .. Len(queue) /\ j < i + n
        BY <1>1, <1>2
      <4> QED
        BY <3>1, <4>1 DEF BankGood
    <3> QED
      BY <1>3, <3>1, <3>2 DEF BankGood, PrunedIDs
  <2> QED
    BY <2>1, <2>2
<1>5. IsFiniteSet(DOMAIN rest)
  BY <1>3, FS_Subset DEF BankGood
<1>6. \A id \in DOMAIN rest : ChannelGood(rest[id])
  BY <1>3 DEF BankGood
<1>7. ASSUME NEW i \in 1 .. Len(left), NEW j \in 1 .. Len(left), i < j
      PROVE  left[i] # left[j] /\ rest[left[i]].age >= rest[left[j]].age
  <2>1. i + n \in 1 .. Len(queue) /\ j + n \in 1 .. Len(queue) /\ i + n < j + n
    BY <1>2, <1>7
  <2>2. rest[left[i]] = chs[queue[i + n]] /\ rest[left[j]] = chs[queue[j + n]]
    BY <1>2, <1>3, <1>4
  <2> QED
    BY <1>2, <2>1, <2>2 DEF BankGood
<1>8. BankGood(rest, left)
  BY <1>2, <1>4, <1>5, <1>6, <1>7 DEF BankGood
<1> QED
  BY <1>8 DEF left, rest

(***************************************************************************)
(* prune stops: a number of channels as PruneCount describes it exists.    *)
(***************************************************************************)
LEMMA PruneCountExists ==
  ASSUME NEW chs, NEW queue, BankGood(chs, queue)
  PROVE  PruneCount(chs, queue) \in 0 .. Len(queue)
<1> DEFINE T(n) == TotalSize(Without(chs, PrunedIDs(queue, n)))
           C == {n \in 0 .. Len(queue) : T(n) <= MaxChannelBankSize}
<1>1. Len(queue) \in Nat /\ MaxChannelBankSize \in Nat
  BY ChannelBankAssumption DEF BankGood
<1>2. \A n \in 0 .. Len(queue) : T(n) \in Nat /\ (n = Len(queue) => T(n) = 0)
  <2> SUFFICES ASSUME NEW n \in 0 .. Len(queue) PROVE T(n) \in Nat /\ (n = Len(queue) => T(n) = 0)
    OBVIOUS
  <2> DEFINE rest == Without(chs, PrunedIDs(queue, n))
  <2>1. DOMAIN rest = DOMAIN chs \ PrunedIDs(queue, n) /\ \A id \in DOMAIN rest : rest[id] = chs[id]
    BY DEF Without
  <2>2. n = Len(queue) => DOMAIN rest = {}
    BY <2>1 DEF BankGood, PrunedIDs
  <2> HIDE DEF rest
  <2>3. IsFiniteSet(DOMAIN rest) /\ \A id \in DOMAIN rest : rest[id].size \in Nat
    BY <2>1, FS_Subset DEF BankGood, ChannelGood, ChannelType
  <2>4. TotalSize(rest) \in Nat /\ (DOMAIN rest = {} => TotalSize(rest) = 0)
    BY <2>3, TotalSizeIsNat
  <2> QED
    BY <2>2, <2>4 DEF rest
<1> HIDE DEF T
<1>3. C \subseteq Nat /\ C # {}
  BY <1>1, <1>2
<1>4. PICK n \in C : \A m \in C : ~(<<m, n>> \in OpToRel(<, Nat))
  <2> HIDE DEF C
  <2> QED
    BY <1>3, NatLessThanWellFounded, WFMin
<1>5. \A m \in C : ~(m < n)
  BY <1>3, <1>4, Zenon DEF OpToRel
<1>6. n \in 0 .. Len(queue) /\ T(n) <= MaxChannelBankSize
  OBVIOUS
<1>7. \A m \in 0 .. n - 1 : T(m) > MaxChannelBankSize
  BY <1>1, <1>2, <1>5, <1>6
<1> QED
  BY <1>6, <1>7 DEF PruneCount, T
(***************************************************************************)
(* IngestFrame keeps the bank good: opening, adding, pruning.              *)
(***************************************************************************)
LEMMA OpenedGood ==
  ASSUME BankInv, NEW f \in Frames
  PROVE  BankGood(Opened(f), OpenedQueue(f)) /\ f.id \in DOMAIN Opened(f)
<1> DEFINE chs == Opened(f)
           queue == OpenedQueue(f)
<1>1. CASE f.id \in DOMAIN channels
  BY <1>1 DEF Opened, OpenedQueue, BankInv
<1>2. CASE f.id \notin DOMAIN channels
  <2>1. /\ DOMAIN chs = DOMAIN channels \cup {f.id} /\ chs[f.id] = NewChannel
        /\ \A id \in DOMAIN channels : chs[id] = channels[id]
    BY <1>2 DEF Opened
  <2>2. /\ f.id \in ChannelIDs /\ channelQueue \in Seq(ChannelIDs)
        /\ queue = Append(channelQueue, f.id)
    BY <1>2, ChannelBankAssumption DEF OpenedQueue, BankInv, BankGood
  <2> HIDE DEF chs, queue
  <2>3. /\ queue \in Seq(ChannelIDs) /\ Len(queue) = Len(channelQueue) + 1 /\ Len(channelQueue) \in Nat
        /\ queue[Len(queue)] = f.id
        /\ \A i \in 1 .. Len(channelQueue) : queue[i] = channelQueue[i]
    BY <2>2
  <2>4. \A i \in 1 .. Len(channelQueue) : channelQueue[i] \in DOMAIN channels
    BY DEF BankInv, BankGood
  <2>5. DOMAIN chs = {queue[i] : i \in 1 .. Len(queue)}
    <3>1. DOMAIN channels = {channelQueue[i] : i \in 1 .. Len(channelQueue)}
      BY DEF BankInv, BankGood
    <3>2. \A i \in 1 .. Len(queue) : i \in 1 .. Len(channelQueue) \/ i = Len(queue)
      BY <2>3
    <3>3. Len(queue) \in 1 .. Len(queue) /\ \A i \in 1 .. Len(channelQueue) : i \in 1 .. Len(queue)
      BY <2>3
    <3> QED
      BY <2>1, <2>3, <3>1, <3>2, <3>3
  <2>6. IsFiniteSet(DOMAIN chs)
    BY <2>1, FS_AddElement DEF BankInv, BankGood
  <2>7. \A id \in DOMAIN chs : ChannelGood(chs[id])
    BY <2>1, NewChannelGood DEF BankInv, BankGood
  <2>8. ASSUME NEW i \in 1 .. Len(queue), NEW j \in 1 .. Len(queue), i < j
        PROVE  queue[i] # queue[j] /\ chs[queue[i]].age >= chs[queue[j]].age
    <3>1. i \in 1 .. Len(channelQueue) /\ queue[i] = channelQueue[i]
      BY <2>3, <2>8
    <3>2. CASE j = Len(queue)
      <4>1. chs[queue[j]].age = 0 /\ queue[j] = f.id
        BY <2>1, <2>3, <3>2 DEF NewChannel
      <4>2. chs[queue[i]].age \in Nat
        BY <2>1, <2>4, <2>7, <3>1, ChannelAssumption DEF ChannelGood, ChannelType, MaxAge
      <4> QED
        BY <1>2, <2>4, <3>1, <4>1, <4>2
    <3>3. CASE j # Len(queue)
      <4>1. j \in 1 .. Len(channelQueue) /\ queue[j] = channelQueue[j]
        BY <2>3, <3>3
      <4> QED
        BY <2>1, <2>4, <2>8, <3>1, <4>1 DEF BankInv, BankGood
    <3> QED
      BY <3>2, <3>3
  <2>9. BankGood(chs, queue)
    BY <2>3, <2>5, <2>6, <2>7, <2>8 DEF BankGood
  <2> QED
    BY <2>1, <2>9 DEF chs, queue
<1> QED
  BY <1>1, <1>2

(***************************************************************************)
(* IngestFrame keeps the invariant.                                        *)
(***************************************************************************)
LEMMA IngestFrameStep ==
  ASSUME BankInv, NEW f \in Frames, IngestFrame(f)
  PROVE  BankInv'
<1>1. CASE Ignored(f)
  BY <1>1, OpenedGood DEF IngestFrame, BankInv
<1>2. CASE ~Ignored(f)
  <2> DEFINE old == Opened(f)
             queue == OpenedQueue(f)
             chs == [old EXCEPT ![f.id] = AddFrame(old[f.id], f)]
             n == PruneCount(chs, queue)
  <2>1. /\ channels' = Without(chs, PrunedIDs(queue, n))
        /\ channelQueue' = SubSeq(queue, n + 1, Len(queue))
    BY <1>2 DEF IngestFrame
  <2>2. BankGood(old, queue) /\ f.id \in DOMAIN old
    BY OpenedGood
  <2>3. ~AddFrameFails(old[f.id], f)
    BY <1>2 DEF Ignored
  <2> HIDE DEF old, queue
  <2>4. ChannelGood(AddFrame(old[f.id], f)) /\ AddFrame(old[f.id], f).age = old[f.id].age
    BY <2>2, <2>3, AddFrameGood DEF BankGood
  <2>5. /\ DOMAIN chs = DOMAIN old
        /\ \A id \in DOMAIN old : ChannelGood(chs[id]) /\ chs[id].age = old[id].age
    BY <2>2, <2>4 DEF BankGood
  <2>6. \A i \in 1 .. Len(queue) : queue[i] \in DOMAIN old
    BY <2>2 DEF BankGood
  <2> HIDE DEF chs
  <2>7. BankGood(chs, queue)
    BY <2>2, <2>5, <2>6 DEF BankGood
  <2>8. n \in 0 .. Len(queue)
    BY <2>7, PruneCountExists
  <2> HIDE DEF n
  <2> QED
    BY <2>1, <2>7, <2>8, BankGoodWithout DEF BankInv
<1> QED
  BY <1>1, <1>2

(***************************************************************************)
(* Removing the head channel is removing the first one of the queue.       *)
(***************************************************************************)
LEMMA RemoveFirstStep ==
  ASSUME BankInv, channelQueue # << >>, RemoveFirst
  PROVE  BankInv'
<1>1. channelQueue \in Seq(ChannelIDs) /\ 1 \in 0 .. Len(channelQueue)
  BY DEF BankInv, BankGood
<1>2. /\ Head(channelQueue) = channelQueue[1]
      /\ Tail(channelQueue) = SubSeq(channelQueue, 1 + 1, Len(channelQueue))
  BY <1>1
<1>3. PrunedIDs(channelQueue, 1) = {Head(channelQueue)}
  BY <1>2 DEF PrunedIDs
<1> QED
  BY <1>1, <1>2, <1>3, BankGoodWithout DEF BankInv, RemoveFirst

(***************************************************************************)
(* All channels get older together.                                        *)
(***************************************************************************)
LEMMA AgeStep ==
  ASSUME BankInv, Age
  PROVE  BankInv'
<1>1. /\ channelQueue' = channelQueue /\ DOMAIN channels' = DOMAIN channels
      /\ \A id \in DOMAIN channels : channels'[id] = Older(channels[id])
  BY DEF Age
<1>2. \A id \in DOMAIN channels : ChannelGood(channels[id])
  BY DEF BankInv, BankGood
<1>3. \A id \in DOMAIN channels : ChannelGood(channels'[id])
  BY <1>1, <1>2, OlderGood
<1>4. ASSUME NEW i \in 1 .. Len(channelQueue), NEW j \in 1 .. Len(channelQueue), i < j
      PROVE  /\ channelQueue[i] # channelQueue[j]
             /\ channels'[channelQueue[i]].age >= channels'[channelQueue[j]].age
  <2>1. /\ channelQueue[i] \in DOMAIN channels /\ channelQueue[j] \in DOMAIN channels
        /\ channelQueue[i] # channelQueue[j]
        /\ channels[channelQueue[i]].age >= channels[channelQueue[j]].age
    BY <1>4 DEF BankInv, BankGood
  <2> QED
    BY <1>1, <1>2, <2>1, OlderMonotone
<1> QED
  BY <1>1, <1>3, <1>4 DEF BankInv, BankGood

(***************************************************************************)
(* Every step of the bank keeps the invariant.                             *)
(***************************************************************************)
LEMMA BankInvInductive == BankInv /\ [BankNext]_bankVars => BankInv'
<1> SUFFICES ASSUME BankInv, [BankNext]_bankVars PROVE BankInv'
  OBVIOUS
<1>1. CASE ReadTimedOut
  BY <1>1, RemoveFirstStep DEF ReadTimedOut
<1>2. CASE ReadReady
  BY <1>2, RemoveFirstStep DEF ReadReady
<1>3. ASSUME NEW f \in Frames, IngestFrame(f) PROVE BankInv'
  BY <1>3, IngestFrameStep
<1>4. CASE Age
  BY <1>4, AgeStep
<1>5. CASE BankReset
  BY <1>5, BankGoodEmpty DEF BankReset, BankInv
<1>6. CASE UNCHANGED bankVars
  BY <1>6 DEF bankVars, BankInv
<1> QED
  BY <1>1, <1>2, <1>3, <1>4, <1>5, <1>6 DEF BankNext, NextData

(***************************************************************************)
(* The invariant holds of the bank.                                        *)
(***************************************************************************)
LEMMA BankInvHolds == BankSpec => []BankInv
<1>1. BankInit => BankInv
  BY BankGoodEmpty DEF BankInit, BankInv
<1> QED
  BY <1>1, BankInvInductive, PTL DEF BankSpec

(***************************************************************************)
(* The bank alone, whatever the order of frames: the types, and the size   *)
(* of a channel, an unsigned integer in the code, never wraps; the map and *)
(* the queue agree (QueueMatchesMap); channels are well formed             *)
(* (ChannelWellFormed).                                                    *)
(***************************************************************************)
THEOREM BankCorrect == BankSpec => [](BankTypeOK /\ QueueMatchesMap /\ ChannelWellFormed)
  BY BankInvHolds, BankInvImplies, PTL

-----------------------------------------------------------------------------
(***************************************************************************)
(* The fields of the other stages.                                         *)
(***************************************************************************)
FieldTypes ==
  /\ block \in Blocks
  /\ done \in BOOLEAN /\ opened \in BOOLEAN /\ isBase \in BOOLEAN
  /\ datas \in Seq(Seq(Frames)) /\ frames \in Seq(Frames)
  /\ reader \in {NoReader} \cup 0 .. MaxBatches - 1

(***************************************************************************)
(* How often the origin was read out, by the state of the two stages: the  *)
(* base of a reset starts with an iterator that the traversal knows        *)
(* nothing of, every other block with one that the traversal hands out.    *)
(***************************************************************************)
PassesCounted ==
  passes = IF isBase THEN (IF done THEN 1 ELSE 0) + (IF opened THEN 0 ELSE 1)
                     ELSE IF HasIterator THEN 0 ELSE 1

OpenedIsDone == ~isBase /\ opened => done

StagesInv == FieldTypes /\ PassesCounted /\ OpenedIsDone

(***************************************************************************)
(* A transaction is taken off what the iterator has left.                  *)
(***************************************************************************)
LEMMA IteratorTypes ==
  ASSUME FieldTypes
  PROVE  /\ Iterator \in Seq(Seq(Frames))
         /\ Iterator # << >> => Tail(Iterator) \in Seq(Seq(Frames)) /\ Head(Iterator) \in Seq(Frames)
<1>1. Iterator \in Seq(Seq(Frames))
  BY DataStagesAssumption DEF FieldTypes, Iterator
<1> HIDE DEF Iterator
<1> QED
  BY <1>1

(***************************************************************************)
(* A frame is taken off the queue of frames.                               *)
(***************************************************************************)
LEMMA FramesTaken ==
  ASSUME NEW s \in Seq(Frames), s # << >>
  PROVE  Head(s) \in Frames /\ Tail(s) \in Seq(Frames)
  OBVIOUS

(***************************************************************************)
(* Every step of the stages is a step of the bank or leaves it alone.      *)
(***************************************************************************)
LEMMA StageIsBankStep ==
  ASSUME FieldTypes, [StagesNext]_stageVars
  PROVE  [BankNext]_bankVars
<1>1. CASE DecodeBatch
  BY <1>1 DEF DecodeBatch, bankVars
<1>2. CASE SkipTimedOutChannel
  BY <1>2 DEF SkipTimedOutChannel, BankNext, NextData
<1>3. CASE OpenChannel
  BY <1>3 DEF OpenChannel, BankNext, NextData
<1>4. CASE IngestQueued
  <2>1. Head(frames) \in Frames
    BY <1>4, FramesTaken DEF IngestQueued, FieldTypes
  <2> QED
    BY <1>4, <2>1 DEF IngestQueued, WantsFrame, BankNext, NextData
<1>5. CASE PullTransaction
  <2>1. CASE Head(Iterator) = << >>
    BY <1>5, <2>1 DEF PullTransaction, bankVars
  <2>2. CASE Head(Iterator) # << >>
    <3>1. Head(Head(Iterator)) \in Frames
      BY <1>5, <2>2, IteratorTypes, FramesTaken DEF PullTransaction
    <3> QED
      BY <1>5, <2>2, <3>1 DEF PullTransaction, WantsData, WantsFrame, BankNext, NextData
  <2> QED
    BY <2>1, <2>2
<1>6. CASE FetchFails
  BY <1>6 DEF FetchFails, bankVars
<1>7. CASE WaitForL1
  BY <1>7 DEF WaitForL1, bankVars
<1>8. CASE AdvanceL1Block
  BY <1>8 DEF AdvanceL1Block, StagesEOF, WantsData, WantsFrame, BankNext
<1>9. CASE StagesReset
  BY <1>9 DEF StagesReset, BankNext
<1>10. CASE UNCHANGED stageVars
  BY <1>10 DEF stageVars, bankVars
<1> QED
  BY <1>1, <1>2, <1>3, <1>4, <1>5, <1>6, <1>7, <1>8, <1>9, <1>10 DEF StagesNext

(***************************************************************************)
(* Every step keeps the types of the fields.                               *)
(***************************************************************************)
LEMMA FieldTypesStep ==
  ASSUME FieldTypes, [StagesNext]_stageVars
  PROVE  FieldTypes'
<1> USE DEF l1Vars
<1>0. << >> \in Seq(Frames) /\ << >> \in Seq(Seq(Frames))
  OBVIOUS
<1>1. CASE DecodeBatch
  <2>1. /\ reader' = NoReader \/ (reader' \in Nat /\ reader' = reader - 1)
        /\ reader # NoReader /\ reader \in {NoReader} \cup 0 .. MaxBatches - 1
    BY <1>1 DEF DecodeBatch, FieldTypes
  <2>2. reader' \in {NoReader} \cup 0 .. MaxBatches - 1
    BY <2>1, DataStagesAssumption DEF NoReader
  <2> QED
    BY <1>1, <2>2 DEF DecodeBatch, FieldTypes
<1>2. CASE SkipTimedOutChannel
  BY <1>2 DEF SkipTimedOutChannel, FieldTypes
<1>3. CASE OpenChannel
  BY <1>3 DEF OpenChannel, FieldTypes
<1>4. CASE IngestQueued
  BY <1>4, FramesTaken DEF IngestQueued, FieldTypes
<1>5. CASE PullTransaction
  <2>1. /\ done' \in BOOLEAN /\ opened' \in BOOLEAN /\ datas' \in Seq(Seq(Frames))
    BY <1>5, IteratorTypes DEF PullTransaction, OpenIterator, FieldTypes
  <2>2. frames' \in Seq(Frames)
    BY <1>5, IteratorTypes, FramesTaken DEF PullTransaction, FieldTypes
  <2> QED
    BY <1>5, <2>1, <2>2 DEF PullTransaction, FieldTypes
<1>6. CASE FetchFails
  BY <1>6, IteratorTypes DEF FetchFails, OpenIterator, FieldTypes
<1>7. CASE WaitForL1
  BY <1>0, <1>7 DEF WaitForL1, OpenIterator, FieldTypes
<1>8. CASE AdvanceL1Block
  BY <1>0, <1>8 DEF AdvanceL1Block, FieldTypes
<1>9. CASE StagesReset
  BY <1>0, <1>9, DataStagesAssumption DEF StagesReset, FieldTypes
<1>10. CASE UNCHANGED stageVars
  BY <1>10 DEF stageVars, FieldTypes
<1> QED
  BY <1>1, <1>2, <1>3, <1>4, <1>5, <1>6, <1>7, <1>8, <1>9, <1>10 DEF StagesNext

(***************************************************************************)
(* Every step keeps the count of the passes.                               *)
(***************************************************************************)
LEMMA PassesStep ==
  ASSUME StagesInv, [StagesNext]_stageVars
  PROVE  PassesCounted' /\ OpenedIsDone'
<1>1. /\ done \in BOOLEAN /\ opened \in BOOLEAN /\ isBase \in BOOLEAN
      /\ PassesCounted /\ OpenedIsDone
  BY DEF StagesInv, FieldTypes
<1> USE DEF PassesCounted, OpenedIsDone, HasIterator, OpenIterator
<1>2. CASE UNCHANGED <<done, opened, isBase, passes>>
  BY <1>1, <1>2
<1>3. CASE PullTransaction \/ FetchFails
  <2>1. /\ opened' = TRUE /\ done' = (done \/ ~opened) /\ (opened \/ ~done)
        /\ isBase' = isBase /\ passes' = passes
    BY <1>3 DEF PullTransaction, FetchFails
  <2>2. CASE opened
    <3>1. done' = done
      BY <1>1, <2>1, <2>2
    <3> QED
      BY <1>1, <2>1, <2>2, <3>1
  <2>3. CASE ~opened
    <3>1. done' = TRUE /\ done = FALSE
      BY <1>1, <2>1, <2>3
    <3> QED
      BY <1>1, <2>1, <2>3, <3>1
  <2> QED
    BY <2>2, <2>3
<1>4. CASE WaitForL1
  <2>1. /\ opened' = FALSE /\ done' = (done \/ ~opened) /\ isBase' = isBase
        /\ passes' = passes + (IF opened \/ ~done THEN 1 ELSE 0)
    BY <1>4 DEF WaitForL1
  <2>2. CASE opened
    <3>1. done' = done /\ passes' = passes + 1
      BY <1>1, <2>1, <2>2
    <3> QED
      BY <1>1, <2>1, <2>2, <3>1
  <2>3. CASE ~opened
    <3>1. done' = TRUE /\ passes' = passes + (IF done THEN 0 ELSE 1)
      BY <1>1, <2>1, <2>3
    <3> QED
      BY <1>1, <2>1, <2>3, <3>1
  <2> QED
    BY <2>2, <2>3
<1>5. CASE AdvanceL1Block
  BY <1>5 DEF AdvanceL1Block
<1>6. CASE StagesReset
  BY <1>6 DEF StagesReset
<1> QED
  BY <1>2, <1>3, <1>4, <1>5, <1>6
  DEF StagesNext, stageVars, l1Vars, DecodeBatch, SkipTimedOutChannel, OpenChannel, IngestQueued

(***************************************************************************)
(* The invariants hold of the composed stages.                             *)
(***************************************************************************)
LEMMA StagesInvHolds == StagesSpec => [](StagesInv /\ BankInv)
<1>1. StagesInit => StagesInv /\ BankInv
  <2> SUFFICES ASSUME StagesInit PROVE StagesInv /\ BankInv
    OBVIOUS
  <2>1. FieldTypes
    <3>1. << >> \in Seq(Frames)
      OBVIOUS
    <3> QED
      BY <3>1, DataStagesAssumption DEF StagesInit, FieldTypes
  <2>2. PassesCounted /\ OpenedIsDone
    BY DEF StagesInit, PassesCounted, OpenedIsDone
  <2>3. BankInv
    BY BankGoodEmpty DEF StagesInit, BankInit, BankInv
  <2> QED
    BY <2>1, <2>2, <2>3 DEF StagesInv
<1>2. StagesInv /\ BankInv /\ [StagesNext]_stageVars => (StagesInv /\ BankInv)'
  <2> SUFFICES ASSUME StagesInv, BankInv, [StagesNext]_stageVars PROVE StagesInv' /\ BankInv'
    OBVIOUS
  <2>1. FieldTypes /\ [BankNext]_bankVars
    BY StageIsBankStep DEF StagesInv
  <2> QED
    BY <2>1, FieldTypesStep, PassesStep, BankInvInductive DEF StagesInv
<1> QED
  BY <1>1, <1>2, PTL DEF StagesSpec

(***************************************************************************)
(* Type correctness of the data stages (StagesTypeOK).  In particular the  *)
(* size of a channel, an unsigned integer in the code, never wraps,        *)
(* although pruning subtracts more than it prunes.                         *)
(***************************************************************************)
THEOREM StagesTypeCorrect == StagesSpec => []StagesTypeOK
<1>1. StagesInv /\ BankInv => StagesTypeOK
  BY BankInvImplies DEF StagesInv, FieldTypes, PassesCounted, StagesTypeOK
<1> QED
  BY <1>1, StagesInvHolds, PTL

(***************************************************************************)
(* In the pipeline, too, the queue of the bank holds every channel once,   *)
(* by age, so that prune and Read find their head (QueueMatchesMap).       *)
(***************************************************************************)
THEOREM StagesQueueMatchesMap == StagesSpec => []QueueMatchesMap
  BY StagesInvHolds, BankInvImplies, PTL

(***************************************************************************)
(* IsReady can be trusted: a closed channel holds its last frame and       *)
(* nothing beyond it, whatever the order of frames (ChannelWellFormed).    *)
(***************************************************************************)
THEOREM StagesChannelWellFormed == StagesSpec => []ChannelWellFormed
  BY StagesInvHolds, BankInvImplies, PTL

(***************************************************************************)
(* The data of an L1 block is read out once, that of the base of a reset   *)
(* at most twice (ReadOnce).                                               *)
(***************************************************************************)
THEOREM StagesReadOnce == StagesSpec => []ReadOnce
<1>1. StagesInv => ReadOnce
  BY DEF StagesInv, FieldTypes, PassesCounted, ReadOnce
<1> QED
  BY <1>1, StagesInvHolds, PTL

(***************************************************************************)
(* The stages implement the channel bank: composed with the stages that    *)
(* feed and drain it, it does nothing that the bank alone would not do.    *)
(***************************************************************************)
THEOREM StagesImplementBank == StagesSpec => BankSpec
<1>1. StagesInit => BankInit
  BY DEF StagesInit
<1>2. StagesInv /\ [StagesNext]_stageVars => [BankNext]_bankVars
  BY StageIsBankStep DEF StagesInv
<1> QED
  BY <1>1, <1>2, StagesInvHolds, PTL DEF StagesSpec, BankSpec
=============================================================================
