---------------------------- MODULE EngineQueue ----------------------------
(***************************************************************************)
(* The last stage of the derivation pipeline: the engine queue             *)
(* (op-node/rollup/derive/engine_queue.go, engine_update.go), which moves  *)
(* the unsafe, safe and finalized heads of a rollup node.  It is composed  *)
(* here with what drives it and what it drives: the unsafe payloads of     *)
(* PayloadsQueue, a sequencer that shares the block building state, the    *)
(* stages before it as a supplier of attributes, an L1 chain that grows,   *)
(* reorgs and finalizes, and the execution engine with its own heads.      *)
(*                                                                         *)
(* A block is the sequence of the contents of all blocks from genesis to   *)
(* it: its hash is the sequence, its parent the front, its number the      *)
(* length, and an ancestor a prefix; genesis is the empty sequence.        *)
(*                                                                         *)
(* The driver runs one handler at a time, so each handler is one action.   *)
(* The engine is a remote service: a call may fail before it has an        *)
(* effect (then nothing happens), or its reply may be lost after it had    *)
(* one.  Engine P2P sync (syncCfg.EngineSync) is off, as by default, so    *)
(* engineSyncTarget always equals unsafeHead and is left out.              *)
(***************************************************************************)
EXTENDS PayloadsQueue, SequencesExt

CONSTANTS
  Contents,          \* the contents of L2 blocks
  Invalid,           \* the contents of derived blocks the engine rejects
  Sequenced,         \* the contents a sequencer on this node may produce
  L1Contents,        \* the contents of L1 blocks
  Batches,           \* Batches[t]: the L2 contents derived from L1 content t
  finalityLookback,  \* finality data entries that are kept
  finalityDelay,     \* L1 blocks to traverse before finalizing is tried again
  LateBatches,       \* batches may wait so long that a full sequencing window
                     \* of L1 origins follows a safe block that is not final
  MaxL1, MaxL2       \* bounds: L1 and L2 block numbers

ASSUME EngineQueueAssumption ==
  /\ Invalid \subseteq Contents /\ Sequenced \subseteq Contents \ Invalid
  /\ Batches \in [L1Contents -> Seq(Contents)]
  /\ \A p \in Payloads : p \in Seq(Contents \ Invalid) /\ Number[p] = Len(p)
  /\ finalityLookback \in Nat \ {0} /\ finalityDelay \in Nat
  /\ LateBatches \in BOOLEAN /\ MaxL1 \in Nat /\ MaxL2 \in Nat

VARIABLES
  l1,                  \* the canonical L1 chain (its head)
  l1Final,             \* the number of its finalized block
  prevOrigin,          \* the L1 block that the stages before are at
  consumed,            \* how many derived attributes they have given out
  resetNeeded,         \* Pipeline.Reset was called, the engine queue not yet reset
  finalized, safeHead, unsafeHead,
  building,            \* {} or {the block building job}
  needForkchoiceUpdate,
  finalizedL1,         \* the L1 finality signal remembered, <<>> for none
  triedFinalizeAt,     \* a number, or Never
  safeAttributes,      \* {} or {the attributes with their parent}
  finalityData,        \* sequence of records with l2 and l1
  origin,
  eHead, eSafe, eFinal \* the engine's canonical head and labels

l1Vars == <<l1, l1Final>>
prevVars == <<prevOrigin, consumed>>
finalityVars == <<finalized, finalizedL1, triedFinalizeAt, finalityData>>
engineVars == <<eHead, eSafe, eFinal>>
eqVars == <<l1, l1Final, prevOrigin, consumed, resetNeeded, finalized,
            safeHead, unsafeHead, building, needForkchoiceUpdate, finalizedL1,
            triedFinalizeAt, safeAttributes, finalityData, origin, eHead,
            eSafe, eFinal, pq, currentSize, blockHashes>>

Genesis == << >>
Never == 0 - 1
Upto(chain, n) == SubSeq(chain, 1, n)

-----------------------------------------------------------------------------
(***************************************************************************)
(* Derivation, as the stages before the engine queue do it: the attributes *)
(* of an L1 chain in order, of which the engine will reject the invalid.   *)
(***************************************************************************)
Attributes(chain) == FlattenSeq([i \in DOMAIN chain |-> Batches[chain[i]]])

Accepted(attrs) ==
  LET kept[i \in 0 .. Len(attrs)] ==
        IF i = 0 THEN << >>
        ELSE IF attrs[i] \in Invalid THEN kept[i - 1] ELSE Append(kept[i - 1], attrs[i])
  IN kept[Len(attrs)]

Derived(chain) == Accepted(Attributes(chain))

(***************************************************************************)
(* NextAttributes(safeHead): batches that do not build on the safe head    *)
(* are dropped.  The index of the next one that does, if there is one.     *)
(***************************************************************************)
NextIndexes ==
  LET attrs == Attributes(prevOrigin)
  IN {i \in consumed + 1 .. Len(attrs) : Accepted(Upto(attrs, i - 1)) = safeHead}

(***************************************************************************)
(* The engine: engine_forkchoiceUpdatedV1 makes the head canonical first,  *)
(* unless it is an ancestor of the current head, and only then checks the  *)
(* finalized and the safe block against the canonical chain.               *)
(***************************************************************************)
ForkchoiceUpdate(head, safe, final) ==
  LET canonical == IF IsPrefix(head, eHead) THEN eHead ELSE head
      finalOk == IsPrefix(final, canonical)
      safeOk == finalOk /\ IsPrefix(safe, canonical)
  IN [head |-> canonical,
      final |-> IF finalOk THEN final ELSE eFinal,
      safe |-> IF safeOk THEN safe ELSE eSafe,
      valid |-> safeOk]

EngineDoes(fc) == eHead' = fc.head /\ eSafe' = fc.safe /\ eFinal' = fc.final

-----------------------------------------------------------------------------
(***************************************************************************)
(* postProcessSafeL2, for a new safe head and origin.                      *)
(***************************************************************************)
PostProcess(data, safe, at) ==
  LET kept == IF Len(data) >= finalityLookback
                THEN SubSeq(data, 2, finalityLookback) ELSE data
      entry == [l2 |-> safe, l1 |-> at]
  IN IF kept = << >> \/ Len(Last(kept).l1) < Len(at)
       THEN Append(kept, entry)
       ELSE [kept EXCEPT ![Len(kept)].l2 = safe]

(***************************************************************************)
(* tryFinalizeL2: the last L2 block among the finality data whose L1 block *)
(* is not above the finalized one, if it is above the finalized L2 block.  *)
(***************************************************************************)
MutFinalizable(data, final, signal) ==    \* slip: the L1 number is not compared
  {i \in DOMAIN data : Len(data[i].l2) > Len(final)}

Finalizable(data, final, signal) ==
  {i \in DOMAIN data :
     Len(data[i].l2) > Len(final) /\ Len(data[i].l1) <= Len(signal)}

TryFinalizeL2(data, at, signal) ==
  LET is == Finalizable(data, finalized, signal)
  IN /\ triedFinalizeAt' = Len(at)
     /\ finalized' = IF is = {} THEN finalized ELSE data[Max(is)].l2
     /\ needForkchoiceUpdate' = (needForkchoiceUpdate \/ is # {})

(***************************************************************************)
(* Finalize: an L1 finality signal.  L2 is finalized at once only if the   *)
(* signalled block is known to be on the chain the node follows.           *)
(***************************************************************************)
MutOnSameChain(signal) == \E i \in DOMAIN finalityData : Len(finalityData[i].l1) = Len(signal)
  \* slip: blocks are compared by number

OnSameChain(signal) == \E i \in DOMAIN finalityData : finalityData[i].l1 = signal

Finalize ==
  \E n \in 1 .. l1Final :
    LET signal == Upto(l1, n) IN
    /\ n >= Len(finalizedL1)
    /\ finalizedL1' = signal
    /\ IF OnSameChain(signal)
         THEN TryFinalizeL2(finalityData, origin, signal)
         ELSE UNCHANGED <<finalized, triedFinalizeAt, needForkchoiceUpdate>>
    /\ UNCHANGED <<l1Vars, prevVars, resetNeeded, safeHead, unsafeHead, building,
                   safeAttributes, finalityData, origin, engineVars, pqVars>>

(***************************************************************************)
(* AddUnsafePayload: a payload from gossip, alt-sync or the admin API.     *)
(***************************************************************************)
AddUnsafePayload(p) ==
  /\ Push(p)
  /\ UNCHANGED <<l1Vars, prevVars, resetNeeded, safeHead, unsafeHead, building,
                 needForkchoiceUpdate, finalityVars, safeAttributes, origin,
                 engineVars>>

-----------------------------------------------------------------------------
(***************************************************************************)
(* Step, first part: tell the engine about a forkchoice change.            *)
(***************************************************************************)
tryUpdateEngine ==
  LET fc == ForkchoiceUpdate(unsafeHead, safeHead, finalized) IN
  /\ ~resetNeeded /\ needForkchoiceUpdate
  /\ EngineDoes(fc)
  /\ \/ fc.valid /\ needForkchoiceUpdate' = FALSE /\ UNCHANGED resetNeeded
     \/ fc.valid /\ UNCHANGED <<needForkchoiceUpdate, resetNeeded>>   \* reply lost
     \/ ~fc.valid /\ resetNeeded' = TRUE /\ UNCHANGED needForkchoiceUpdate
  /\ UNCHANGED <<l1Vars, prevVars, safeHead, unsafeHead, building, finalityVars,
                 safeAttributes, origin, pqVars>>

Stepping == ~resetNeeded /\ ~needForkchoiceUpdate

(***************************************************************************)
(* Step, second part: tryNextUnsafePayload.  The first payload is dropped  *)
(* as old; or it builds on the unsafe head and is inserted, found invalid, *)
(* or left in place by a failure.                                          *)
(***************************************************************************)
DropOldPayload ==
  /\ Stepping
  /\ \E first \in Lowest(pq) :
       /\ Number[first] <= Len(safeHead) \/ Number[first] <= Len(unsafeHead)
       /\ Pop(first)
  /\ UNCHANGED <<l1Vars, prevVars, resetNeeded, safeHead, unsafeHead, building,
                 needForkchoiceUpdate, finalityVars, safeAttributes, origin,
                 engineVars>>

ExtendsUnsafe(first) ==
  /\ Number[first] > Len(safeHead) /\ Number[first] > Len(unsafeHead)
  /\ Front(first) = unsafeHead

InsertUnsafePayload ==
  /\ Stepping
  /\ \E first \in Lowest(pq) :
       LET fc == ForkchoiceUpdate(first, safeHead, finalized) IN
       /\ ExtendsUnsafe(first)
       /\ EngineDoes(fc)
       /\ \/ fc.valid /\ unsafeHead' = first /\ Pop(first) /\ UNCHANGED resetNeeded
          \/ fc.valid /\ UNCHANGED <<unsafeHead, resetNeeded, pqVars>>   \* reply lost
          \/ ~fc.valid /\ resetNeeded' = TRUE /\ UNCHANGED <<unsafeHead, pqVars>>
  /\ UNCHANGED <<l1Vars, prevVars, safeHead, building, needForkchoiceUpdate,
                 finalityVars, safeAttributes, origin>>

RejectUnsafePayload ==
  /\ Stepping
  /\ \E first \in Lowest(pq) : ExtendsUnsafe(first) /\ Pop(first)
  /\ UNCHANGED <<l1Vars, prevVars, resetNeeded, safeHead, unsafeHead, building,
                 needForkchoiceUpdate, finalityVars, safeAttributes, origin,
                 engineVars>>

(***************************************************************************)
(* Otherwise the first payload does not build on the unsafe head: a        *)
(* sibling of the next block is dropped, a later one is kept, and Step     *)
(* goes on with the safe attributes.                                       *)
(***************************************************************************)
PassUnsafePayloads ==
  /\ Stepping
  /\ \/ pq = {} /\ UNCHANGED pqVars
     \/ \E first \in Lowest(pq) :
          /\ Number[first] > Len(safeHead) /\ Number[first] > Len(unsafeHead)
          /\ Front(first) # unsafeHead
          /\ IF Number[first] = Len(unsafeHead) + 1 THEN Pop(first)
                                                    ELSE UNCHANGED pqVars

-----------------------------------------------------------------------------
(***************************************************************************)
(* ConfirmPayload of job: get the payload from the engine, insert it and   *)
(* make it the head, and the safe head if the job is a safe one.           *)
(***************************************************************************)
JobBlock(job) == Append(job.onto, job.content)

ConfirmFC(job) ==
  ForkchoiceUpdate(JobBlock(job),
                   IF job.safe THEN JobBlock(job) ELSE safeHead, finalized)

MutConfirmed(job) ==    \* slip: a safe block does not become the unsafe head
  /\ building' = {}
  /\ IF job.safe
       THEN /\ safeHead' = JobBlock(job)
            /\ finalityData' = PostProcess(finalityData, safeHead', origin)
            /\ UNCHANGED unsafeHead
       ELSE /\ unsafeHead' = JobBlock(job)
            /\ UNCHANGED <<safeHead, finalityData>>

Confirmed(job) ==
  /\ unsafeHead' = JobBlock(job)
  /\ building' = {}
  /\ IF job.safe
       THEN /\ safeHead' = JobBlock(job)
            /\ finalityData' = PostProcess(finalityData, safeHead', origin)
       ELSE UNCHANGED <<safeHead, finalityData>>

(***************************************************************************)
(* Step, third part: tryNextSafeAttributes.  Attributes whose parent is    *)
(* not the safe head are never found here (AttributesFresh), so that the   *)
(* code's branches for them have no action.                                *)
(*                                                                         *)
(* consolidateNextSafeAttributes: the engine's block after the safe head   *)
(* is missing, or is what the attributes describe and becomes safe.        *)
(***************************************************************************)
MissingUnsafe ==
  /\ PassUnsafePayloads
  /\ \E attrs \in safeAttributes : safeHead = attrs.parent
  /\ Len(safeHead) < Len(unsafeHead) /\ Len(eHead) <= Len(safeHead)
  /\ resetNeeded' = TRUE
  /\ UNCHANGED <<l1Vars, prevVars, safeHead, unsafeHead, building, finalityVars,
                 needForkchoiceUpdate, safeAttributes, origin, engineVars>>

NextOnEngine == Upto(eHead, Len(safeHead) + 1)

MutMatches(attrs) ==    \* slip: the existing block is not compared
  Len(safeHead) < Len(unsafeHead) /\ Len(eHead) > Len(safeHead)

Matches(attrs) ==
  /\ Len(safeHead) < Len(unsafeHead) /\ Len(eHead) > Len(safeHead)
  /\ NextOnEngine = Append(safeHead, attrs.content)

Consolidate ==
  /\ PassUnsafePayloads
  /\ \E attrs \in safeAttributes :
       /\ safeHead = attrs.parent
       /\ Matches(attrs)
  /\ safeHead' = NextOnEngine
  /\ needForkchoiceUpdate' = TRUE
  /\ safeAttributes' = {}
  /\ finalityData' = PostProcess(finalityData, safeHead', origin)
  /\ UNCHANGED <<l1Vars, prevVars, resetNeeded, unsafeHead, building, finalized,
                 finalizedL1, triedFinalizeAt, origin, engineVars>>

(***************************************************************************)
(* forceNextSafeAttributes: build the block on the safe head and make it   *)
(* head and safe, reorging the unsafe chain away.  StartPayload replaces   *)
(* whatever job there was.  The last alternatives are the failures that    *)
(* leave something behind: replies lost after StartPayload or after        *)
(* ConfirmPayload, a failure to get or insert the payload, attributes the  *)
(* engine rejects, and a forkchoice the engine refuses.                    *)
(***************************************************************************)
Forceable(attrs) ==
  /\ safeHead = attrs.parent
  /\ \/ Len(safeHead) = Len(unsafeHead)
     \/ Len(safeHead) < Len(unsafeHead) /\ Len(eHead) > Len(safeHead) /\ ~Matches(attrs)

ForceAttributes ==
  /\ PassUnsafePayloads
  /\ \E attrs \in safeAttributes :
       LET start == ForkchoiceUpdate(safeHead, safeHead, finalized)
           job == [onto |-> safeHead, content |-> attrs.content, safe |-> TRUE]
       IN /\ Forceable(attrs) /\ Len(safeHead) < MaxL2
          /\ \/ /\ start.valid /\ attrs.content \notin Invalid
                /\ Confirmed(job) /\ safeAttributes' = {}
                /\ EngineDoes(ConfirmFC(job))
                /\ UNCHANGED resetNeeded
             \/ /\ start.valid /\ attrs.content \notin Invalid   \* after ConfirmPayload
                /\ building' = {job}
                /\ EngineDoes(ConfirmFC(job))
                /\ UNCHANGED <<unsafeHead, safeHead, finalityData, safeAttributes, resetNeeded>>
             \/ /\ start.valid                                   \* before it
                /\ building' \in {building, {job}}
                /\ EngineDoes(start)
                /\ UNCHANGED <<unsafeHead, safeHead, finalityData, safeAttributes, resetNeeded>>
             \/ /\ start.valid /\ attrs.content \in Invalid
                /\ building' = {} /\ safeAttributes' = {}
                /\ EngineDoes(start)
                /\ UNCHANGED <<unsafeHead, safeHead, finalityData, resetNeeded>>
             \/ /\ ~start.valid
                /\ building' = {} /\ resetNeeded' = TRUE
                /\ EngineDoes(start)
                /\ UNCHANGED <<unsafeHead, safeHead, finalityData, safeAttributes>>
  /\ UNCHANGED <<l1Vars, prevVars, needForkchoiceUpdate, finalized, finalizedL1,
                 triedFinalizeAt, origin>>

(***************************************************************************)
(* "For some reason the unsafe head is behind the safe head": a job that   *)
(* the sequencer had started on an earlier head was completed, with a      *)
(* block that the engine has on its chain already.                         *)
(***************************************************************************)
CorrectUnsafeHead ==
  /\ PassUnsafePayloads
  /\ \E attrs \in safeAttributes : safeHead = attrs.parent
  /\ Len(safeHead) > Len(unsafeHead)
  /\ unsafeHead' = safeHead
  /\ UNCHANGED <<l1Vars, prevVars, resetNeeded, safeHead, building, needForkchoiceUpdate,
                 finalityVars, safeAttributes, origin, engineVars>>

-----------------------------------------------------------------------------
(***************************************************************************)
(* Step, last part: take over the origin, track the safe head for it, try  *)
(* to finalize, and ask for the next attributes; if there are none,        *)
(* Pipeline.Step advances the stages before to the next L1 block.          *)
(***************************************************************************)
TriesFinalizing ==
  /\ finalizedL1 # Genesis
  /\ Len(finalizedL1) >= Len(prevOrigin)
  /\ ~(triedFinalizeAt # Never /\ Len(prevOrigin) <= triedFinalizeAt + finalityDelay)

OnCanonicalL1 == IsPrefix(prevOrigin, l1)

TakeAttributes ==
  IF NextIndexes # {}
    THEN /\ consumed' = Min(NextIndexes)
         /\ safeAttributes' = {[content |-> Attributes(prevOrigin)[consumed'],
                                parent |-> safeHead]}
         /\ UNCHANGED <<prevOrigin, resetNeeded>>
    ELSE /\ UNCHANGED <<consumed, safeAttributes>>
         /\ \/ /\ OnCanonicalL1 /\ Len(prevOrigin) < Len(l1)
               /\ prevOrigin' = Upto(l1, Len(prevOrigin) + 1)
               /\ UNCHANGED resetNeeded
            \/ /\ ~OnCanonicalL1 /\ Len(prevOrigin) < Len(l1)
               /\ resetNeeded' = TRUE
               /\ UNCHANGED prevOrigin
            \/ UNCHANGED <<prevOrigin, resetNeeded>>   \* no next block yet

PullAttributes ==
  /\ PassUnsafePayloads
  /\ safeAttributes = {}
  /\ origin' = prevOrigin
  /\ finalityData' = PostProcess(finalityData, safeHead, prevOrigin)
  /\ \/ /\ TriesFinalizing /\ OnCanonicalL1
        /\ TryFinalizeL2(finalityData', prevOrigin, finalizedL1)
        /\ TakeAttributes
     \/ /\ TriesFinalizing /\ ~OnCanonicalL1
        /\ resetNeeded' = TRUE
        /\ UNCHANGED <<finalized, triedFinalizeAt, needForkchoiceUpdate, prevVars, safeAttributes>>
     \/ /\ ~TriesFinalizing
        /\ UNCHANGED <<finalized, triedFinalizeAt, needForkchoiceUpdate>>
        /\ TakeAttributes
  /\ UNCHANGED <<l1Vars, safeHead, unsafeHead, building, finalizedL1, engineVars>>

(***************************************************************************)
(* A reset is asked for: verifyNewL1Origin and FindL1Origin find an origin *)
(* that is not canonical, a stage before returns a reset error, or the     *)
(* admin API asks (ResetDerivationPipeline).                               *)
(***************************************************************************)
RequestReset ==
  /\ ~resetNeeded
  /\ resetNeeded' = TRUE
  /\ UNCHANGED <<l1Vars, prevVars, safeHead, unsafeHead, building,
                 needForkchoiceUpdate, finalityVars, safeAttributes, origin,
                 engineVars, pqVars>>

(***************************************************************************)
(* What FindL2Heads may return as safe head.  The walk back from the       *)
(* engine's head ends at its finalized block.  It ends earlier, below the  *)
(* safe label, if it has passed a full sequencing window of canonical L1   *)
(* origins; the block there was derived before the head of L1.             *)
(***************************************************************************)
SafeStarts ==
  {s \in Prefixes(eHead) :
     /\ IsPrefix(eFinal, s)
     /\ \/ s = eFinal
        \/ /\ LateBatches /\ l1 # Genesis
           /\ Len(s) < Len(eSafe) /\ IsPrefix(s, Derived(Front(l1)))}

(***************************************************************************)
(* Reset, of the engine queue and then of the stages before it.  The       *)
(* pipeline starts from an L1 block old enough to see every channel with   *)
(* batches after the safe head again.                                      *)
(***************************************************************************)
MutReset ==    \* slip: the attributes and the job survive the reset
  /\ resetNeeded
  /\ \E s \in SafeStarts, u \in Prefixes(eHead), o \in Prefixes(l1) :
       /\ IsPrefix(s, u) /\ IsPrefix(Derived(o), s)
       /\ safeHead' = s /\ unsafeHead' = u
       /\ origin' = o /\ prevOrigin' = o
  /\ resetNeeded' = FALSE
  /\ consumed' = 0
  /\ finalized' = eFinal
  /\ needForkchoiceUpdate' = TRUE
  /\ finalityData' = << >>
  /\ UNCHANGED <<l1Vars, building, safeAttributes, finalizedL1, triedFinalizeAt, engineVars, pqVars>>

Reset ==
  /\ resetNeeded
  /\ \E s \in SafeStarts, u \in Prefixes(eHead), o \in Prefixes(l1) :
       /\ IsPrefix(s, u) /\ IsPrefix(Derived(o), s)
       /\ safeHead' = s /\ unsafeHead' = u
       /\ origin' = o /\ prevOrigin' = o
  /\ resetNeeded' = FALSE
  /\ consumed' = 0
  /\ finalized' = eFinal
  /\ building' = {}
  /\ safeAttributes' = {}
  /\ needForkchoiceUpdate' = TRUE
  /\ finalityData' = << >>
  /\ UNCHANGED <<l1Vars, finalizedL1, triedFinalizeAt, engineVars, pqVars>>

-----------------------------------------------------------------------------
(***************************************************************************)
(* The sequencer of this node (driver/sequencer.go): start a job on the    *)
(* unsafe head if there is none; complete it, or cancel it on an error,    *)
(* unless it is the job of a safe block, which is left alone.              *)
(***************************************************************************)
SequencerStart ==
  LET start == ForkchoiceUpdate(unsafeHead, safeHead, finalized) IN
  /\ ~resetNeeded /\ building = {} /\ Len(unsafeHead) < MaxL2
  /\ EngineDoes(start)
  /\ \E c \in Sequenced :
       \/ /\ start.valid
          /\ building' = {[onto |-> unsafeHead, content |-> c, safe |-> FALSE]}
       \/ UNCHANGED building    \* refused, or the reply lost
  /\ UNCHANGED <<l1Vars, prevVars, resetNeeded, safeHead, unsafeHead,
                 needForkchoiceUpdate, finalityVars, safeAttributes, origin,
                 pqVars>>

SequencerComplete ==
  /\ ~resetNeeded
  /\ \E job \in building :
       /\ ~job.safe
       /\ \/ /\ ConfirmFC(job).valid
             /\ EngineDoes(ConfirmFC(job))
             /\ Confirmed(job)
          \/ /\ building' = {}    \* refused, or the reply lost
             /\ EngineDoes(ConfirmFC(job))
             /\ UNCHANGED <<safeHead, unsafeHead, finalityData>>
          \/ /\ building' = {}    \* the payload could not be retrieved or inserted
             /\ UNCHANGED <<safeHead, unsafeHead, finalityData, engineVars>>
  /\ UNCHANGED <<l1Vars, prevVars, resetNeeded, needForkchoiceUpdate, finalized,
                 finalizedL1, triedFinalizeAt, safeAttributes, origin, pqVars>>

-----------------------------------------------------------------------------
(***************************************************************************)
(* L1: it grows, drops blocks that are not final for another one, and      *)
(* finalizes.                                                              *)
(***************************************************************************)
L1Block ==
  /\ \E n \in l1Final .. Len(l1), c \in L1Contents :
       n < MaxL1 /\ l1' = Append(Upto(l1, n), c)
  /\ UNCHANGED l1Final

L1Finalizes == l1Final < Len(l1) /\ l1Final' = l1Final + 1 /\ UNCHANGED l1

L1Step ==
  /\ L1Block \/ L1Finalizes
  /\ UNCHANGED <<prevVars, resetNeeded, safeHead, unsafeHead, building,
                 needForkchoiceUpdate, finalityVars, safeAttributes, origin,
                 engineVars, pqVars>>

-----------------------------------------------------------------------------
EQInit ==
  /\ PQInit
  /\ l1 = Genesis /\ l1Final = 0
  /\ prevOrigin = Genesis /\ consumed = 0
  /\ resetNeeded = TRUE
  /\ finalized = Genesis /\ safeHead = Genesis /\ unsafeHead = Genesis
  /\ building = {} /\ needForkchoiceUpdate = FALSE
  /\ finalizedL1 = Genesis /\ triedFinalizeAt = Never
  /\ safeAttributes = {} /\ finalityData = << >> /\ origin = Genesis
  /\ eHead = Genesis /\ eSafe = Genesis /\ eFinal = Genesis

Step ==
  \/ tryUpdateEngine
  \/ DropOldPayload \/ InsertUnsafePayload \/ RejectUnsafePayload
  \/ MissingUnsafe \/ Consolidate \/ ForceAttributes \/ CorrectUnsafeHead
  \/ PullAttributes \/ Reset

EQNext ==
  \/ Step
  \/ RequestReset \/ Finalize
  \/ \E p \in Payloads : AddUnsafePayload(p)
  \/ SequencerStart \/ SequencerComplete
  \/ L1Step

EQSpec == EQInit /\ [][EQNext]_eqVars

-----------------------------------------------------------------------------
(***************************************************************************)
(* The types of the state.                                                 *)
(***************************************************************************)
EQTypeOK ==
  /\ PQTypeOK
  /\ l1 \in Seq(L1Contents) /\ l1Final \in 0 .. Len(l1)
  /\ {prevOrigin, origin, finalizedL1} \subseteq Seq(L1Contents)
  /\ consumed \in Nat /\ triedFinalizeAt \in Nat \cup {Never}
  /\ {finalized, safeHead, unsafeHead, eHead, eSafe, eFinal} \subseteq Seq(Contents \ Invalid)
  /\ {resetNeeded, needForkchoiceUpdate} \subseteq BOOLEAN
  /\ \A job \in building : job.onto \in Seq(Contents) /\ job.content \in Contents
  /\ \A a \in safeAttributes : a.content \in Contents /\ a.parent \in Seq(Contents)
  /\ Len(finalityData) <= finalityLookback

(***************************************************************************)
(* The finalized head stays behind the safe head, an unsafe head that      *)
(* falls behind the safe head is still on its chain, and if a lost reply   *)
(* lets the safe head leave the unsafe chain, a forkchoice update or a     *)
(* reset is pending that will show it: no payload or attributes are        *)
(* processed on such heads.                                                *)
(***************************************************************************)
HeadsOrdered ==
  /\ IsPrefix(finalized, safeHead)
  /\ Len(unsafeHead) < Len(safeHead) => IsPrefix(unsafeHead, safeHead)
  /\ \/ IsPrefix(safeHead, unsafeHead) \/ IsPrefix(unsafeHead, safeHead)
     \/ needForkchoiceUpdate \/ resetNeeded

(***************************************************************************)
(* The buffered attributes are always for the safe head: consolidation,    *)
(* forced blocks, rejections and resets all drop them when the safe head   *)
(* moves, and the sequencer never moves it, so the branches of             *)
(* tryNextSafeAttributes for stale attributes are not reached.             *)
(***************************************************************************)
AttributesFresh == \A attrs \in safeAttributes : attrs.parent = safeHead

(***************************************************************************)
(* "SafeL2 points to the L2 block that was derived from the L1 chain"      *)
(* (sync_status.go): the safe head and what the stages before have seen of *)
(* L1 never contradict each other, whatever the sequencer or gossip put    *)
(* into the engine.                                                        *)
(***************************************************************************)
SafeIsDerived ==
  \/ IsPrefix(safeHead, Derived(prevOrigin))
  \/ IsPrefix(Derived(prevOrigin), safeHead)

(***************************************************************************)
(* "FinalizedL2 points to the L2 block that was derived fully from         *)
(* finalized L1 information" (sync_status.go:32): no reorg of L1 can undo  *)
(* the finalized head, although finality signals and finality data are     *)
(* compared by number.                                                     *)
(***************************************************************************)
FinalizedIsDerived == IsPrefix(finalized, Derived(Upto(l1, l1Final)))

(***************************************************************************)
(* The engine never holds a finalized label that the node has not set for  *)
(* a block derived from finalized L1 data.                                 *)
(***************************************************************************)
EngineFinalIsDerived == IsPrefix(eFinal, Derived(Upto(l1, l1Final)))
=============================================================================
