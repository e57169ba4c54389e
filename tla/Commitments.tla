---------------------------- MODULE Commitments ----------------------------
(***************************************************************************)
(* Sequencer commitments: the extension of this fork of the OP Stack       *)
(* (op-node/node/pepc.go and node.go, FeeRecipientCommitment.sol).         *)
(*                                                                         *)
(* On L1, accounts commit to the fee recipient of L2 blocks and register   *)
(* the commitment with the commitment manager.  A sequencer node builds    *)
(* blocks, screens each one against L1 after it has inserted it, and       *)
(* gossips those that pass.  A verifier takes blocks from gossip, from     *)
(* alt-sync and from the batches on L1, and screens the first two kinds.   *)
(* L1, the manager and the batcher are environments of the nodes.          *)
(*                                                                         *)
(* There is one sequencer at a time and it does not reorg, so that a block *)
(* is identified by its number; the record of a block holds what matters   *)
(* of its payload, and the accounts whose commitments it breached when it  *)
(* was built (which the properties use, never the code).                   *)
(***************************************************************************)
EXTENDS Integers, Sequences, SequencesExt, FiniteSets

CONSTANTS
  Accounts,      \* addresses that sign, propose and commit
  Committers,    \* those of them that commit
  Recipients,    \* fee recipients that are committed to
  Coinbases,     \* fee recipients that the sequencer gives to its blocks
  Proposer,      \* L2OutputOracle.PROPOSER, an immutable
  None,
  Verifiers, Sequencer,
  ChannelCap,    \* capacity of Driver.unsafeL2Payloads
  MaxBlock,      \* bound: L2 block number
  MaxL1          \* bound: L1 blocks that change the unsafe block signer

Nodes == Verifiers \cup {Sequencer}

ASSUME CommitmentsAssumption ==
  /\ Proposer \in Accounts /\ Committers \subseteq Accounts
  /\ None \notin Accounts \cup Recipients
  /\ Sequencer \notin Verifiers /\ Coinbases \subseteq Recipients
  /\ ChannelCap \in Nat \ {0} /\ MaxBlock \in Nat /\ MaxL1 \in Nat

VARIABLES
  l1,               \* l1[i]: the unsafe block signer in the state of L1 block i
  registered,       \* accounts whose commitment the manager holds
  feeRecipientSet,  \* [account][number]: a recipient, or None
  key,              \* the account of the sequencer's p2p signer
  blocks,           \* the chain of the sequencer
  net,              \* gossiped messages: block number and author
  batched,          \* number of the last block in a batch on L1
  p2pBlockSignerAddr,             \* per node: runtime config
  seen, inbox, unsafeL2Payloads,  \* per verifier: gossip filter, validated
  buffer, chain                   \*   messages, driver channel, engine queue

l1Vars == <<l1, registered, feeRecipientSet>>
seqVars == <<key, blocks, net, batched>>
cfgVars == <<p2pBlockSignerAddr>>
nodeVars == <<seen, inbox, unsafeL2Payloads, buffer, chain>>
cmVars == <<l1Vars, seqVars, cfgVars, nodeVars>>

-----------------------------------------------------------------------------
(***************************************************************************)
(* FeeRecipientCommitment.setNewFeeRecipient, for msg.sender a.            *)
(***************************************************************************)
MutSetNewFeeRecipient(a, k, r) ==    \* slip: no "already set" requirement
  /\ feeRecipientSet' = [feeRecipientSet EXCEPT ![a][k] = r]
  /\ UNCHANGED <<l1, registered, seqVars, cfgVars, nodeVars>>

setNewFeeRecipient(a, k, r) ==
  /\ feeRecipientSet[a][k] = None
  /\ feeRecipientSet' = [feeRecipientSet EXCEPT ![a][k] = r]
  /\ UNCHANGED <<l1, registered, seqVars, cfgVars, nodeVars>>

(***************************************************************************)
(* FeeRecipientCommitment.commitmentIndicatorFun                           *)
(***************************************************************************)
commitmentIndicatorFun(k, payload) ==
  feeRecipientSet[Proposer][k] \in {None, payload.feeRecipient}

(***************************************************************************)
(* The commitment manager: an account registers the commitment for the     *)
(* rollup's target, and SystemConfig.screen asks if all are satisfied.     *)
(***************************************************************************)
MakeCommitment(a) ==
  /\ registered' = registered \cup {a}
  /\ UNCHANGED <<l1, feeRecipientSet, seqVars, cfgVars, nodeVars>>

Screen(a, k, payload) == a \in registered => commitmentIndicatorFun(k, payload)

(***************************************************************************)
(* SystemConfig.setUnsafeBlockSigner, in a new L1 block.                   *)
(***************************************************************************)
setUnsafeBlockSigner(a) ==
  /\ Len(l1) < MaxL1
  /\ l1' = Append(l1, a)
  /\ UNCHANGED <<registered, feeRecipientSet, seqVars, cfgVars, nodeVars>>

-----------------------------------------------------------------------------
(***************************************************************************)
(* validateCommitments of block k on node n: the account is the unsafe     *)
(* block signer in the node's runtime config, the L1 state is the latest.  *)
(***************************************************************************)
validateCommitments(n, k, payload) == Screen(p2pBlockSignerAddr[n], k, payload)

(***************************************************************************)
(* The sequencer builds a block and inserts it into its engine, and then   *)
(* PublishL2Payload screens it.  A block that fails the screening, and one *)
(* whose screening or publishing meets an error, stays on its chain and is *)
(* not gossiped: the driver logs the error.                                *)
(***************************************************************************)
SequenceBlock(r) ==
  LET k == Len(blocks) + 1
      payload == [feeRecipient |-> r,
                  breaches |-> {a \in Accounts : ~Screen(a, k, [feeRecipient |-> r])}]
  IN /\ k <= MaxBlock
     /\ blocks' = Append(blocks, payload)
     /\ \/ validateCommitments(Sequencer, k, payload) /\ net' = net \cup {[number |-> k, by |-> key]}
        \/ UNCHANGED net
     /\ UNCHANGED <<l1Vars, key, batched, cfgVars, nodeVars>>

(***************************************************************************)
(* The batcher submits the next block of the sequencer's chain.            *)
(***************************************************************************)
PostBatch ==
  /\ batched < Len(blocks)
  /\ batched' = batched + 1
  /\ UNCHANGED <<l1Vars, key, blocks, net, cfgVars, nodeVars>>

-----------------------------------------------------------------------------
(***************************************************************************)
(* The gossip validator: the author is the configured signer, and the      *)
(* block was not seen before.  It is seen from now on, whatever becomes of *)
(* it.                                                                     *)
(***************************************************************************)
BlocksValidator(n, m) ==
  /\ m.by = p2pBlockSignerAddr[n]
  /\ m.number \notin seen[n]
  /\ seen' = [seen EXCEPT ![n] = @ \cup {m.number}]
  /\ inbox' = [inbox EXCEPT ![n] = Append(@, m)]
  /\ UNCHANGED <<l1Vars, seqVars, cfgVars, unsafeL2Payloads, buffer, chain>>

(***************************************************************************)
(* OnUnsafeL2Payload on node n: screen block k, and push it to the driver. *)
(* It is dropped if it fails the screening, if the L1 call fails, or if    *)
(* the channel stays full.  by is the author, None if nobody checked it.   *)
(***************************************************************************)
MutPushUnbounded(n, k, by) ==    \* slip: the channel has no capacity
  \/ /\ validateCommitments(n, k, blocks[k])
     /\ unsafeL2Payloads' = [unsafeL2Payloads EXCEPT ![n] =
          Append(@, [number |-> k, by |-> by, screened |-> p2pBlockSignerAddr[n]])]
  \/ UNCHANGED unsafeL2Payloads

OnUnsafeL2Payload(n, k, by) ==
  \/ /\ validateCommitments(n, k, blocks[k])
     /\ Len(unsafeL2Payloads[n]) < ChannelCap
     /\ unsafeL2Payloads' = [unsafeL2Payloads EXCEPT ![n] =
          Append(@, [number |-> k, by |-> by, screened |-> p2pBlockSignerAddr[n]])]
  \/ UNCHANGED unsafeL2Payloads

GossipIn(n) ==
  /\ inbox[n] # << >>
  /\ UNCHANGED <<l1Vars, seqVars, cfgVars, seen, buffer, chain>>
  /\ inbox' = [inbox EXCEPT ![n] = Tail(@)]
  /\ OnUnsafeL2Payload(n, Head(inbox[n]).number, Head(inbox[n]).by)

(***************************************************************************)
(* Alt-sync: checkForGapInUnsafeQueue requests the blocks between the      *)
(* unsafe head and the first buffered one, or all that follow the head;    *)
(* peers send what their engines hold, without a signature.                *)
(***************************************************************************)
AltSync(n, k) ==
  /\ k > Len(chain[n])
  /\ \A e \in buffer[n] : k < e.number
  /\ UNCHANGED <<l1Vars, seqVars, cfgVars, seen, inbox, buffer, chain>>
  /\ OnUnsafeL2Payload(n, k, None)

(***************************************************************************)
(* The driver's event loop hands a payload to the engine queue, which      *)
(* refuses a duplicate (AddUnsafePayload).                                 *)
(***************************************************************************)
DriverTakes(n) ==
  /\ unsafeL2Payloads[n] # << >>
  /\ unsafeL2Payloads' = [unsafeL2Payloads EXCEPT ![n] = Tail(@)]
  /\ LET first == Head(unsafeL2Payloads[n])
     IN buffer' = IF \E e \in buffer[n] : e.number = first.number
                    THEN buffer ELSE [buffer EXCEPT ![n] = @ \cup {first}]
  /\ UNCHANGED <<l1Vars, seqVars, cfgVars, seen, inbox, chain>>

(***************************************************************************)
(* tryNextUnsafePayload: the next block is inserted, an old one dropped.   *)
(***************************************************************************)
InsertUnsafe(n) ==
  /\ \E e \in buffer[n] :
       /\ buffer' = [buffer EXCEPT ![n] = @ \ {e}]
       /\ \/ e.number = Len(chain[n]) + 1 /\ chain' = [chain EXCEPT ![n] = Append(@, e.screened)]
          \/ e.number <= Len(chain[n]) /\ UNCHANGED chain
  /\ UNCHANGED <<l1Vars, seqVars, cfgVars, seen, inbox, unsafeL2Payloads>>

(***************************************************************************)
(* Derivation forces the next block of a batch; it is not screened.        *)
(***************************************************************************)
MutDerive(n) ==    \* slip: derived blocks are screened as well
  /\ Len(chain[n]) < batched
  /\ Screen(p2pBlockSignerAddr[n], Len(chain[n]) + 1, blocks[Len(chain[n]) + 1])
  /\ chain' = [chain EXCEPT ![n] = Append(@, None)]
  /\ UNCHANGED <<l1Vars, seqVars, cfgVars, seen, inbox, unsafeL2Payloads, buffer>>

Derive(n) ==
  /\ Len(chain[n]) < batched
  /\ chain' = [chain EXCEPT ![n] = Append(@, None)]
  /\ UNCHANGED <<l1Vars, seqVars, cfgVars, seen, inbox, unsafeL2Payloads, buffer>>

(***************************************************************************)
(* OnNewL1Head passes the head to the driver; the runtime config is only   *)
(* loaded by initRuntimeConfig, when a node starts.  A restart loses what  *)
(* the node holds in memory; the sequencer may come back with another key. *)
(***************************************************************************)
initRuntimeConfig(n) ==
  p2pBlockSignerAddr' = [p2pBlockSignerAddr EXCEPT ![n] = Last(l1)]

MutOnNewL1Head(n) ==    \* slip: the runtime config is reloaded under way
  initRuntimeConfig(n) /\ UNCHANGED <<l1Vars, seqVars, nodeVars>>

OnNewL1Head(n) == UNCHANGED cmVars

RestartSequencer(a) ==
  /\ initRuntimeConfig(Sequencer)
  /\ key' = a
  /\ UNCHANGED <<l1Vars, blocks, net, batched, nodeVars>>

RestartVerifier(n) ==
  /\ initRuntimeConfig(n)
  /\ seen' = [seen EXCEPT ![n] = {}]
  /\ inbox' = [inbox EXCEPT ![n] = << >>]
  /\ unsafeL2Payloads' = [unsafeL2Payloads EXCEPT ![n] = << >>]
  /\ buffer' = [buffer EXCEPT ![n] = {}]
  /\ UNCHANGED <<l1Vars, seqVars, chain>>

-----------------------------------------------------------------------------
CMInit ==
  /\ \E a \in Accounts :
       /\ l1 = <<a>> /\ key = a
       /\ p2pBlockSignerAddr = [n \in Nodes |-> a]
  /\ registered = {} /\ feeRecipientSet = [a \in Accounts |-> [k \in 1 .. MaxBlock |-> None]]
  /\ blocks = << >> /\ net = {} /\ batched = 0
  /\ seen = [n \in Verifiers |-> {}]
  /\ inbox = [n \in Verifiers |-> << >>]
  /\ unsafeL2Payloads = [n \in Verifiers |-> << >>]
  /\ buffer = [n \in Verifiers |-> {}]
  /\ chain = [n \in Verifiers |-> << >>]

L1Next ==
  \/ \E a \in Committers :
       \/ \E k \in 1 .. MaxBlock, r \in Recipients : setNewFeeRecipient(a, k, r)
       \/ MakeCommitment(a)
  \/ \E a \in Accounts : setUnsafeBlockSigner(a)

VerifierNext(n) ==
  \/ \E m \in net : BlocksValidator(n, m)
  \/ GossipIn(n) \/ (\E k \in DOMAIN blocks : AltSync(n, k))
  \/ DriverTakes(n) \/ InsertUnsafe(n) \/ Derive(n) \/ RestartVerifier(n)

CMNext ==
  \/ L1Next
  \/ (\E r \in Coinbases : SequenceBlock(r)) \/ PostBatch
  \/ \E a \in Accounts : RestartSequencer(a)
  \/ \E n \in Nodes : OnNewL1Head(n)
  \/ \E n \in Verifiers : VerifierNext(n)

CMSpec == CMInit /\ [][CMNext]_cmVars

(***************************************************************************)
(* The batcher keeps submitting and the driver keeps stepping.  Nothing is *)
(* assumed of gossip or alt-sync.                                          *)
(***************************************************************************)
FairCMSpec ==
  CMSpec /\ WF_cmVars(PostBatch) /\ \A n \in Verifiers : WF_cmVars(Derive(n))

-----------------------------------------------------------------------------
Pending(n) == Range(unsafeL2Payloads[n]) \cup buffer[n]

(***************************************************************************)
(* The types of the state; the driver's channel keeps to its capacity.     *)
(***************************************************************************)
CMTypeOK ==
  /\ l1 \in Seq(Accounts) /\ registered \subseteq Accounts /\ key \in Accounts
  /\ feeRecipientSet \in [Accounts -> [1 .. MaxBlock -> Recipients \cup {None}]]
  /\ batched \in 0 .. Len(blocks)
  /\ p2pBlockSignerAddr \in [Nodes -> Accounts]
  /\ \A n \in Verifiers :
       /\ seen[n] \subseteq DOMAIN blocks
       /\ Len(unsafeL2Payloads[n]) <= ChannelCap
       /\ Len(chain[n]) <= Len(blocks)

(***************************************************************************)
(* No block that was already in breach of a commitment when it was built   *)
(* enters a verifier's driver, or its unsafe chain, past the screening of  *)
(* that account's commitments (OnUnsafeL2Payload): not by gossip or        *)
(* alt-sync, however late it arrives and whatever is committed meanwhile.  *)
(***************************************************************************)
ScreenedKept ==
  \A n \in Verifiers :
    /\ \A e \in Pending(n) : e.screened \notin blocks[e.number].breaches
    /\ \A k \in DOMAIN chain[n] : chain[n][k] \notin blocks[k].breaches

(***************************************************************************)
(* A gossiped payload is screened for the account that signed it, although *)
(* the validator and the handler read the runtime config at two times.     *)
(***************************************************************************)
AuthorScreened ==
  \A n \in Verifiers : \A e \in Pending(n) : e.by \in {None, e.screened}

(***************************************************************************)
(* "this can be recovered from like any other missed unsafe payload"       *)
(* (gossip.go:356): every block reaches every verifier, also one that was  *)
(* refused, dropped, or rejected after a key rotation.                     *)
(***************************************************************************)
Recovered ==
  \A k \in 1 .. MaxBlock, n \in Verifiers : Len(blocks) >= k ~> Len(chain[n]) >= k

(***************************************************************************)
(* "Commitments made by sequencers are enforced on L2 blocks" (README.md): *)
(* no verifier has a block on its chain that breached a commitment of the  *)
(* account it screens for when the block was built.                        *)
(***************************************************************************)
EnforcedOnBlocks ==
  \A n \in Verifiers : \A k \in DOMAIN chain[n] :
    p2pBlockSignerAddr[n] \notin blocks[k].breaches
=============================================================================
