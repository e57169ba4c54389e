------------------------- MODULE CommitmentsProofs -------------------------
(***************************************************************************)
(* Proofs about Commitments, for every set of accounts, recipients and     *)
(* verifiers, every capacity of the driver's channel and every bound.      *)
(***************************************************************************)
EXTENDS Commitments, SequenceTheorems, TLAPS

Numbers == 1 .. MaxBlock
Block == [feeRecipient : Recipients, breaches : SUBSET Accounts]
Message == [number : Numbers, by : Accounts]
Entry == [number : Numbers, by : Accounts \cup {None}, screened : Accounts]

(***************************************************************************)
(* The full types.                                                         *)
(***************************************************************************)
L1Types ==
  /\ l1 \in Seq(Accounts) /\ l1 # << >>
  /\ registered \subseteq Accounts
  /\ feeRecipientSet \in [Accounts -> [Numbers -> Recipients \cup {None}]]
  /\ p2pBlockSignerAddr \in [Nodes -> Accounts]

SequencerTypes ==
  /\ key \in Accounts /\ blocks \in Seq(Block) /\ Len(blocks) <= MaxBlock
  /\ net \subseteq Message /\ batched \in 0 .. Len(blocks)

NodeTypes ==
  /\ seen \in [Verifiers -> SUBSET Numbers]
  /\ inbox \in [Verifiers -> Seq(Message)]
  /\ unsafeL2Payloads \in [Verifiers -> Seq(Entry)]
  /\ buffer \in [Verifiers -> SUBSET Entry]
  /\ chain \in [Verifiers -> Seq(Accounts \cup {None})]

(***************************************************************************)
(* What the network and the verifiers name are blocks of the sequencer.    *)
(***************************************************************************)
Exists(k) == k <= Len(blocks)

BlocksExist ==
  /\ \A m \in net : Exists(m.number)
  /\ \A n \in Verifiers :
       /\ \A k \in seen[n] : Exists(k)
       /\ \A i \in 1 .. Len(inbox[n]) : Exists(inbox[n][i].number)
       /\ \A i \in 1 .. Len(unsafeL2Payloads[n]) : Exists(unsafeL2Payloads[n][i].number)
       /\ \A e \in buffer[n] : Exists(e.number)
       /\ Exists(Len(chain[n]))
       /\ Len(unsafeL2Payloads[n]) <= ChannelCap

(***************************************************************************)
(* A breach stays one: registrations and recipients are never withdrawn.   *)
(***************************************************************************)
BreachesStay ==
  \A k \in 1 .. Len(blocks) : \A a \in blocks[k].breaches :
    /\ a \in registered
    /\ feeRecipientSet[Proposer][k] \notin {None, blocks[k].feeRecipient}

(***************************************************************************)
(* What a verifier validated was signed by the account that it screens     *)
(* for: the account only changes in a restart, which empties the inbox.    *)
(***************************************************************************)
InboxSigned ==
  \A n \in Verifiers : \A i \in 1 .. Len(inbox[n]) :
    inbox[n][i].by = p2pBlockSignerAddr[n]

(***************************************************************************)
(* Entries on their way to the engine queue, and blocks of the chain.      *)
(***************************************************************************)
EntryKept(e) == e.screened \notin blocks[e.number].breaches
EntryAuthor(e) == e.by \in {None, e.screened}

EntriesGood ==
  \A n \in Verifiers :
    /\ \A i \in 1 .. Len(unsafeL2Payloads[n]) :
         EntryKept(unsafeL2Payloads[n][i]) /\ EntryAuthor(unsafeL2Payloads[n][i])
    /\ \A e \in buffer[n] : EntryKept(e) /\ EntryAuthor(e)

ChainGood ==
  \A n \in Verifiers : \A k \in 1 .. Len(chain[n]) : chain[n][k] \notin blocks[k].breaches

(***************************************************************************)
(* The inductive invariant.                                                *)
(***************************************************************************)
CMInv ==
  /\ L1Types /\ SequencerTypes /\ NodeTypes /\ BlocksExist
  /\ BreachesStay /\ InboxSigned /\ EntriesGood /\ ChainGood

(***************************************************************************)
(* Sequences: what Append and Tail do to elements and lengths.             *)
(***************************************************************************)
LEMMA AppendFacts ==
  ASSUME NEW S, NEW s \in Seq(S), NEW e \in S
  PROVE  /\ Append(s, e) \in Seq(S) /\ Append(s, e) # << >>
         /\ Len(Append(s, e)) = Len(s) + 1 /\ Len(s) \in Nat
         /\ \A i \in 1 .. Len(s) : Append(s, e)[i] = s[i] /\ s[i] \in S
         /\ Append(s, e)[Len(s) + 1] = e
  OBVIOUS

(***************************************************************************)
(* What Head and Tail leave of a sequence.                                 *)
(***************************************************************************)
LEMMA TailFacts ==
  ASSUME NEW S, NEW s \in Seq(S), s # << >>
  PROVE  /\ Head(s) \in S /\ Head(s) = s[1] /\ 1 \in 1 .. Len(s)
         /\ Tail(s) \in Seq(S) /\ Len(Tail(s)) = Len(s) - 1 /\ Len(s) \in Nat
         /\ \A i \in 1 .. Len(Tail(s)) : Tail(s)[i] = s[i + 1] /\ i + 1 \in 1 .. Len(s)
  OBVIOUS

(***************************************************************************)
(* SequenceBlock appends one block, whose breaches are what L1 refuses at  *)
(* that moment, and gossips nothing else.                                  *)
(***************************************************************************)
LEMMA SequenceBlockFacts ==
  ASSUME L1Types, SequencerTypes, NEW r \in Coinbases, SequenceBlock(r)
  PROVE  \E payload \in Block :
           /\ blocks' = Append(blocks, payload) /\ blocks' \in Seq(Block)
           /\ Len(blocks) \in Nat /\ Len(blocks') = Len(blocks) + 1 /\ Len(blocks') <= MaxBlock
           /\ \A i \in 1 .. Len(blocks) : blocks'[i] = blocks[i]
           /\ blocks'[Len(blocks) + 1] = payload
           /\ \A a \in payload.breaches :
                a \in registered
                /\ feeRecipientSet[Proposer][Len(blocks) + 1] \notin {None, payload.feeRecipient}
           /\ \A m \in net' : m \in net \/ m = [number |-> Len(blocks) + 1, by |-> key]
<1> DEFINE k == Len(blocks) + 1
           payload == [feeRecipient |-> r,
                       breaches |-> {a \in Accounts : ~Screen(a, k, [feeRecipient |-> r])}]
<1>1. payload \in Block
  BY CommitmentsAssumption DEF Block
<1>2. /\ k <= MaxBlock /\ blocks' = Append(blocks, payload)
      /\ net' = net \cup {[number |-> k, by |-> key]} \/ net' = net
  BY DEF SequenceBlock
<1>3. \A a \in payload.breaches :
        a \in registered /\ feeRecipientSet[Proposer][k] \notin {None, payload.feeRecipient}
  BY DEF Screen, commitmentIndicatorFun
<1>4. blocks \in Seq(Block)
  BY DEF SequencerTypes
<1> HIDE DEF payload
<1>5. /\ blocks' \in Seq(Block) /\ Len(blocks') = Len(blocks) + 1 /\ Len(blocks) \in Nat
      /\ \A i \in 1 .. Len(blocks) : blocks'[i] = blocks[i]
      /\ blocks'[Len(blocks) + 1] = payload
  BY <1>1, <1>2, <1>4, AppendFacts
<1> QED
  BY <1>1, <1>2, <1>3, <1>5

(***************************************************************************)
(* The entry that OnUnsafeL2Payload makes of block k.                      *)
(***************************************************************************)
Pushed(n, k, by) == [number |-> k, by |-> by, screened |-> p2pBlockSignerAddr[n]]

(***************************************************************************)
(* OnUnsafeL2Payload drops the block, or pushes an entry that L1 accepts   *)
(* for the configured signer, to a channel that has room.                  *)
(***************************************************************************)
LEMMA PushFacts ==
  ASSUME L1Types, SequencerTypes, NodeTypes, BreachesStay,
         NEW n \in Verifiers, NEW k \in 1 .. Len(blocks), NEW by \in Accounts \cup {None},
         OnUnsafeL2Payload(n, k, by)
  PROVE  \/ UNCHANGED unsafeL2Payloads
         \/ /\ unsafeL2Payloads' = [unsafeL2Payloads EXCEPT ![n] = Append(@, Pushed(n, k, by))]
            /\ Len(unsafeL2Payloads[n]) < ChannelCap
            /\ Pushed(n, k, by) \in Entry /\ EntryKept(Pushed(n, k, by))
<1> SUFFICES ASSUME ~UNCHANGED unsafeL2Payloads
             PROVE  /\ unsafeL2Payloads' = [unsafeL2Payloads EXCEPT ![n] = Append(@, Pushed(n, k, by))]
                    /\ Len(unsafeL2Payloads[n]) < ChannelCap
                    /\ Pushed(n, k, by) \in Entry /\ EntryKept(Pushed(n, k, by))
  OBVIOUS
<1>1. /\ validateCommitments(n, k, blocks[k]) /\ Len(unsafeL2Payloads[n]) < ChannelCap
      /\ unsafeL2Payloads' = [unsafeL2Payloads EXCEPT ![n] = Append(@, Pushed(n, k, by))]
  BY DEF OnUnsafeL2Payload, Pushed
<1>2. k \in Numbers /\ p2pBlockSignerAddr[n] \in Accounts
  BY CommitmentsAssumption DEF L1Types, SequencerTypes, Numbers, Nodes
<1>3. Pushed(n, k, by) \in Entry
  BY <1>2 DEF Pushed, Entry
<1>4. p2pBlockSignerAddr[n] \notin blocks[k].breaches
  BY <1>1 DEF validateCommitments, Screen, commitmentIndicatorFun, BreachesStay
<1> QED
  BY <1>1, <1>3, <1>4 DEF EntryKept, Pushed

(***************************************************************************)
(* Every step keeps the types of L1 and of the runtime configs.            *)
(***************************************************************************)
LEMMA L1TypesStep ==
  ASSUME L1Types, [CMNext]_cmVars PROVE L1Types'
<1> USE CommitmentsAssumption DEF cmVars, l1Vars, seqVars, cfgVars, nodeVars, Numbers
<1>1. ASSUME NEW a \in Committers, NEW k \in Numbers, NEW r \in Recipients, setNewFeeRecipient(a, k, r)
     PROVE L1Types'
  BY <1>1 DEF setNewFeeRecipient, L1Types
<1>2. ASSUME NEW a \in Committers, MakeCommitment(a)
     PROVE L1Types'
  BY <1>2 DEF MakeCommitment, L1Types
<1>3. ASSUME NEW a \in Accounts, setUnsafeBlockSigner(a)
     PROVE L1Types'
  BY <1>3, AppendFacts DEF setUnsafeBlockSigner, L1Types
<1>4. ASSUME NEW a \in Accounts, RestartSequencer(a)
     PROVE L1Types'
  BY <1>4 DEF RestartSequencer, initRuntimeConfig, L1Types, Last, Nodes
<1>5. ASSUME NEW n \in Verifiers, RestartVerifier(n)
     PROVE L1Types'
  BY <1>5 DEF RestartVerifier, initRuntimeConfig, L1Types, Last, Nodes
<1>6. CASE UNCHANGED <<l1, registered, feeRecipientSet, p2pBlockSignerAddr>>
  BY <1>6 DEF L1Types
<1>7. \/ CMNext /\ ~UNCHANGED <<l1, registered, feeRecipientSet, p2pBlockSignerAddr>>
      \/ UNCHANGED <<l1, registered, feeRecipientSet, p2pBlockSignerAddr>>
  BY DEF cmVars
<1> QED
  BY <1>1, <1>2, <1>3, <1>4, <1>5, <1>6, <1>7
  DEF CMNext, L1Next, VerifierNext, SequenceBlock, PostBatch, OnNewL1Head, BlocksValidator,
      GossipIn, AltSync, DriverTakes, InsertUnsafe, Derive

(***************************************************************************)
(* Every step keeps the types of the sequencer.                            *)
(***************************************************************************)
LEMMA SequencerTypesStep ==
  ASSUME L1Types, SequencerTypes, [CMNext]_cmVars PROVE SequencerTypes'
<1> USE CommitmentsAssumption DEF cmVars, l1Vars, seqVars, cfgVars, nodeVars, Numbers
<1>1. ASSUME NEW r \in Coinbases, SequenceBlock(r)
     PROVE SequencerTypes'
  <2>1. PICK payload \in Block :
          /\ blocks' \in Seq(Block) /\ Len(blocks) \in Nat
          /\ Len(blocks') = Len(blocks) + 1 /\ Len(blocks') <= MaxBlock
          /\ \A m \in net' : m \in net \/ m = [number |-> Len(blocks) + 1, by |-> key]
    BY <1>1, SequenceBlockFacts
  <2>2. key' = key /\ batched' = batched
    BY <1>1 DEF SequenceBlock
  <2>3. [number |-> Len(blocks) + 1, by |-> key] \in Message
    BY <2>1 DEF SequencerTypes, Message
  <2> QED
    BY <2>1, <2>2, <2>3 DEF SequencerTypes
<1>2. ASSUME PostBatch
     PROVE SequencerTypes'
  BY <1>2 DEF PostBatch, SequencerTypes
<1>3. ASSUME NEW a \in Accounts, RestartSequencer(a)
     PROVE SequencerTypes'
  BY <1>3 DEF RestartSequencer, initRuntimeConfig, SequencerTypes
<1>4. CASE UNCHANGED <<key, blocks, net, batched>>
  BY <1>4 DEF SequencerTypes
<1>5. \/ CMNext /\ ~UNCHANGED <<key, blocks, net, batched>>
      \/ UNCHANGED <<key, blocks, net, batched>>
  BY DEF cmVars
<1> QED
  BY <1>1, <1>2, <1>3, <1>4, <1>5
  DEF CMNext, L1Next, VerifierNext, setNewFeeRecipient, MakeCommitment, setUnsafeBlockSigner,
      OnNewL1Head, BlocksValidator, GossipIn, AltSync, DriverTakes, InsertUnsafe, Derive,
      RestartVerifier

(***************************************************************************)
(* What OnUnsafeL2Payload does to the channels of the verifiers.           *)
(***************************************************************************)
LEMMA PushTypes ==
  ASSUME L1Types, SequencerTypes, NodeTypes, BreachesStay,
         NEW n \in Verifiers, NEW k \in 1 .. Len(blocks), NEW by \in Accounts \cup {None},
         OnUnsafeL2Payload(n, k, by)
  PROVE  unsafeL2Payloads' \in [Verifiers -> Seq(Entry)]
<1>1. CASE UNCHANGED unsafeL2Payloads
  BY <1>1 DEF NodeTypes
<1>2. CASE /\ unsafeL2Payloads' = [unsafeL2Payloads EXCEPT ![n] = Append(@, Pushed(n, k, by))]
           /\ Pushed(n, k, by) \in Entry
  <2>1. Append(unsafeL2Payloads[n], Pushed(n, k, by)) \in Seq(Entry)
    BY <1>2, AppendFacts DEF NodeTypes
  <2> QED
    BY <1>2, <2>1 DEF NodeTypes
<1> QED
  BY <1>1, <1>2, PushFacts

(***************************************************************************)
(* The channels name existing blocks and keep to their capacity.           *)
(***************************************************************************)
LEMMA PushExists ==
  ASSUME L1Types, SequencerTypes, NodeTypes, BlocksExist, BreachesStay,
         NEW n \in Verifiers, NEW k \in 1 .. Len(blocks), NEW by \in Accounts \cup {None},
         OnUnsafeL2Payload(n, k, by)
  PROVE  \A v \in Verifiers :
           /\ \A i \in 1 .. Len(unsafeL2Payloads'[v]) : Exists(unsafeL2Payloads'[v][i].number)
           /\ Len(unsafeL2Payloads'[v]) <= ChannelCap
<1>1. CASE UNCHANGED unsafeL2Payloads
  BY <1>1 DEF BlocksExist
<1>2. CASE /\ unsafeL2Payloads' = [unsafeL2Payloads EXCEPT ![n] = Append(@, Pushed(n, k, by))]
           /\ Pushed(n, k, by) \in Entry /\ Len(unsafeL2Payloads[n]) < ChannelCap
  <2> DEFINE s == unsafeL2Payloads[n]
             t == unsafeL2Payloads'[n]
  <2>1. /\ t = Append(s, Pushed(n, k, by)) /\ s \in Seq(Entry)
        /\ \A v \in Verifiers : v # n => unsafeL2Payloads'[v] = unsafeL2Payloads[v]
    BY <1>2 DEF NodeTypes
  <2>2. /\ Len(t) = Len(s) + 1 /\ Len(s) \in Nat /\ t[Len(s) + 1] = Pushed(n, k, by)
        /\ \A i \in 1 .. Len(s) : t[i] = s[i]
    BY <1>2, <2>1, AppendFacts
  <2>3. Exists(Pushed(n, k, by).number)
    BY DEF Exists, Pushed, SequencerTypes
  <2>4. \A i \in 1 .. Len(s) : Exists(s[i].number)
    BY DEF BlocksExist
  <2>5. \A i \in 1 .. Len(t) : i \in 1 .. Len(s) \/ i = Len(s) + 1
    BY <2>2
  <2>6. \A i \in 1 .. Len(t) : Exists(t[i].number)
    BY <2>2, <2>3, <2>4, <2>5, Zenon
  <2>7. Len(t) <= ChannelCap
    BY <1>2, <2>2, CommitmentsAssumption
  <2> QED
    BY <2>1, <2>6, <2>7 DEF BlocksExist
<1> QED
  BY <1>1, <1>2, PushFacts

(***************************************************************************)
(* Every step keeps the types of the verifiers.                            *)
(***************************************************************************)
LEMMA NodeTypesStep ==
  ASSUME L1Types, SequencerTypes, NodeTypes, BlocksExist, BreachesStay, [CMNext]_cmVars PROVE NodeTypes'
<1> USE CommitmentsAssumption DEF cmVars, l1Vars, seqVars, cfgVars, nodeVars, Numbers
<1>1. ASSUME NEW n \in Verifiers, NEW m \in net, BlocksValidator(n, m)
     PROVE NodeTypes'
  <2>1. m \in Message /\ m.number \in Numbers /\ inbox[n] \in Seq(Message)
    BY DEF SequencerTypes, NodeTypes, Message
  <2>2. Append(inbox[n], m) \in Seq(Message)
    BY <2>1, AppendFacts
  <2>3. inbox' = [inbox EXCEPT ![n] = Append(inbox[n], m)]
    BY <1>1 DEF BlocksValidator
  <2>4. inbox' \in [Verifiers -> Seq(Message)]
    BY <2>2, <2>3 DEF NodeTypes
  <2> QED
    BY <1>1, <2>1, <2>4 DEF BlocksValidator, NodeTypes
<1>2. ASSUME NEW n \in Verifiers, GossipIn(n)
     PROVE NodeTypes'
  <2>1. inbox[n] \in Seq(Message) /\ inbox[n] # << >>
    BY <1>2 DEF GossipIn, OnUnsafeL2Payload, NodeTypes
  <2>2. /\ Tail(inbox[n]) \in Seq(Message) /\ Head(inbox[n]) \in Message
        /\ Head(inbox[n]) = inbox[n][1] /\ 1 \in 1 .. Len(inbox[n])
    BY <2>1, TailFacts
  <2>3. Head(inbox[n]).number \in 1 .. Len(blocks) /\ Head(inbox[n]).by \in Accounts
    BY <2>2 DEF Message, BlocksExist, Exists, SequencerTypes
  <2>4. unsafeL2Payloads' \in [Verifiers -> Seq(Entry)]
    BY <1>2, <2>3, PushTypes DEF GossipIn
  <2>5. inbox' \in [Verifiers -> Seq(Message)]
    BY <1>2, <2>2 DEF GossipIn, NodeTypes
  <2> QED
    BY <1>2, <2>4, <2>5 DEF GossipIn, NodeTypes
<1>3. ASSUME NEW n \in Verifiers, NEW k \in DOMAIN blocks, AltSync(n, k)
     PROVE NodeTypes'
  <2>1. k \in 1 .. Len(blocks)
    BY DEF SequencerTypes
  <2>2. unsafeL2Payloads' \in [Verifiers -> Seq(Entry)]
    BY <1>3, <2>1, PushTypes DEF AltSync
  <2> QED
    BY <1>3, <2>2 DEF AltSync, NodeTypes
<1>4. ASSUME NEW n \in Verifiers, DriverTakes(n)
     PROVE NodeTypes'
  <2>1. unsafeL2Payloads[n] \in Seq(Entry) /\ unsafeL2Payloads[n] # << >>
    BY <1>4 DEF DriverTakes, NodeTypes
  <2>2. Tail(unsafeL2Payloads[n]) \in Seq(Entry) /\ Head(unsafeL2Payloads[n]) \in Entry
    BY <2>1, TailFacts
  <2>3. unsafeL2Payloads' \in [Verifiers -> Seq(Entry)] /\ buffer' \in [Verifiers -> SUBSET Entry]
    BY <1>4, <2>2 DEF DriverTakes, NodeTypes
  <2> QED
    BY <1>4, <2>3 DEF DriverTakes, NodeTypes
<1>5. ASSUME NEW n \in Verifiers, InsertUnsafe(n)
     PROVE NodeTypes'
  <2>1. PICK e \in buffer[n] :
          /\ buffer' = [buffer EXCEPT ![n] = @ \ {e}]
          /\ chain' = chain \/ chain' = [chain EXCEPT ![n] = Append(@, e.screened)]
    BY <1>5 DEF InsertUnsafe
  <2>2. e \in Entry /\ e.screened \in Accounts /\ chain[n] \in Seq(Accounts \cup {None})
    BY DEF NodeTypes, Entry
  <2>3. Append(chain[n], e.screened) \in Seq(Accounts \cup {None})
    BY <2>2, AppendFacts
  <2>4. buffer' \in [Verifiers -> SUBSET Entry] /\ chain' \in [Verifiers -> Seq(Accounts \cup {None})]
    BY <2>1, <2>3 DEF NodeTypes
  <2> QED
    BY <1>5, <2>4 DEF InsertUnsafe, NodeTypes
<1>6. ASSUME NEW n \in Verifiers, Derive(n)
     PROVE NodeTypes'
  <2>1. Append(chain[n], None) \in Seq(Accounts \cup {None})
    BY AppendFacts DEF NodeTypes
  <2>2. chain' \in [Verifiers -> Seq(Accounts \cup {None})]
    BY <1>6, <2>1 DEF Derive, NodeTypes
  <2> QED
    BY <1>6, <2>2 DEF Derive, NodeTypes
<1>7. ASSUME NEW n \in Verifiers, RestartVerifier(n)
     PROVE NodeTypes'
  <2>1. /\ << >> \in Seq(Message) /\ << >> \in Seq(Entry)
    OBVIOUS
  <2>2. inbox' \in [Verifiers -> Seq(Message)] /\ unsafeL2Payloads' \in [Verifiers -> Seq(Entry)]
    BY <1>7, <2>1 DEF RestartVerifier, NodeTypes
  <2>3. seen' \in [Verifiers -> SUBSET Numbers] /\ buffer' \in [Verifiers -> SUBSET Entry]
    BY <1>7 DEF RestartVerifier, NodeTypes
  <2> QED
    BY <1>7, <2>2, <2>3 DEF RestartVerifier, NodeTypes
<1>8. CASE UNCHANGED <<seen, inbox, unsafeL2Payloads, buffer, chain>>
  BY <1>8 DEF NodeTypes
<1>9. \/ CMNext /\ ~UNCHANGED <<seen, inbox, unsafeL2Payloads, buffer, chain>>
      \/ UNCHANGED <<seen, inbox, unsafeL2Payloads, buffer, chain>>
  BY DEF cmVars
<1> QED
  BY <1>1, <1>2, <1>3, <1>4, <1>5, <1>6, <1>7, <1>8, <1>9
  DEF CMNext, L1Next, VerifierNext, setNewFeeRecipient, MakeCommitment, setUnsafeBlockSigner,
      SequenceBlock, PostBatch, RestartSequencer, OnNewL1Head

(***************************************************************************)
(* Every step names blocks of the sequencer only.                          *)
(***************************************************************************)
LEMMA BlocksExistStep ==
  ASSUME L1Types, SequencerTypes, NodeTypes, BlocksExist, BreachesStay, [CMNext]_cmVars PROVE BlocksExist'
<1> USE CommitmentsAssumption DEF cmVars, l1Vars, seqVars, cfgVars, nodeVars, Numbers
<1>1. ASSUME NEW r \in Coinbases, SequenceBlock(r)
     PROVE BlocksExist'
  <2>1. PICK payload \in Block :
          /\ Len(blocks) \in Nat /\ Len(blocks') = Len(blocks) + 1
          /\ \A m \in net' : m \in net \/ m = [number |-> Len(blocks) + 1, by |-> key]
    BY <1>1, SequenceBlockFacts
  <2>2. \A k \in Nat : Exists(k) => Exists(k)'
    BY <2>1 DEF Exists
  <2>3. \A m \in net' : Exists(m.number)'
    BY <2>1, <2>2 DEF SequencerTypes, Message, BlocksExist, Exists
  <2>4. UNCHANGED nodeVars
    BY <1>1 DEF SequenceBlock
  <2>5. ASSUME NEW n \in Verifiers
        PROVE  /\ \A k \in seen[n] : Exists(k)'
               /\ \A i \in 1 .. Len(inbox[n]) : Exists(inbox[n][i].number)'
               /\ \A i \in 1 .. Len(unsafeL2Payloads[n]) : Exists(unsafeL2Payloads[n][i].number)'
               /\ \A e \in buffer[n] : Exists(e.number)'
               /\ Exists(Len(chain[n]))'
    <3>1. \A k \in seen[n] : Exists(k)'
      BY <2>2, <2>4 DEF BlocksExist, NodeTypes
    <3>2. \A i \in 1 .. Len(inbox[n]) : Exists(inbox[n][i].number)'
      <4>1. \A i \in 1 .. Len(inbox[n]) : inbox[n][i] \in Message
        BY DEF NodeTypes
      <4>2. \A i \in 1 .. Len(inbox[n]) : inbox[n][i].number \in Nat
        BY <4>1 DEF Message
      <4> QED
        BY <2>2, <2>4, <4>2 DEF BlocksExist
    <3>3. \A i \in 1 .. Len(unsafeL2Payloads[n]) : Exists(unsafeL2Payloads[n][i].number)'
      <4>1. \A i \in 1 .. Len(unsafeL2Payloads[n]) : unsafeL2Payloads[n][i] \in Entry
        BY DEF NodeTypes
      <4>2. \A i \in 1 .. Len(unsafeL2Payloads[n]) : unsafeL2Payloads[n][i].number \in Nat
        BY <4>1 DEF Entry
      <4> QED
        BY <2>2, <2>4, <4>2 DEF BlocksExist
    <3>4. \A e \in buffer[n] : Exists(e.number)'
      BY <2>2, <2>4 DEF BlocksExist, NodeTypes, Entry
    <3>5. Exists(Len(chain[n]))'
      BY <2>2, <2>4 DEF BlocksExist, NodeTypes
    <3> QED
      BY <3>1, <3>2, <3>3, <3>4, <3>5
  <2> QED
    BY <2>3, <2>4, <2>5 DEF BlocksExist
<1>2. ASSUME NEW n \in Verifiers, NEW m \in net, BlocksValidator(n, m)
     PROVE BlocksExist'
  BY <1>2 DEF BlocksValidator, BlocksExist, SequencerTypes, NodeTypes, Exists
<1>3. ASSUME NEW n \in Verifiers, GossipIn(n)
     PROVE BlocksExist'
  <2>1. inbox[n] \in Seq(Message) /\ inbox[n] # << >>
    BY <1>3 DEF GossipIn, OnUnsafeL2Payload, NodeTypes
  <2>2. /\ Head(inbox[n]) \in Message /\ Head(inbox[n]) = inbox[n][1] /\ 1 \in 1 .. Len(inbox[n])
        /\ \A i \in 1 .. Len(Tail(inbox[n])) :
             Tail(inbox[n])[i] = inbox[n][i + 1] /\ i + 1 \in 1 .. Len(inbox[n])
    BY <2>1, TailFacts
  <2>3. Head(inbox[n]).number \in 1 .. Len(blocks) /\ Head(inbox[n]).by \in Accounts
    BY <2>2 DEF Message, BlocksExist, Exists, SequencerTypes
  <2>4. UNCHANGED <<blocks, net, seen, buffer, chain>> /\ inbox' = [inbox EXCEPT ![n] = Tail(@)]
    BY <1>3 DEF GossipIn
  <2>5. \A v \in Verifiers :
          /\ \A i \in 1 .. Len(unsafeL2Payloads'[v]) : Exists(unsafeL2Payloads'[v][i].number)
          /\ Len(unsafeL2Payloads'[v]) <= ChannelCap
    BY <1>3, <2>3, PushExists DEF GossipIn
  <2> QED
    BY <2>2, <2>4, <2>5 DEF BlocksExist, NodeTypes, Exists
<1>4. ASSUME NEW n \in Verifiers, NEW k \in DOMAIN blocks, AltSync(n, k)
     PROVE BlocksExist'
  <2>1. k \in 1 .. Len(blocks)
    BY DEF SequencerTypes
  <2>2. \A v \in Verifiers :
          /\ \A i \in 1 .. Len(unsafeL2Payloads'[v]) : Exists(unsafeL2Payloads'[v][i].number)
          /\ Len(unsafeL2Payloads'[v]) <= ChannelCap
    BY <1>4, <2>1, PushExists DEF AltSync
  <2> QED
    BY <1>4, <2>2 DEF AltSync, BlocksExist, Exists
<1>5. ASSUME NEW n \in Verifiers, DriverTakes(n)
     PROVE BlocksExist'
  BY <1>5 DEF DriverTakes, BlocksExist, SequencerTypes, NodeTypes, Exists
<1>6. ASSUME NEW n \in Verifiers, InsertUnsafe(n)
     PROVE BlocksExist'
  BY <1>6 DEF InsertUnsafe, BlocksExist, SequencerTypes, NodeTypes, Exists
<1>7. ASSUME NEW n \in Verifiers, Derive(n)
     PROVE BlocksExist'
  BY <1>7 DEF Derive, BlocksExist, SequencerTypes, NodeTypes, Exists
<1>8. ASSUME NEW n \in Verifiers, RestartVerifier(n)
     PROVE BlocksExist'
  BY <1>8 DEF RestartVerifier, initRuntimeConfig, BlocksExist, SequencerTypes, NodeTypes, Exists
<1>9. CASE UNCHANGED <<blocks, net, seen, inbox, unsafeL2Payloads, buffer, chain>>
  BY <1>9 DEF BlocksExist, Exists
<1>10. \/ CMNext /\ ~UNCHANGED <<blocks, net, seen, inbox, unsafeL2Payloads, buffer, chain>>
      \/ UNCHANGED <<blocks, net, seen, inbox, unsafeL2Payloads, buffer, chain>>
  BY DEF cmVars
<1> QED
  BY <1>1, <1>2, <1>3, <1>4, <1>5, <1>6, <1>7, <1>8, <1>9, <1>10
  DEF CMNext, L1Next, VerifierNext, setNewFeeRecipient, MakeCommitment, setUnsafeBlockSigner,
      PostBatch, RestartSequencer, OnNewL1Head

(***************************************************************************)
(* No step ends a breach.                                                  *)
(***************************************************************************)
LEMMA BreachesStayStep ==
  ASSUME L1Types, SequencerTypes, BreachesStay, [CMNext]_cmVars PROVE BreachesStay'
<1> USE CommitmentsAssumption DEF cmVars, l1Vars, seqVars, cfgVars, nodeVars, Numbers
<1>1. ASSUME NEW a \in Committers, NEW k \in Numbers, NEW r \in Recipients, setNewFeeRecipient(a, k, r)
     PROVE BreachesStay'
  BY <1>1 DEF setNewFeeRecipient, BreachesStay, L1Types, SequencerTypes
<1>2. ASSUME NEW a \in Committers, MakeCommitment(a)
     PROVE BreachesStay'
  BY <1>2 DEF MakeCommitment, BreachesStay, L1Types, SequencerTypes
<1>3. ASSUME NEW r \in Coinbases, SequenceBlock(r)
     PROVE BreachesStay'
  <2>1. PICK payload \in Block :
          /\ Len(blocks) \in Nat /\ Len(blocks') = Len(blocks) + 1
          /\ \A i \in 1 .. Len(blocks) : blocks'[i] = blocks[i]
          /\ blocks'[Len(blocks) + 1] = payload
          /\ \A a \in payload.breaches :
               a \in registered
               /\ feeRecipientSet[Proposer][Len(blocks) + 1] \notin {None, payload.feeRecipient}
    BY <1>3, SequenceBlockFacts
  <2>2. UNCHANGED <<registered, feeRecipientSet>>
    BY <1>3 DEF SequenceBlock
  <2> QED
    BY <2>1, <2>2 DEF BreachesStay
<1>4. CASE UNCHANGED <<registered, feeRecipientSet, blocks>>
  BY <1>4 DEF BreachesStay
<1>5. \/ CMNext /\ ~UNCHANGED <<registered, feeRecipientSet, blocks>>
      \/ UNCHANGED <<registered, feeRecipientSet, blocks>>
  BY DEF cmVars
<1> QED
  BY <1>1, <1>2, <1>3, <1>4, <1>5
  DEF CMNext, L1Next, VerifierNext, setUnsafeBlockSigner, PostBatch, RestartSequencer,
      OnNewL1Head, BlocksValidator, GossipIn, AltSync, DriverTakes, InsertUnsafe, Derive,
      RestartVerifier

(***************************************************************************)
(* Every step keeps the authors of validated messages.                     *)
(***************************************************************************)
LEMMA InboxSignedStep ==
  ASSUME L1Types, NodeTypes, InboxSigned, [CMNext]_cmVars PROVE InboxSigned'
<1> USE CommitmentsAssumption DEF cmVars, l1Vars, seqVars, cfgVars, nodeVars, Numbers
<1>1. ASSUME NEW a \in Accounts, RestartSequencer(a)
     PROVE InboxSigned'
  BY <1>1 DEF RestartSequencer, initRuntimeConfig, InboxSigned, L1Types, NodeTypes, Nodes
<1>2. ASSUME NEW n \in Verifiers, NEW m \in net, BlocksValidator(n, m)
     PROVE InboxSigned'
  BY <1>2 DEF BlocksValidator, InboxSigned, L1Types, NodeTypes, Nodes
<1>3. ASSUME NEW n \in Verifiers, GossipIn(n)
     PROVE InboxSigned'
  BY <1>3 DEF GossipIn, OnUnsafeL2Payload, InboxSigned, L1Types, NodeTypes, Nodes
<1>4. ASSUME NEW n \in Verifiers, RestartVerifier(n)
     PROVE InboxSigned'
  BY <1>4 DEF RestartVerifier, initRuntimeConfig, InboxSigned, L1Types, NodeTypes, Nodes
<1>5. CASE UNCHANGED <<p2pBlockSignerAddr, inbox>>
  BY <1>5 DEF InboxSigned
<1>6. \/ CMNext /\ ~UNCHANGED <<p2pBlockSignerAddr, inbox>>
      \/ UNCHANGED <<p2pBlockSignerAddr, inbox>>
  BY DEF cmVars
<1> QED
  BY <1>1, <1>2, <1>3, <1>4, <1>5, <1>6
  DEF CMNext, L1Next, VerifierNext, setNewFeeRecipient, MakeCommitment, setUnsafeBlockSigner,
      SequenceBlock, PostBatch, OnNewL1Head, AltSync, DriverTakes, InsertUnsafe, Derive

(***************************************************************************)
(* A pushed entry keeps what is said of the entries.                       *)
(***************************************************************************)
LEMMA PushGood ==
  ASSUME CMInv, UNCHANGED <<blocks, buffer>>,
         NEW n \in Verifiers, NEW k \in 1 .. Len(blocks),
         NEW by \in {None, p2pBlockSignerAddr[n]},
         OnUnsafeL2Payload(n, k, by)
  PROVE  EntriesGood'
<1> USE DEF CMInv
<1>1. CASE UNCHANGED unsafeL2Payloads
  BY <1>1 DEF EntriesGood, EntryKept, EntryAuthor
<1>2. CASE /\ unsafeL2Payloads' = [unsafeL2Payloads EXCEPT ![n] = Append(@, Pushed(n, k, by))]
           /\ Pushed(n, k, by) \in Entry /\ EntryKept(Pushed(n, k, by))
  <2> DEFINE s == unsafeL2Payloads[n]
             t == unsafeL2Payloads'[n]
  <2>1. /\ t = Append(s, Pushed(n, k, by)) /\ s \in Seq(Entry)
        /\ \A v \in Verifiers : v # n => unsafeL2Payloads'[v] = unsafeL2Payloads[v]
    BY <1>2 DEF NodeTypes
  <2>2. /\ Len(t) = Len(s) + 1 /\ Len(s) \in Nat /\ t[Len(s) + 1] = Pushed(n, k, by)
        /\ \A i \in 1 .. Len(s) : t[i] = s[i]
    BY <1>2, <2>1, AppendFacts
  <2>3. EntryAuthor(Pushed(n, k, by))
    BY DEF EntryAuthor, Pushed
  <2>4. \A i \in 1 .. Len(t) : EntryKept(t[i]) /\ EntryAuthor(t[i])
    BY <1>2, <2>2, <2>3 DEF EntriesGood
  <2> HIDE DEF CMInv
  <2>5. \A e : EntryKept(e)' = EntryKept(e)
    BY DEF EntryKept
  <2> QED
    BY <2>1, <2>4, <2>5 DEF EntriesGood, CMInv, EntryAuthor, EntryKept
<1>3. p2pBlockSignerAddr[n] \in Accounts
  BY DEF L1Types, Nodes
<1> QED
  BY <1>1, <1>2, <1>3, PushFacts

(***************************************************************************)
(* Every step keeps what the screening said of the entries.                *)
(***************************************************************************)
LEMMA EntriesGoodStep ==
  ASSUME CMInv, [CMNext]_cmVars PROVE EntriesGood'
<1> USE CommitmentsAssumption DEF cmVars, l1Vars, seqVars, cfgVars, nodeVars, Numbers
<1>1. ASSUME NEW r \in Coinbases, SequenceBlock(r)
     PROVE EntriesGood'
  <2>1. PICK payload \in Block : \A i \in 1 .. Len(blocks) : blocks'[i] = blocks[i]
    BY <1>1, SequenceBlockFacts DEF CMInv
  <2>2. UNCHANGED nodeVars
    BY <1>1 DEF SequenceBlock
  <2>3. \A e \in Entry : Exists(e.number) /\ EntryKept(e) => EntryKept(e)'
    BY <2>1 DEF Exists, EntryKept, Entry, CMInv, SequencerTypes
  <2> QED
    BY <2>2, <2>3 DEF EntriesGood, EntryAuthor, CMInv, BlocksExist, NodeTypes
<1>2. ASSUME NEW n \in Verifiers, GossipIn(n)
     PROVE EntriesGood'
  <2>1. inbox[n] \in Seq(Message) /\ inbox[n] # << >>
    BY <1>2 DEF GossipIn, OnUnsafeL2Payload, CMInv, NodeTypes
  <2>2. Head(inbox[n]) \in Message /\ Head(inbox[n]) = inbox[n][1] /\ 1 \in 1 .. Len(inbox[n])
    BY <2>1, TailFacts
  <2>3. /\ Head(inbox[n]).number \in 1 .. Len(blocks) /\ Head(inbox[n]).by \in Accounts
        /\ Head(inbox[n]).by = p2pBlockSignerAddr[n]
    BY <2>2 DEF Message, CMInv, BlocksExist, Exists, SequencerTypes, InboxSigned
  <2> QED
    BY <1>2, <2>3, PushGood DEF GossipIn
<1>3. ASSUME NEW n \in Verifiers, NEW k \in DOMAIN blocks, AltSync(n, k)
     PROVE EntriesGood'
  <2>1. k \in 1 .. Len(blocks)
    BY DEF CMInv, SequencerTypes
  <2> QED
    BY <1>3, <2>1, PushGood DEF AltSync
<1>4. ASSUME NEW n \in Verifiers, DriverTakes(n)
     PROVE EntriesGood'
  BY <1>4 DEF DriverTakes, EntriesGood, CMInv, NodeTypes, EntryKept, EntryAuthor
<1>5. ASSUME NEW n \in Verifiers, InsertUnsafe(n)
     PROVE EntriesGood'
  BY <1>5 DEF InsertUnsafe, EntriesGood, CMInv, NodeTypes, EntryKept, EntryAuthor
<1>6. ASSUME NEW n \in Verifiers, RestartVerifier(n)
     PROVE EntriesGood'
  BY <1>6 DEF RestartVerifier, initRuntimeConfig, EntriesGood, CMInv, NodeTypes, EntryKept, EntryAuthor
<1>7. CASE UNCHANGED <<blocks, unsafeL2Payloads, buffer>>
  BY <1>7 DEF EntriesGood, CMInv, EntryKept, EntryAuthor
<1>8. \/ CMNext /\ ~UNCHANGED <<blocks, unsafeL2Payloads, buffer>>
      \/ UNCHANGED <<blocks, unsafeL2Payloads, buffer>>
  BY DEF cmVars
<1> QED
  BY <1>1, <1>2, <1>3, <1>4, <1>5, <1>6, <1>7, <1>8
  DEF CMNext, L1Next, VerifierNext, setNewFeeRecipient, MakeCommitment, setUnsafeBlockSigner,
      PostBatch, RestartSequencer, OnNewL1Head, BlocksValidator, Derive

(***************************************************************************)
(* Every step keeps what the screening said of the chain.                  *)
(***************************************************************************)
LEMMA ChainGoodStep ==
  ASSUME CMInv, [CMNext]_cmVars PROVE ChainGood'
<1> USE CommitmentsAssumption DEF cmVars, l1Vars, seqVars, cfgVars, nodeVars, Numbers
<1>1. ASSUME NEW r \in Coinbases, SequenceBlock(r)
     PROVE ChainGood'
  <2>1. PICK payload \in Block : \A i \in 1 .. Len(blocks) : blocks'[i] = blocks[i]
    BY <1>1, SequenceBlockFacts DEF CMInv
  <2>2. UNCHANGED chain
    BY <1>1 DEF SequenceBlock
  <2>3. \A n \in Verifiers : \A k \in 1 .. Len(chain[n]) : k \in 1 .. Len(blocks)
    BY DEF CMInv, SequencerTypes, NodeTypes, BlocksExist, Exists
  <2> QED
    BY <2>1, <2>2, <2>3 DEF ChainGood, CMInv
<1>2. ASSUME NEW n \in Verifiers, InsertUnsafe(n)
     PROVE ChainGood'
  <2>1. PICK e \in buffer[n] :
          \/ chain' = chain
          \/ e.number = Len(chain[n]) + 1 /\ chain' = [chain EXCEPT ![n] = Append(@, e.screened)]
    BY <1>2 DEF InsertUnsafe
  <2>2. e \in Entry /\ EntryKept(e) /\ e.screened \in Accounts /\ chain[n] \in Seq(Accounts \cup {None})
    BY DEF CMInv, NodeTypes, Entry, EntriesGood
  <2>3. CASE chain' = chain
    BY <1>2, <2>3 DEF InsertUnsafe, ChainGood, CMInv
  <2>4. CASE e.number = Len(chain[n]) + 1 /\ chain' = [chain EXCEPT ![n] = Append(@, e.screened)]
    BY <1>2, <2>2, <2>4, AppendFacts DEF InsertUnsafe, ChainGood, CMInv, EntryKept, NodeTypes
  <2> QED
    BY <2>1, <2>3, <2>4
<1>3. ASSUME NEW n \in Verifiers, Derive(n)
     PROVE ChainGood'
  <2>1. \A k \in 1 .. Len(blocks) : None \notin blocks[k].breaches
    <3>1. \A k \in 1 .. Len(blocks) : blocks[k] \in Block
      BY DEF CMInv, SequencerTypes
    <3> QED
      BY <3>1 DEF Block
  <2>2. chain[n] \in Seq(Accounts \cup {None}) /\ Len(chain[n]) + 1 \in 1 .. Len(blocks)
    BY <1>3 DEF Derive, CMInv, NodeTypes, SequencerTypes
  <2> QED
    BY <1>3, <2>1, <2>2, AppendFacts DEF Derive, ChainGood, CMInv, NodeTypes
<1>4. CASE UNCHANGED <<blocks, chain>>
  BY <1>4 DEF ChainGood, CMInv
<1>5. \/ CMNext /\ ~UNCHANGED <<blocks, chain>>
      \/ UNCHANGED <<blocks, chain>>
  BY DEF cmVars
<1> QED
  BY <1>1, <1>2, <1>3, <1>4, <1>5
  DEF CMNext, L1Next, VerifierNext, setNewFeeRecipient, MakeCommitment, setUnsafeBlockSigner,
      PostBatch, RestartSequencer, OnNewL1Head, BlocksValidator, GossipIn, AltSync,
      DriverTakes, RestartVerifier

(***************************************************************************)
(* The invariant holds at the start.                                       *)
(***************************************************************************)
LEMMA CMInitInv == CMInit => CMInv
<1> SUFFICES ASSUME CMInit PROVE CMInv
  OBVIOUS
<1> USE CommitmentsAssumption DEF CMInit
<1>1. L1Types
  BY DEF L1Types, Numbers
<1>2. SequencerTypes /\ NodeTypes
  BY DEF SequencerTypes, NodeTypes
<1>3. BlocksExist /\ BreachesStay /\ InboxSigned /\ EntriesGood /\ ChainGood
  BY DEF BlocksExist, Exists, BreachesStay, InboxSigned, EntriesGood, ChainGood
<1> QED
  BY <1>1, <1>2, <1>3 DEF CMInv

(***************************************************************************)
(* Every step keeps the invariant.                                         *)
(***************************************************************************)
LEMMA CMInvInductive == CMInv /\ [CMNext]_cmVars => CMInv'
<1> SUFFICES ASSUME CMInv, [CMNext]_cmVars PROVE CMInv'
  OBVIOUS
<1>1. L1Types' /\ SequencerTypes'
  BY L1TypesStep, SequencerTypesStep DEF CMInv
<1>2. NodeTypes' /\ BlocksExist'
  BY NodeTypesStep, BlocksExistStep DEF CMInv
<1>3. BreachesStay' /\ InboxSigned'
  BY BreachesStayStep, InboxSignedStep DEF CMInv
<1>4. EntriesGood' /\ ChainGood'
  BY EntriesGoodStep, ChainGoodStep
<1> QED
  BY <1>1, <1>2, <1>3, <1>4 DEF CMInv

(***************************************************************************)
(* The invariant holds of the specification.                               *)
(***************************************************************************)
LEMMA CMInvHolds == CMSpec => []CMInv
  BY CMInitInv, CMInvInductive, PTL DEF CMSpec

(***************************************************************************)
(* Type correctness of the commitments model; the driver's channel keeps   *)
(* to its capacity (CMTypeOK).                                             *)
(***************************************************************************)
THEOREM CMTypeCorrect == CMSpec => []CMTypeOK
<1>1. CMInv => CMTypeOK
  BY DEF CMInv, CMTypeOK, L1Types, SequencerTypes, NodeTypes, BlocksExist, Exists, Numbers
<1> QED
  BY <1>1, CMInvHolds, PTL

(***************************************************************************)
(* No block that breached a commitment when it was built passes the        *)
(* screening of OnUnsafeL2Payload for that account (ScreenedKept).         *)
(***************************************************************************)
THEOREM CMScreenedKept == CMSpec => []ScreenedKept
<1>1. ASSUME CMInv PROVE ScreenedKept
  <2>1. \A n \in Verifiers : DOMAIN unsafeL2Payloads[n] = 1 .. Len(unsafeL2Payloads[n])
                             /\ DOMAIN chain[n] = 1 .. Len(chain[n])
    BY <1>1 DEF CMInv, NodeTypes
  <2>2. \A n \in Verifiers : \A e \in Pending(n) : e.screened \notin blocks[e.number].breaches
    BY <1>1, <2>1 DEF CMInv, Pending, Range, EntriesGood, EntryKept
  <2> QED
    BY <1>1, <2>1, <2>2 DEF CMInv, ScreenedKept, ChainGood
<1> QED
  BY <1>1, CMInvHolds, PTL

(***************************************************************************)
(* A gossiped payload is screened for the account that signed it           *)
(* (AuthorScreened).                                                       *)
(***************************************************************************)
THEOREM CMAuthorScreened == CMSpec => []AuthorScreened
<1>1. CMInv => AuthorScreened
  BY DEF CMInv, AuthorScreened, Pending, Range, EntriesGood, EntryAuthor, NodeTypes
<1> QED
  BY <1>1, CMInvHolds, PTL
=============================================================================
