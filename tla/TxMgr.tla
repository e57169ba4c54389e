------------------------------- MODULE TxMgr -------------------------------
(***************************************************************************)
(* The transaction manager (op-service/txmgr): concurrent calls of Send    *)
(* from one account, started by the goroutines of a Queue.  Each call      *)
(* crafts a transaction with the next nonce, publishes it, and publishes   *)
(* it again with a higher fee, always with the same nonce, until one       *)
(* version is confirmed or it gives up.  Every version has a goroutine     *)
(* that publishes it and polls for its receipt.                            *)
(*                                                                         *)
(* A version is the pair <<s, v>> of the call and the count of fee bumps.  *)
(* L1 is the sequence recent of its last NumConfirmations blocks, with at  *)
(* most one of the account's transactions each, and the set final of the   *)
(* transactions below; reorgs stay within recent.  A block number that a   *)
(* goroutine has read is kept as the number of confirmations it stands for *)
(* at the current tip.                                                     *)
(***************************************************************************)
EXTENDS Integers, SequencesExt

CONSTANTS Sends,                       \* the calls of Send
          NumConfirmations,
          SafeAbortNonceTooLowCount,
          MaxVersions,                 \* bound: versions of each call's transaction
          MaxFaults                    \* bound: failed calls of the node or the signer,
                                       \* and reorgs

ASSUME TxMgrAssumption ==
  /\ {NumConfirmations, SafeAbortNonceTooLowCount} \subseteq Nat \ {0}
  /\ MaxVersions \in [Sends -> Nat \ {0}]
  /\ MaxFaults \in Nat

VARIABLES
  nonce,        \* SimpleTxManager.nonce, Nil when it is reset
  groupErr,     \* the queue's group is cancelled
  pc,           \* idle, craft, loop, bump, failing, failed, done
  txNonce,      \* the nonce of each version, Nil before it exists
  version,      \* the latest version
  publishing,   \* versions that a goroutine is about to publish
  worker,       \* polling for a version's receipt: none, poll, read
  confs,        \* confirmations of the receipt a goroutine has read
  minedTxs, nonceTooLowCount, published,   \* SendState
  receiptChan,  \* {} or {the version that is confirmed}
  mempool, recent, final,                  \* L1
  torn,         \* versions reorged between the two reads of their goroutine
  skipped,      \* a nonce was taken for a transaction that was never made
  faults

mgrVars == <<nonce, groupErr>>
sendVars == <<pc, txNonce, version, receiptChan>>
stateVars == <<minedTxs, nonceTooLowCount, published>>
workerVars == <<publishing, worker, confs>>
chainVars == <<mempool, recent, final, torn>>
bounds == <<skipped, faults>>
vars == <<mgrVars, sendVars, stateVars, workerVars, chainVars, bounds>>

Nil == -1
NoTx == <<>>
Versions == UNION {{s} \X (1 .. MaxVersions[s]) : s \in Sends}

TxMgrInit ==
  /\ nonce = Nil /\ groupErr = FALSE
  /\ pc = [s \in Sends |-> "idle"]
  /\ txNonce = [w \in Versions |-> Nil]
  /\ version = [s \in Sends |-> 0]
  /\ receiptChan = [s \in Sends |-> {}]
  /\ minedTxs = [s \in Sends |-> {}]
  /\ nonceTooLowCount = [s \in Sends |-> 0]
  /\ published = [s \in Sends |-> FALSE]
  /\ publishing = {}
  /\ worker = [w \in Versions |-> "none"] /\ confs = [w \in Versions |-> 0]
  /\ mempool = {} /\ recent = <<>> /\ final = {} /\ torn = {}
  /\ skipped = FALSE /\ faults = 0

-----------------------------------------------------------------------------
(***************************************************************************)
(* The account on L1: its transactions and its nonce at the latest block.  *)
(***************************************************************************)
OnChain == final \cup (ToSet(recent) \ {NoTx})

NonceAt == Cardinality(OnChain)

Active(s) == pc[s] \notin {"idle", "failed", "done"}

Fault == faults < MaxFaults /\ faults' = faults + 1

(***************************************************************************)
(* Queue.Send: a goroutine of the group calls Send.  A cancelled group is  *)
(* waited for and replaced.                                                *)
(***************************************************************************)
QueueSend(s) ==
  /\ pc[s] = "idle" /\ pc' = [pc EXCEPT ![s] = "craft"]
  /\ groupErr => \A r \in Sends : ~Active(r)
  /\ groupErr' = FALSE
  /\ UNCHANGED <<nonce, txNonce, version, receiptChan, stateVars, workerVars,
                 chainVars, bounds>>

(***************************************************************************)
(* nextNonce, and craftTx, which takes a nonce and then has to estimate    *)
(* the gas and sign.  When that fails it is called again, and takes        *)
(* another nonce.                                                          *)
(***************************************************************************)
MutNextNonce == NonceAt    \* slip: the nonce is always queried

nextNonce == IF nonce = Nil THEN NonceAt ELSE nonce + 1

craftTx(s) ==
  /\ pc[s] = "craft" /\ pc' = [pc EXCEPT ![s] = "loop"]
  /\ nonce' = nextNonce
  /\ txNonce' = [txNonce EXCEPT ![<<s, 1>>] = nextNonce]
  /\ version' = [version EXCEPT ![s] = 1]
  /\ publishing' = publishing \cup {<<s, 1>>}
  /\ UNCHANGED <<groupErr, receiptChan, stateVars, worker, confs, chainVars, bounds>>

craftTxFails(s) ==
  /\ pc[s] = "craft" /\ Fault /\ skipped' = TRUE
  /\ nonce' = nextNonce
  /\ UNCHANGED <<groupErr, sendVars, stateVars, workerVars, chainVars>>

(***************************************************************************)
(* Send fails: the nonce is reset, all goroutines of the call have ended   *)
(* (wg.Wait).  Only after its receipt is read does the goroutine return    *)
(* the error that cancels the group.                                       *)
(***************************************************************************)
EndState(s) ==
  /\ minedTxs' = [minedTxs EXCEPT ![s] = {}]
  /\ nonceTooLowCount' = [nonceTooLowCount EXCEPT ![s] = 0]
  /\ published' = [published EXCEPT ![s] = FALSE]
  /\ publishing' = {w \in publishing : w[1] # s}
  /\ worker' = [w \in Versions |-> IF w[1] = s THEN "none" ELSE worker[w]]
  /\ confs' = [w \in Versions |-> IF w[1] = s THEN 0 ELSE confs[w]]

Fail(s) ==
  /\ pc' = [pc EXCEPT ![s] = "failing"]
  /\ nonce' = Nil
  /\ EndState(s)
  /\ UNCHANGED <<groupErr, txNonce, version, receiptChan, chainVars, bounds>>

ReturnError(s) ==
  /\ pc[s] = "failing" /\ pc' = [pc EXCEPT ![s] = "failed"]
  /\ groupErr' = TRUE
  /\ UNCHANGED <<nonce, txNonce, version, receiptChan, stateVars, workerVars, chainVars,
                 bounds>>

\* craftTx has failed as often as it is tried, with or without taking nonces.
craftTxGivesUp(s) == pc[s] = "craft" /\ Fail(s)

MutCtxDone(s) == groupErr /\ pc[s] = "craft" /\ Fail(s)
  \* slip: the loop of sendTx does not watch its context

CtxDone(s) == groupErr /\ pc[s] \in {"craft", "loop"} /\ Fail(s)

(***************************************************************************)
(* publishAndWaitForTx: the node refuses a nonce below the account's, and  *)
(* a transaction it knows; it accepts another one, in the place of one     *)
(* with the same nonce, unless the fee is too low for that.                *)
(***************************************************************************)
Rivals(w) == {m \in mempool : txNonce[m] = txNonce[w]}

PublishTooLow(w) ==
  /\ txNonce[w] < NonceAt
  /\ nonceTooLowCount' = [nonceTooLowCount EXCEPT
                            ![w[1]] = IF @ < SafeAbortNonceTooLowCount THEN @ + 1 ELSE @]
  /\ UNCHANGED <<published, worker, mempool>>

PublishAccepted(w) ==
  /\ txNonce[w] >= NonceAt /\ w \notin mempool
  /\ published' = [published EXCEPT ![w[1]] = TRUE]
  /\ worker' = [worker EXCEPT ![w] = IF @ = "none" THEN "poll" ELSE @]
  /\ mempool' = (mempool \ Rivals(w)) \cup {w}
  /\ UNCHANGED nonceTooLowCount

PublishRefused(w) ==
  /\ txNonce[w] >= NonceAt /\ Rivals(w) # {}
  /\ UNCHANGED <<nonceTooLowCount, published, worker, mempool>>

Publish(w) ==
  /\ w \in publishing /\ publishing' = publishing \ {w}
  /\ PublishTooLow(w) \/ PublishAccepted(w) \/ PublishRefused(w)
  /\ UNCHANGED <<mgrVars, sendVars, minedTxs, confs, recent, final, torn, bounds>>

\* The node is not reached, or it accepts the transaction and its answer is lost.
PublishFails(w) ==
  /\ w \in publishing /\ publishing' = publishing \ {w} /\ Fault
  /\ \/ UNCHANGED mempool
     \/ txNonce[w] >= NonceAt /\ mempool' = (mempool \ Rivals(w)) \cup {w}
  /\ UNCHANGED <<mgrVars, sendVars, stateVars, worker, confs, recent, final, torn, skipped>>

(***************************************************************************)
(* queryReceipt: first the receipt is read, later the tip.                 *)
(***************************************************************************)
TxNotMined(w) ==
  LET s == w[1] IN
  /\ minedTxs' = [minedTxs EXCEPT ![s] = @ \ {w}]
  /\ nonceTooLowCount' = [nonceTooLowCount EXCEPT
                            ![s] = IF minedTxs[s] = {w} THEN 0 ELSE @]

Confirmations(w) ==
  IF w \in final THEN NumConfirmations
  ELSE Len(recent) + 1 - (CHOOSE i \in DOMAIN recent : recent[i] = w)

ReadReceipt(w) ==
  /\ worker[w] = "poll"
  /\ IF w \in OnChain
       THEN /\ minedTxs' = [minedTxs EXCEPT ![w[1]] = @ \cup {w}]
            /\ worker' = [worker EXCEPT ![w] = "read"]
            /\ confs' = [confs EXCEPT ![w] = Confirmations(w)]
            /\ UNCHANGED nonceTooLowCount
       ELSE TxNotMined(w) /\ UNCHANGED <<worker, confs>>
  /\ UNCHANGED <<mgrVars, sendVars, published, publishing, chainVars, bounds>>

MutIsConfirmed(w) == confs[w] + 1 >= NumConfirmations    \* slip: off by one

IsConfirmed(w) == confs[w] >= NumConfirmations

ReadTip(w) ==
  /\ worker[w] = "read"
  /\ confs' = [confs EXCEPT ![w] = 0]
  /\ IF IsConfirmed(w)
       THEN /\ worker' = [worker EXCEPT ![w] = "none"]
            /\ receiptChan' = [receiptChan EXCEPT ![w[1]] = IF @ = {} THEN {w} ELSE @]
       ELSE /\ worker' = [worker EXCEPT ![w] = "poll"]
            /\ UNCHANGED receiptChan
  /\ UNCHANGED <<mgrVars, pc, txNonce, version, stateVars, publishing, chainVars, bounds>>

(***************************************************************************)
(* The loop of sendTx.  On a tick: nothing while a version is mined; give  *)
(* up after too many nonce errors, or when nothing is published by the     *)
(* deadline; otherwise bump the fee and publish, unless a version has been *)
(* mined meanwhile.  A transaction that cannot be signed again is          *)
(* published as it is: at the bound, every bump is of that kind.           *)
(***************************************************************************)
IsWaitingForConfirmation(s) == minedTxs[s] # {}

ShouldAbortImmediately(s) ==
  /\ ~IsWaitingForConfirmation(s)
  /\ nonceTooLowCount[s] >= SafeAbortNonceTooLowCount \/ ~published[s]

Abort(s) == pc[s] = "loop" /\ ShouldAbortImmediately(s) /\ Fail(s)

Tick(s) ==
  /\ pc[s] = "loop" /\ ~IsWaitingForConfirmation(s)
  /\ nonceTooLowCount[s] < SafeAbortNonceTooLowCount
  /\ pc' = [pc EXCEPT ![s] = "bump"]
  /\ UNCHANGED <<mgrVars, txNonce, version, receiptChan, stateVars, workerVars,
                 chainVars, bounds>>

MutBumpedNonce(s) == nonce    \* slip: the bumped version takes the latest nonce

BumpedNonce(s) == txNonce[<<s, version[s]>>]

increaseGasPrice(s) ==
  LET v == IF version[s] < MaxVersions[s] THEN version[s] + 1 ELSE version[s] IN
  /\ pc[s] = "bump" /\ ~IsWaitingForConfirmation(s)
  /\ pc' = [pc EXCEPT ![s] = "loop"]
  /\ version' = [version EXCEPT ![s] = v]
  /\ txNonce' = [txNonce EXCEPT ![<<s, v>>] = BumpedNonce(s)]
  /\ publishing' = publishing \cup {<<s, v>>}
  /\ UNCHANGED <<mgrVars, receiptChan, stateVars, worker, confs, chainVars, bounds>>

NoBump(s) ==
  /\ pc[s] = "bump" /\ pc' = [pc EXCEPT ![s] = "loop"]
  /\ IF IsWaitingForConfirmation(s) THEN UNCHANGED faults ELSE Fault
  /\ UNCHANGED <<mgrVars, txNonce, version, receiptChan, stateVars, workerVars,
                 chainVars, skipped>>

Return(s) ==
  /\ pc[s] = "loop" /\ receiptChan[s] # {}
  /\ pc' = [pc EXCEPT ![s] = "done"]
  /\ EndState(s)
  /\ UNCHANGED <<mgrVars, txNonce, version, receiptChan, chainVars, bounds>>

-----------------------------------------------------------------------------
(***************************************************************************)
(* L1.  A block carries a transaction with the account's nonce, or none.   *)
(* A reorg replaces fewer than NumConfirmations blocks by one more; the    *)
(* transactions it drops are pending again.                                *)
(***************************************************************************)
Extended(blocks) ==
  LET cut == Len(blocks) - NumConfirmations IN
  IF cut <= 0 THEN recent' = blocks /\ UNCHANGED final
  ELSE /\ recent' = SubSeq(blocks, cut + 1, Len(blocks))
       /\ final' = final \cup (ToSet(SubSeq(blocks, 1, cut)) \ {NoTx})

TipAdvances ==
  confs' = [w \in Versions |-> IF worker[w] = "read" /\ confs[w] < NumConfirmations
                                 THEN confs[w] + 1 ELSE confs[w]]

Mine(w) ==
  /\ w \in mempool /\ txNonce[w] = NonceAt
  /\ Extended(Append(recent, w)) /\ TipAdvances
  /\ mempool' = mempool \ Rivals(w)
  /\ UNCHANGED <<mgrVars, sendVars, stateVars, publishing, worker, torn, bounds>>

MineEmpty ==
  /\ Extended(Append(recent, NoTx)) /\ TipAdvances
  /\ UNCHANGED <<mgrVars, sendVars, stateVars, publishing, worker, mempool, torn, bounds>>

Reorg ==
  /\ Fault
  /\ \E d \in 1 .. NumConfirmations - 1 :
       LET kept == Len(recent) - d
           dropped == ToSet(SubSeq(recent, kept + 1, Len(recent))) \ {NoTx}
       IN /\ kept >= 0
          /\ Extended(SubSeq(recent, 1, kept) \o [i \in 1 .. d + 1 |-> NoTx])
          /\ mempool' = mempool \cup dropped
          /\ torn' = torn \cup {w \in dropped : worker[w] = "read"}
  /\ TipAdvances
  /\ UNCHANGED <<mgrVars, sendVars, stateVars, publishing, worker, skipped>>

SendStep(s) ==
  \/ QueueSend(s) \/ craftTx(s) \/ craftTxFails(s) \/ craftTxGivesUp(s)
  \/ CtxDone(s) \/ ReturnError(s)
  \/ Abort(s) \/ Tick(s) \/ increaseGasPrice(s) \/ NoBump(s) \/ Return(s)

WorkerStep(w) == Publish(w) \/ PublishFails(w) \/ ReadReceipt(w) \/ ReadTip(w)

Next ==
  \/ \E s \in Sends : SendStep(s)
  \/ \E w \in Versions : WorkerStep(w) \/ Mine(w)
  \/ MineEmpty \/ Reorg

(***************************************************************************)
(* Goroutines run and their tickers fire; a select with several ready      *)
(* cases takes each of them in the end; L1 goes on and takes a pending     *)
(* transaction.                                                            *)
(***************************************************************************)
SendRuns(s) ==
  \/ craftTx(s) \/ ReturnError(s) \/ Abort(s) \/ Tick(s) \/ increaseGasPrice(s) \/ NoBump(s)
  \/ Return(s)

WorkerRuns(w) == Publish(w) \/ ReadReceipt(w) \/ ReadTip(w)

Fairness ==
  /\ \A s \in Sends : WF_vars(SendRuns(s)) /\ SF_vars(CtxDone(s))
  /\ \A w \in Versions : WF_vars(WorkerRuns(w))
  /\ WF_vars(MineEmpty) /\ WF_vars(\E w \in Versions : Mine(w))

Spec == TxMgrInit /\ [][Next]_vars /\ Fairness

-----------------------------------------------------------------------------
(***************************************************************************)
(* The types of the transaction manager's state.                           *)
(***************************************************************************)
TxMgrTypeOK ==
  /\ nonce \in Nat \cup {Nil} /\ groupErr \in BOOLEAN
  /\ pc \in [Sends -> {"idle", "craft", "loop", "bump", "failing", "failed", "done"}]
  /\ \A s \in Sends : version[s] \in 0 .. MaxVersions[s]
  /\ \A s \in Sends : minedTxs[s] \cup receiptChan[s] \subseteq {<<s, v>> : v \in 1 .. version[s]}
  /\ publishing \cup mempool \cup OnChain \cup torn \subseteq {w \in Versions : txNonce[w] # Nil}
  /\ Len(recent) <= NumConfirmations
  /\ \A w \in Versions : confs[w] \in 0 .. NumConfirmations

(***************************************************************************)
(* A call of Send puts its candidate on L1 at most once, however often it  *)
(* bumps the fee, republishes, or sees a version reorged.                  *)
(***************************************************************************)
IncludedOnce ==
  \A s \in Sends : Cardinality({w \in OnChain : w[1] = s}) <= 1

(***************************************************************************)
(* "Send can be called concurrently, the nonce will be managed internally" *)
(* (txmgr.go:162): no two calls have the same nonce, as long as no call    *)
(* has failed and reset the count.                                         *)
(***************************************************************************)
NoncesDistinct ==
  (\A s \in Sends : pc[s] \notin {"failing", "failed"}) =>
    \A v, w \in Versions : txNonce[v] # Nil /\ txNonce[v] = txNonce[w] => v[1] = w[1]

(***************************************************************************)
(* A receipt that Send has returned is for a version of its own candidate  *)
(* that stays on L1 whatever reorgs follow - except for a version dropped  *)
(* by a reorg between the reading of its receipt and the reading of the    *)
(* tip, which is counted as confirmed at the height it no longer has.      *)
(***************************************************************************)
ReceiptStays ==
  \A s \in Sends : pc[s] = "done" =>
    \A w \in receiptChan[s] : w[1] = s /\ (w \in OnChain \/ w \in torn)

(***************************************************************************)
(* Every call of Send returns, unless a nonce was skipped: it does not     *)
(* wait for a transaction whose nonce is taken by another one.             *)
(***************************************************************************)
ReturnsUnlessSkipped ==
  \A s \in Sends : Active(s) ~> (pc[s] \in {"failed", "done"} \/ skipped)

(***************************************************************************)
(* "Send is used to publish a transaction with incrementally higher gas    *)
(* prices until the transaction eventually confirms" (txmgr.go:154): the   *)
(* call returns, with or without a receipt.                                *)
(***************************************************************************)
SendReturns ==
  \A s \in Sends : Active(s) ~> pc[s] \in {"failed", "done"}
=============================================================================
