------------------------------- MODULE Driver -------------------------------
(***************************************************************************)
(* The event loop of the rollup driver (op-node/rollup/driver/state.go)    *)
(* with the sequencer it runs (sequencer.go): one goroutine that waits for *)
(* L1 signals, unsafe payloads, requests and timers, and steps the         *)
(* derivation pipeline and the sequencer in turn.                          *)
(*                                                                         *)
(* The pipeline is reduced to what the loop can tell of it: how far a      *)
(* reset has come, how much it can still derive, and what a step returns.  *)
(* The two heads are reduced to their distance, the block building job to  *)
(* whose it is and whether it builds on the unsafe head.  Time is reduced  *)
(* to the order in which delays end.                                       *)
(***************************************************************************)
EXTENDS Naturals

CONSTANTS NumStages,             \* stages of the derivation pipeline
          SequencerMaxSafeLag,   \* 0, or the lag at which sequencing waits
          MaxLag,                \* bound: a larger lag counts as this one
          MaxBacklog,            \* bound: L1 data that waits to be derived
          MaxResets              \* bound: resets after the one at the start

ASSUME DriverAssumption ==
  /\ NumStages \in Nat \ {0} /\ SequencerMaxSafeLag \in 0 .. MaxLag
  /\ MaxLag \in Nat \ {0} /\ MaxBacklog \in Nat \ {0} /\ MaxResets \in Nat

VARIABLES
  running,     \* the event loop runs
  stepReq,     \* stepReqCh is full
  delayed,     \* delayedStepReq is scheduled
  failing,     \* stepAttempts > 0
  resetting,   \* DerivationPipeline.resetting
  backlog,     \* how much L1 data the pipeline has still to derive from
  attrs,       \* EngineQueue.safeAttributes: none, or whether they match the
               \* unsafe block on the safe head
  payload,     \* an unsafe payload waits that fits the head
  lag,         \* unsafe head number - safe head number
  job,         \* the block building job of the engine queue
  known,       \* an L1 head was signalled
  stopped,     \* driverConfig.SequencerStopped
  timer,       \* sequencerCh: "nil", or when it fires: "wait" stands for the
               \* end of a backoff, "due" for any time
  holdOff,     \* Sequencer.nextAction is in the future
  resets       \* resets so far

stepVars == <<stepReq, delayed, failing>>
workVars == <<backlog, attrs, payload>>
pipeVars == <<resetting, backlog, attrs, payload, lag, job>>
seqVars == <<known, stopped, holdOff>>
driverVars == <<running, stepReq, delayed, failing, resetting, backlog, attrs,
                payload, lag, job, known, stopped, timer, holdOff, resets>>

NoJob == [owner |-> "none", onHead |-> FALSE]
SequencerJob == [owner |-> "sequencer", onHead |-> TRUE]
Jobs == [owner : {"none", "sequencer", "derivation"}, onHead : BOOLEAN]

EngineReady == resetting > 0

SafeLagExceeded == SequencerMaxSafeLag > 0 /\ lag >= SequencerMaxSafeLag

(***************************************************************************)
(* PlanNextSequencerAction: wait while derivation builds a block, and for  *)
(* nextAction if a job builds on the head.  Otherwise the delay depends on *)
(* the time of the head only.                                              *)
(***************************************************************************)
Planned == IF job.owner = "derivation" \/ (holdOff /\ job.onHead)
           THEN "wait" ELSE "due"

(***************************************************************************)
(* The top of the loop, with the state that the last event has left: the   *)
(* timer is switched off, set anew because the head changed, or left as    *)
(* it is.                                                                  *)
(***************************************************************************)
MutLoopTop(t) ==    \* slip: a new head does not set the timer anew
  IF stopped' \/ ~known' \/ ~EngineReady' \/ SafeLagExceeded' THEN "nil" ELSE t

LoopTop(t) ==
  IF stopped' \/ ~known' \/ ~EngineReady' \/ SafeLagExceeded' THEN "nil"
  ELSE IF ~job'.onHead THEN Planned'
  ELSE t

(***************************************************************************)
(* reqStep, where the count of attempts is what f says: a reattempt is     *)
(* delayed, and a request is dropped if one is there.                      *)
(***************************************************************************)
reqStep(f) ==
  /\ failing' = f
  /\ delayed' = (delayed \/ f)
  /\ stepReq' = (stepReq \/ ~f)

(***************************************************************************)
(* The same after the request in stepReqCh was taken.                      *)
(***************************************************************************)
reqStepAgain(f) ==
  /\ failing' = f
  /\ delayed' = (delayed \/ f)
  /\ stepReq' = ~f

noStep(f) ==
  /\ failing' = f
  /\ stepReq' = FALSE
  /\ UNCHANGED delayed

Capped(n, max) == IF n > max THEN max ELSE n

(***************************************************************************)
(* The external events.  A new L1 head may bring data, and an unsafe       *)
(* payload is something to process.                                        *)
(***************************************************************************)
MutL1HeadSignal ==    \* slip: no step is requested
  /\ running
  /\ known' = TRUE
  /\ backlog' \in {backlog, Capped(backlog + 1, MaxBacklog)}
  /\ UNCHANGED <<running, resetting, attrs, payload, lag, job, stopped, holdOff,
                 resets>>
  /\ UNCHANGED stepVars
  /\ timer' = LoopTop(timer)

L1HeadSignal ==
  /\ running
  /\ known' = TRUE
  /\ backlog' \in {backlog, Capped(backlog + 1, MaxBacklog)}
  /\ reqStep(failing)
  /\ UNCHANGED <<running, resetting, attrs, payload, lag, job, stopped, holdOff,
                 resets>>
  /\ timer' = LoopTop(timer)

UnsafePayload ==
  /\ running
  /\ payload' \in {payload, TRUE}
  /\ reqStep(failing)
  /\ UNCHANGED <<running, resetting, backlog, attrs, lag, job, resets>>
  /\ UNCHANGED seqVars
  /\ timer' = LoopTop(timer)

L1FinalizedSignal ==
  /\ running
  /\ reqStep(failing)
  /\ UNCHANGED <<running, resets>>
  /\ UNCHANGED pipeVars
  /\ UNCHANGED seqVars
  /\ timer' = LoopTop(timer)

DelayEnds ==
  /\ running /\ delayed
  /\ delayed' = FALSE /\ stepReq' = TRUE
  /\ UNCHANGED <<running, failing, resets>>
  /\ UNCHANGED pipeVars
  /\ UNCHANGED seqVars
  /\ timer' = LoopTop(timer)

(***************************************************************************)
(* Step while stages are to be reset.  The first one is the engine queue:  *)
(* it finds the heads again and forgets the attributes and the job.        *)
(***************************************************************************)
MutStepResets ==    \* slip: the attributes are kept
  /\ running /\ stepReq /\ resetting < NumStages
  /\ resetting' = resetting + 1
  /\ IF resetting = 0
     THEN /\ lag' \in 0 .. MaxLag /\ job' = NoJob /\ UNCHANGED attrs
          /\ backlog' \in backlog .. MaxBacklog
     ELSE UNCHANGED <<lag, job, attrs, backlog>>
  /\ reqStepAgain(FALSE)
  /\ UNCHANGED <<running, payload, resets>>
  /\ UNCHANGED seqVars
  /\ timer' = LoopTop(timer)

StepResets ==
  /\ running /\ stepReq /\ resetting < NumStages
  /\ resetting' = resetting + 1
  /\ IF resetting = 0
     THEN /\ lag' \in 0 .. MaxLag /\ job' = NoJob /\ attrs' = "none"
          /\ backlog' \in backlog .. MaxBacklog
     ELSE UNCHANGED <<lag, job, attrs, backlog>>
  /\ reqStepAgain(FALSE)
  /\ UNCHANGED <<running, payload, resets>>
  /\ UNCHANGED seqVars
  /\ timer' = LoopTop(timer)

(***************************************************************************)
(* Attributes conflict with the unsafe chain if there is no block on the   *)
(* safe head, and may match it otherwise.                                  *)
(***************************************************************************)
Judged(newLag) == IF newLag = 0 THEN {"conflict"} ELSE {"match", "conflict"}

(***************************************************************************)
(* A step of the engine queue, in the order in which it looks for work: an *)
(* unsafe payload is processed, ...                                        *)
(***************************************************************************)
ProcessPayload ==
  /\ payload /\ payload' = FALSE
  /\ lag' = Capped(lag + 1, MaxLag)
  /\ job' = [job EXCEPT !.onHead = FALSE]
  /\ IF attrs # "none" /\ lag = 0 THEN attrs' \in Judged(lag')
                                   ELSE UNCHANGED attrs
  /\ UNCHANGED backlog

(***************************************************************************)
(* ... the safe head consolidates with the next unsafe block, which leaves *)
(* the building job alone; or a block is forced on the safe head, which    *)
(* replaces the job and drops a longer unsafe chain; or the engine rejects *)
(* that block and the job is cancelled; ...                                *)
(***************************************************************************)
ProcessAttributes ==
  /\ ~payload
  /\ \/ attrs = "match" /\ lag' = lag - 1 /\ UNCHANGED job
     \/ attrs = "conflict" /\ lag' \in {0, lag} /\ job' = NoJob
  /\ attrs' = "none" /\ backlog' = backlog - 1
  /\ UNCHANGED payload

(***************************************************************************)
(* ... or L1 data is read that yields nothing.                             *)
(***************************************************************************)
ReadL1 ==
  /\ ~payload /\ attrs = "none" /\ backlog > 0
  /\ backlog' = backlog - 1
  /\ UNCHANGED <<attrs, payload, lag, job>>

StepProgress ==
  /\ running /\ stepReq /\ resetting = NumStages
  /\ ProcessPayload \/ ProcessAttributes \/ ReadL1
  /\ reqStepAgain(FALSE)
  /\ UNCHANGED <<running, resetting, resets>>
  /\ UNCHANGED seqVars
  /\ timer' = LoopTop(timer)

(***************************************************************************)
(* The data read so far yields attributes, or needs more.                  *)
(***************************************************************************)
MutStepNotEnoughData ==    \* slip: the error counts as the end of the data
  /\ running /\ stepReq /\ resetting = NumStages
  /\ ~payload /\ attrs = "none" /\ backlog > 0
  /\ attrs' \in {"none"} \cup Judged(lag)
  /\ noStep(FALSE)
  /\ UNCHANGED <<running, resetting, backlog, payload, lag, job, resets>>
  /\ UNCHANGED seqVars
  /\ timer' = LoopTop(timer)

StepNotEnoughData ==
  /\ running /\ stepReq /\ resetting = NumStages
  /\ ~payload /\ attrs = "none" /\ backlog > 0
  /\ attrs' \in {"none"} \cup Judged(lag)
  /\ reqStepAgain(FALSE)
  /\ UNCHANGED <<running, resetting, backlog, payload, lag, job, resets>>
  /\ UNCHANGED seqVars
  /\ timer' = LoopTop(timer)

StepIdle ==
  /\ running /\ stepReq /\ resetting = NumStages
  /\ ~payload /\ backlog = 0
  /\ noStep(FALSE)
  /\ UNCHANGED <<running, resets>>
  /\ UNCHANGED pipeVars
  /\ UNCHANGED seqVars
  /\ timer' = LoopTop(timer)

(***************************************************************************)
(* A temporary or an unclassified error.  If the forced block was started  *)
(* but could not be completed, its job stays.                              *)
(***************************************************************************)
StepFails ==
  /\ running /\ stepReq
  /\ \/ UNCHANGED job
     \/ /\ resetting = NumStages /\ ~payload /\ attrs = "conflict"
        /\ job' = [owner |-> "derivation", onHead |-> lag = 0]
  /\ reqStepAgain(TRUE)
  /\ UNCHANGED <<running, resetting, lag, resets>>
  /\ UNCHANGED workVars
  /\ UNCHANGED seqVars
  /\ timer' = LoopTop(timer)

(***************************************************************************)
(* A reset error, after which no step is requested.  If the engine could   *)
(* not build on its state, the job was cancelled.                          *)
(***************************************************************************)
StepNeedsReset ==
  /\ running /\ stepReq
  /\ resets < MaxResets /\ resets' = resets + 1
  /\ noStep(TRUE)
  /\ resetting' = 0
  /\ job' \in {job, NoJob}
  /\ UNCHANGED <<running, lag>>
  /\ UNCHANGED workVars
  /\ UNCHANGED seqVars
  /\ timer' = LoopTop(timer)

(***************************************************************************)
(* ResetDerivationPipeline, StartSequencer and StopSequencer, as called by *)
(* an operator; the last two may fail to persist the new state and then do *)
(* nothing.                                                                *)
(***************************************************************************)
ForceReset ==
  /\ running
  /\ resets < MaxResets /\ resets' = resets + 1
  /\ resetting' = 0
  /\ UNCHANGED <<running, lag, job>>
  /\ UNCHANGED workVars
  /\ UNCHANGED stepVars
  /\ UNCHANGED seqVars
  /\ timer' = LoopTop(timer)

MutStartSequencer ==    \* slip: the next action is not planned
  /\ running /\ stopped
  /\ stopped' = FALSE
  /\ UNCHANGED <<running, known, holdOff, resets>>
  /\ UNCHANGED stepVars
  /\ UNCHANGED pipeVars
  /\ timer' = LoopTop(timer)

StartSequencer ==
  /\ running /\ stopped
  /\ stopped' = FALSE
  /\ UNCHANGED <<running, known, holdOff, resets>>
  /\ UNCHANGED stepVars
  /\ UNCHANGED pipeVars
  /\ timer' = LoopTop(Planned)

StopSequencer ==
  /\ running /\ ~stopped
  /\ stopped' = TRUE
  /\ UNCHANGED <<running, known, holdOff, resets>>
  /\ UNCHANGED stepVars
  /\ UNCHANGED pipeVars
  /\ timer' = LoopTop(timer)

(***************************************************************************)
(* RunNextSequencerAction when sequencerCh fires.  After it the loop plans *)
(* the next action.                                                        *)
(***************************************************************************)
Fires == running /\ timer = "due"

AvoidSequencing ==
  /\ Fires /\ job.owner = "derivation"
  /\ holdOff' = TRUE
  /\ UNCHANGED <<running, known, stopped, resets>>
  /\ UNCHANGED stepVars
  /\ UNCHANGED pipeVars
  /\ timer' = LoopTop(Planned')

StartBuilding ==
  /\ Fires /\ job.owner = "none"
  /\ job' = SequencerJob
  /\ UNCHANGED <<running, resetting, lag, resets>>
  /\ UNCHANGED workVars
  /\ UNCHANGED stepVars
  /\ UNCHANGED seqVars
  /\ timer' = LoopTop(Planned')

CompleteBuilding ==
  /\ Fires /\ job.owner = "sequencer"
  /\ job' = NoJob
  /\ IF job.onHead THEN lag' = Capped(lag + 1, MaxLag)
                   ELSE lag' \in 0 .. Capped(lag + 1, MaxLag)
  /\ IF attrs # "none" /\ (lag = 0 \/ ~job.onHead) THEN attrs' \in Judged(lag')
                                                   ELSE UNCHANGED attrs
  /\ UNCHANGED <<running, resetting, backlog, payload, resets>>
  /\ UNCHANGED stepVars
  /\ UNCHANGED seqVars
  /\ timer' = LoopTop(Planned')

(***************************************************************************)
(* Starting fails with a temporary or an unclassified error, completing    *)
(* with an unclassified one (the engine queue has no temporary ones        *)
(* there), which cancels the job.                                          *)
(***************************************************************************)
SequencingFails ==
  /\ Fires /\ job.owner # "derivation"
  /\ holdOff' = TRUE
  /\ job' = NoJob
  /\ UNCHANGED <<running, resetting, lag, known, stopped, resets>>
  /\ UNCHANGED workVars
  /\ UNCHANGED stepVars
  /\ timer' = LoopTop(Planned')

(***************************************************************************)
(* Starting or completing fails with a reset error.                        *)
(***************************************************************************)
SequencingNeedsReset ==
  /\ Fires /\ job.owner # "derivation"
  /\ resets < MaxResets /\ resets' = resets + 1
  /\ holdOff' = TRUE
  /\ job' = NoJob
  /\ resetting' = 0
  /\ UNCHANGED <<running, lag, known, stopped>>
  /\ UNCHANGED workVars
  /\ UNCHANGED stepVars
  /\ timer' = LoopTop(Planned')

(***************************************************************************)
(* Time passes until the backoff of the sequencer is over.                 *)
(***************************************************************************)
HoldOffEnds ==
  /\ holdOff \/ timer = "wait"
  /\ holdOff' = FALSE
  /\ timer' = IF timer = "wait" THEN "due" ELSE timer
  /\ UNCHANGED <<running, known, stopped, resets>>
  /\ UNCHANGED stepVars
  /\ UNCHANGED pipeVars

(***************************************************************************)
(* Close, or a critical error of a step or of the sequencer.               *)
(***************************************************************************)
LoopEnds ==
  /\ running
  /\ running' = FALSE
  /\ UNCHANGED <<timer, resets>>
  /\ UNCHANGED stepVars
  /\ UNCHANGED pipeVars
  /\ UNCHANGED seqVars

(***************************************************************************)
(* Start: the pipeline is to be reset and a step is requested.             *)
(***************************************************************************)
DriverInit ==
  /\ running = TRUE
  /\ stepReq = TRUE /\ delayed = FALSE /\ failing = FALSE
  /\ resetting = 0 /\ backlog = 0 /\ attrs = "none" /\ payload = FALSE
  /\ lag = 0 /\ job = NoJob
  /\ known = FALSE /\ stopped \in BOOLEAN
  /\ timer = "nil" /\ holdOff = FALSE
  /\ resets = 0

DeriveStep == \/ StepResets \/ StepProgress \/ StepNotEnoughData
              \/ StepIdle \/ StepFails \/ StepNeedsReset

SequencerStep == \/ AvoidSequencing \/ StartBuilding \/ CompleteBuilding
                 \/ SequencingFails \/ SequencingNeedsReset

DriverNext == \/ L1HeadSignal \/ UnsafePayload \/ L1FinalizedSignal
              \/ DelayEnds \/ DeriveStep \/ SequencerStep \/ HoldOffEnds
              \/ ForceReset \/ StartSequencer \/ StopSequencer \/ LoopEnds

(***************************************************************************)
(* L1 heads keep coming, delays end, and select picks a ready case at      *)
(* random, so each one that is ready again and again is taken.  What fails *)
(* does not fail for ever.                                                 *)
(***************************************************************************)
DriverSpec ==
  /\ DriverInit /\ [][DriverNext]_driverVars
  /\ WF_driverVars(L1HeadSignal) /\ WF_driverVars(HoldOffEnds)
  /\ SF_driverVars(DelayEnds)
  /\ SF_driverVars(StepResets) /\ SF_driverVars(StepProgress)
  /\ SF_driverVars(StepIdle)
  /\ SF_driverVars(StartBuilding) /\ SF_driverVars(CompleteBuilding)

-----------------------------------------------------------------------------

(***************************************************************************)
(* Type invariant.                                                         *)
(***************************************************************************)
DriverTypeOK ==
  /\ running \in BOOLEAN
  /\ stepReq \in BOOLEAN /\ delayed \in BOOLEAN /\ failing \in BOOLEAN
  /\ resetting \in 0 .. NumStages /\ backlog \in 0 .. MaxBacklog
  /\ attrs \in {"none", "match", "conflict"} /\ payload \in BOOLEAN
  /\ lag \in 0 .. MaxLag
  /\ (attrs # "none" => backlog > 0) /\ (attrs = "match" => lag > 0)
  /\ job \in Jobs /\ (job.owner = "none" => ~job.onHead)
  /\ known \in BOOLEAN /\ stopped \in BOOLEAN
  /\ timer \in {"nil", "wait", "due"} /\ holdOff \in BOOLEAN
  /\ resets \in 0 .. MaxResets

(***************************************************************************)
(* No step is lost: what derivation has to do is scheduled, at once or     *)
(* with a delay, although requests are dropped, delayed and merged.  The   *)
(* exception is a reset that has not begun, which may wait for the next    *)
(* signal.                                                                 *)
(***************************************************************************)
WorkScheduled ==
  running /\ (resetting \in 1 .. NumStages - 1
              \/ (resetting = NumStages /\ (payload \/ backlog > 0)))
    => stepReq \/ delayed

(***************************************************************************)
(* The timer of the sequencer is set exactly when it may act.  So it never *)
(* acts on an engine that is being reset, before an L1 head is known, when *)
(* stopped or beyond the safe lag; and no sequence of resets, lags,        *)
(* restarts of the sequencer and head changes switches the timer off for   *)
(* good.  Only a job that derivation has left on the head can keep it off, *)
(* until derivation comes back to it.                                      *)
(***************************************************************************)
SequencerArmed ==
  running =>
    LET mayAct == ~stopped /\ known /\ EngineReady /\ ~SafeLagExceeded
    IN  /\ timer # "nil" => mayAct
        /\ mayAct => \/ timer # "nil"
                     \/ job = [owner |-> "derivation", onHead |-> TRUE]

(***************************************************************************)
(* After every reset the engine is ready again, as long as L1 heads come   *)
(* in: neither the missing request after a reset error nor the backoff     *)
(* after failures leaves the node without an engine.                       *)
(***************************************************************************)
EngineReadyAgain == ~EngineReady ~> EngineReady \/ ~running

(***************************************************************************)
(* A sequencer that stays started, on a chain whose safe head keeps up,    *)
(* makes blocks for ever, through resets, failures and payloads that move  *)
(* the head under its job, if derivation does not force blocks against its *)
(* job for ever and does not leave a job of its own for good.              *)
(***************************************************************************)
SequencerMayAct == running /\ ~stopped /\ ~SafeLagExceeded

ReplacesJob == /\ job.owner = "sequencer" /\ job'.owner # "sequencer"
               /\ StepProgress \/ StepFails

SequencerMakesBlocks ==
  (/\ <>[]SequencerMayAct
   /\ []<>(job.owner # "derivation")
   /\ <>[][~ReplacesJob]_driverVars)
    => []<><<CompleteBuilding>>_driverVars

(***************************************************************************)
(* "If the engine is currently building safe blocks, then that building is *)
(* not interrupted, and sequencing is delayed" (sequencer.go), for the     *)
(* time of a block: it goes on afterwards, unless derivation forces blocks *)
(* for ever.                                                               *)
(***************************************************************************)
SequencingResumes ==
  <>[]SequencerMayAct /\ <>[][~ReplacesJob]_driverVars
    => []<><<CompleteBuilding>>_driverVars
=============================================================================
