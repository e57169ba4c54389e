---------------------------- MODULE DriverProofs ----------------------------
(***************************************************************************)
(* Proofs about Driver, for every number of pipeline stages, every safe    *)
(* lag and every bound: the step requests and the timer of the sequencer.  *)
(***************************************************************************)
EXTENDS Driver, TLAPS

(***************************************************************************)
(* A job of the sequencer on the head was started by a timer that was on,  *)
(* and the lag has not grown since: a payload moves the head under the     *)
(* job, and every other change of the lag ends it or makes it smaller.     *)
(***************************************************************************)
JobWithinLag == job = SequencerJob => known /\ ~SafeLagExceeded

(***************************************************************************)
(* The inductive invariant.                                                *)
(***************************************************************************)
DriverInv == DriverTypeOK /\ WorkScheduled /\ SequencerArmed /\ JobWithinLag

(***************************************************************************)
(* Start establishes the invariant.                                        *)
(***************************************************************************)
LEMMA DriverInitInv == DriverInit => DriverInv
<1> SUFFICES ASSUME DriverInit PROVE DriverInv
  OBVIOUS
<1> USE DriverAssumption
<1>1. DriverTypeOK
  <2>1. job \in Jobs /\ (job.owner = "none" => ~job.onHead)
    BY DEF DriverInit, NoJob, Jobs
  <2>2. /\ resetting \in 0 .. NumStages /\ backlog \in 0 .. MaxBacklog
        /\ lag \in 0 .. MaxLag /\ resets \in 0 .. MaxResets
    BY DEF DriverInit
  <2> QED
    BY <2>1, <2>2, Zenon DEF DriverInit, DriverTypeOK
<1>2. WorkScheduled
  BY DEF DriverInit, WorkScheduled
<1>3. SequencerArmed
  BY DEF DriverInit, SequencerArmed, EngineReady
<1>4. JobWithinLag
  BY DEF DriverInit, JobWithinLag, NoJob, SequencerJob
<1> QED
  BY <1>1, <1>2, <1>3, <1>4 DEF DriverInv

(***************************************************************************)
(* The jobs that the driver can see.                                       *)
(***************************************************************************)
JobOK(j) == j \in Jobs /\ (j.owner = "none" => ~j.onHead)

(***************************************************************************)
(* The jobs that the model can start are well formed, and stay so when     *)
(* the head moves under them.                                              *)
(***************************************************************************)
LEMMA JobsOK ==
  /\ JobOK(NoJob) /\ JobOK(SequencerJob)
  /\ \A b \in BOOLEAN : JobOK([owner |-> "derivation", onHead |-> b])
  /\ \A j : JobOK(j) => JobOK([j EXCEPT !.onHead = FALSE])
<1>1. JobOK(NoJob) /\ JobOK(SequencerJob)
  BY DEF JobOK, Jobs, NoJob, SequencerJob
<1>2. \A b \in BOOLEAN : JobOK([owner |-> "derivation", onHead |-> b])
  BY DEF JobOK, Jobs
<1>3. \A j : JobOK(j) => JobOK([j EXCEPT !.onHead = FALSE])
  BY DEF JobOK, Jobs
<1> QED
  BY <1>1, <1>2, <1>3

(***************************************************************************)
(* Every event keeps the types.                                            *)
(***************************************************************************)
LEMMA DriverTypeStep ==
  ASSUME DriverTypeOK, [DriverNext]_driverVars PROVE DriverTypeOK'
<1> USE DriverAssumption DEF DriverTypeOK, LoopTop, Planned, Capped, Judged, Jobs, NoJob, SequencerJob,
        stepVars, workVars, pipeVars, seqVars
<1>1. CASE L1HeadSignal
  BY <1>1 DEF L1HeadSignal, reqStep
<1>2. CASE UnsafePayload
  BY <1>2, ZenonT(60) DEF UnsafePayload, reqStep
<1>3. CASE L1FinalizedSignal
  BY <1>3 DEF L1FinalizedSignal, reqStep
<1>4. CASE DelayEnds
  BY <1>4, ZenonT(60) DEF DelayEnds
<1>5. CASE StepResets
  <2>1. /\ resetting' \in 0 .. NumStages /\ backlog' \in 0 .. MaxBacklog
        /\ lag' \in 0 .. MaxLag /\ resets' \in 0 .. MaxResets
        /\ attrs' \in {"none", "match", "conflict"}
        /\ (attrs' # "none" => backlog' > 0) /\ (attrs' = "match" => lag' > 0)
    BY <1>5 DEF StepResets, reqStepAgain
  <2>2. JobOK(job')
    <3> HIDE DEF Jobs, NoJob, SequencerJob
    <3> QED
      BY <1>5, JobsOK DEF StepResets, reqStepAgain, JobOK
  <2>3. timer' \in {"nil", "wait", "due"}
    BY <1>5 DEF StepResets, reqStepAgain
  <2>4. /\ running' \in BOOLEAN /\ stepReq' \in BOOLEAN /\ delayed' \in BOOLEAN
        /\ failing' \in BOOLEAN /\ payload' \in BOOLEAN /\ known' \in BOOLEAN
        /\ stopped' \in BOOLEAN /\ holdOff' \in BOOLEAN
    BY <1>5 DEF StepResets, reqStepAgain
  <2> QED
    BY <2>1, <2>2, <2>3, <2>4 DEF JobOK
<1>6. CASE StepProgress
  <2>1. /\ resetting' \in 0 .. NumStages /\ backlog' \in 0 .. MaxBacklog
        /\ lag' \in 0 .. MaxLag /\ resets' \in 0 .. MaxResets
        /\ attrs' \in {"none", "match", "conflict"}
        /\ (attrs' # "none" => backlog' > 0) /\ (attrs' = "match" => lag' > 0)
    BY <1>6 DEF StepProgress, reqStepAgain, ProcessPayload, ProcessAttributes, ReadL1
  <2>2. JobOK(job')
    <3> HIDE DEF Jobs, NoJob, SequencerJob
    <3> QED
      BY <1>6, JobsOK DEF StepProgress, reqStepAgain, ProcessPayload, ProcessAttributes, ReadL1, JobOK
  <2>3. timer' \in {"nil", "wait", "due"}
    BY <1>6 DEF StepProgress, reqStepAgain, ProcessPayload, ProcessAttributes, ReadL1
  <2>4. /\ running' \in BOOLEAN /\ stepReq' \in BOOLEAN /\ delayed' \in BOOLEAN
        /\ failing' \in BOOLEAN /\ payload' \in BOOLEAN /\ known' \in BOOLEAN
        /\ stopped' \in BOOLEAN /\ holdOff' \in BOOLEAN
    BY <1>6 DEF StepProgress, reqStepAgain, ProcessPayload, ProcessAttributes, ReadL1
  <2> QED
    BY <2>1, <2>2, <2>3, <2>4 DEF JobOK
<1>7. CASE StepNotEnoughData
  <2>1. /\ resetting' \in 0 .. NumStages /\ backlog' \in 0 .. MaxBacklog
        /\ lag' \in 0 .. MaxLag /\ resets' \in 0 .. MaxResets
        /\ attrs' \in {"none", "match", "conflict"}
        /\ (attrs' # "none" => backlog' > 0) /\ (attrs' = "match" => lag' > 0)
    BY <1>7 DEF StepNotEnoughData, reqStepAgain
  <2>2. JobOK(job')
    <3> HIDE DEF Jobs, NoJob, SequencerJob
    <3> QED
      BY <1>7, JobsOK DEF StepNotEnoughData, reqStepAgain, JobOK
  <2>3. timer' \in {"nil", "wait", "due"}
    BY <1>7 DEF StepNotEnoughData, reqStepAgain
  <2>4. /\ running' \in BOOLEAN /\ stepReq' \in BOOLEAN /\ delayed' \in BOOLEAN
        /\ failing' \in BOOLEAN /\ payload' \in BOOLEAN /\ known' \in BOOLEAN
        /\ stopped' \in BOOLEAN /\ holdOff' \in BOOLEAN
    BY <1>7 DEF StepNotEnoughData, reqStepAgain
  <2> QED
    BY <2>1, <2>2, <2>3, <2>4 DEF JobOK
<1>8. CASE StepIdle
  BY <1>8 DEF StepIdle, noStep
<1>9. CASE StepFails
  <2>1. /\ resetting' \in 0 .. NumStages /\ backlog' \in 0 .. MaxBacklog
        /\ lag' \in 0 .. MaxLag /\ resets' \in 0 .. MaxResets
        /\ attrs' \in {"none", "match", "conflict"}
        /\ (attrs' # "none" => backlog' > 0) /\ (attrs' = "match" => lag' > 0)
    BY <1>9 DEF StepFails, reqStepAgain
  <2>2. JobOK(job')
    <3> HIDE DEF Jobs, NoJob, SequencerJob
    <3> QED
      BY <1>9, JobsOK DEF StepFails, reqStepAgain, JobOK
  <2>3. timer' \in {"nil", "wait", "due"}
    BY <1>9 DEF StepFails, reqStepAgain
  <2>4. /\ running' \in BOOLEAN /\ stepReq' \in BOOLEAN /\ delayed' \in BOOLEAN
        /\ failing' \in BOOLEAN /\ payload' \in BOOLEAN /\ known' \in BOOLEAN
        /\ stopped' \in BOOLEAN /\ holdOff' \in BOOLEAN
    BY <1>9 DEF StepFails, reqStepAgain
  <2> QED
    BY <2>1, <2>2, <2>3, <2>4 DEF JobOK
<1>10. CASE StepNeedsReset
  <2>1. /\ resetting' \in 0 .. NumStages /\ backlog' \in 0 .. MaxBacklog
        /\ lag' \in 0 .. MaxLag /\ resets' \in 0 .. MaxResets
        /\ attrs' \in {"none", "match", "conflict"}
        /\ (attrs' # "none" => backlog' > 0) /\ (attrs' = "match" => lag' > 0)
    BY <1>10 DEF StepNeedsReset, noStep
  <2>2. JobOK(job')
    <3> HIDE DEF Jobs, NoJob, SequencerJob
    <3> QED
      BY <1>10, JobsOK DEF StepNeedsReset, noStep, JobOK
  <2>3. timer' \in {"nil", "wait", "due"}
    BY <1>10 DEF StepNeedsReset, noStep
  <2>4. /\ running' \in BOOLEAN /\ stepReq' \in BOOLEAN /\ delayed' \in BOOLEAN
        /\ failing' \in BOOLEAN /\ payload' \in BOOLEAN /\ known' \in BOOLEAN
        /\ stopped' \in BOOLEAN /\ holdOff' \in BOOLEAN
    BY <1>10 DEF StepNeedsReset, noStep
  <2> QED
    BY <2>1, <2>2, <2>3, <2>4 DEF JobOK
<1>11. CASE AvoidSequencing
  BY <1>11 DEF AvoidSequencing, Fires
<1>12. CASE StartBuilding
  BY <1>12 DEF StartBuilding, Fires
<1>13. CASE CompleteBuilding
  BY <1>13 DEF CompleteBuilding, Fires
<1>14. CASE SequencingFails
  BY <1>14 DEF SequencingFails, Fires
<1>15. CASE SequencingNeedsReset
  BY <1>15 DEF SequencingNeedsReset, Fires
<1>16. CASE HoldOffEnds
  BY <1>16, ZenonT(60) DEF HoldOffEnds
<1>17. CASE ForceReset
  BY <1>17 DEF ForceReset
<1>18. CASE StartSequencer
  BY <1>18, ZenonT(60) DEF StartSequencer
<1>19. CASE StopSequencer
  BY <1>19 DEF StopSequencer
<1>20. CASE LoopEnds
  <2>1. /\ resetting' \in 0 .. NumStages /\ backlog' \in 0 .. MaxBacklog
        /\ lag' \in 0 .. MaxLag /\ resets' \in 0 .. MaxResets
        /\ attrs' \in {"none", "match", "conflict"}
        /\ (attrs' # "none" => backlog' > 0) /\ (attrs' = "match" => lag' > 0)
    BY <1>20 DEF LoopEnds
  <2>2. JobOK(job')
    <3> HIDE DEF Jobs, NoJob, SequencerJob
    <3> QED
      BY <1>20, JobsOK DEF LoopEnds, JobOK
  <2>3. timer' \in {"nil", "wait", "due"}
    BY <1>20 DEF LoopEnds
  <2>4. /\ running' \in BOOLEAN /\ stepReq' \in BOOLEAN /\ delayed' \in BOOLEAN
        /\ failing' \in BOOLEAN /\ payload' \in BOOLEAN /\ known' \in BOOLEAN
        /\ stopped' \in BOOLEAN /\ holdOff' \in BOOLEAN
    BY <1>20 DEF LoopEnds
  <2> QED
    BY <2>1, <2>2, <2>3, <2>4 DEF JobOK
<1>21. CASE UNCHANGED driverVars
  BY <1>21 DEF driverVars
<1> QED
  BY <1>1, <1>2, <1>3, <1>4, <1>5, <1>6, <1>7, <1>8, <1>9, <1>10,
     <1>11, <1>12, <1>13, <1>14, <1>15, <1>16, <1>17, <1>18, <1>19, <1>20, <1>21
  DEF DriverNext, DeriveStep, SequencerStep

(***************************************************************************)
(* Every event that leaves derivation something to do leaves a request.    *)
(***************************************************************************)
LEMMA WorkScheduledStep ==
  ASSUME DriverTypeOK, WorkScheduled, [DriverNext]_driverVars PROVE WorkScheduled'
<1> USE DriverAssumption DEF DriverTypeOK, WorkScheduled,
        stepVars, workVars, pipeVars, seqVars
<1>1. CASE L1HeadSignal
  BY <1>1 DEF L1HeadSignal, reqStep
<1>2. CASE UnsafePayload
  BY <1>2 DEF UnsafePayload, reqStep
<1>3. CASE L1FinalizedSignal
  BY <1>3 DEF L1FinalizedSignal, reqStep
<1>4. CASE DelayEnds
  BY <1>4 DEF DelayEnds
<1>5. CASE StepResets
  BY <1>5 DEF StepResets, reqStepAgain
<1>6. CASE StepProgress
  BY <1>6 DEF StepProgress, reqStepAgain, ProcessPayload, ProcessAttributes, ReadL1
<1>7. CASE StepNotEnoughData
  BY <1>7 DEF StepNotEnoughData, reqStepAgain
<1>8. CASE StepIdle
  BY <1>8 DEF StepIdle, noStep
<1>9. CASE StepFails
  BY <1>9 DEF StepFails, reqStepAgain
<1>10. CASE StepNeedsReset
  BY <1>10 DEF StepNeedsReset, noStep
<1>11. CASE AvoidSequencing
  BY <1>11 DEF AvoidSequencing, Fires
<1>12. CASE StartBuilding
  BY <1>12 DEF StartBuilding, Fires
<1>13. CASE CompleteBuilding
  BY <1>13 DEF CompleteBuilding, Fires
<1>14. CASE SequencingFails
  BY <1>14 DEF SequencingFails, Fires
<1>15. CASE SequencingNeedsReset
  BY <1>15 DEF SequencingNeedsReset, Fires
<1>16. CASE HoldOffEnds
  BY <1>16 DEF HoldOffEnds
<1>17. CASE ForceReset
  BY <1>17 DEF ForceReset
<1>18. CASE StartSequencer
  BY <1>18 DEF StartSequencer
<1>19. CASE StopSequencer
  BY <1>19 DEF StopSequencer
<1>20. CASE LoopEnds
  BY <1>20 DEF LoopEnds
<1>21. CASE UNCHANGED driverVars
  BY <1>21 DEF driverVars
<1> QED
  BY <1>1, <1>2, <1>3, <1>4, <1>5, <1>6, <1>7, <1>8, <1>9, <1>10,
     <1>11, <1>12, <1>13, <1>14, <1>15, <1>16, <1>17, <1>18, <1>19, <1>20, <1>21
  DEF DriverNext, DeriveStep, SequencerStep

(***************************************************************************)
(* A job is started on the head only when the timer was on.                *)
(***************************************************************************)
LEMMA JobWithinLagStep ==
  ASSUME DriverInv, [DriverNext]_driverVars PROVE JobWithinLag'
<1> USE DriverAssumption DEF DriverInv, DriverTypeOK, SequencerArmed, JobWithinLag, SafeLagExceeded, Capped,
        Jobs, NoJob, SequencerJob,
        stepVars, workVars, pipeVars, seqVars
<1>1. CASE L1HeadSignal
  BY <1>1 DEF L1HeadSignal, reqStep
<1>2. CASE UnsafePayload
  BY <1>2 DEF UnsafePayload, reqStep
<1>3. CASE L1FinalizedSignal
  BY <1>3 DEF L1FinalizedSignal, reqStep
<1>4. CASE DelayEnds
  BY <1>4 DEF DelayEnds
<1>5. CASE StepResets
  BY <1>5 DEF StepResets, reqStepAgain
<1>6. CASE StepProgress
  BY <1>6 DEF StepProgress, reqStepAgain, ProcessPayload, ProcessAttributes, ReadL1
<1>7. CASE StepNotEnoughData
  BY <1>7 DEF StepNotEnoughData, reqStepAgain
<1>8. CASE StepIdle
  BY <1>8 DEF StepIdle, noStep
<1>9. CASE StepFails
  BY <1>9 DEF StepFails, reqStepAgain
<1>10. CASE StepNeedsReset
  BY <1>10 DEF StepNeedsReset, noStep
<1>11. CASE AvoidSequencing
  BY <1>11 DEF AvoidSequencing, Fires
<1>12. CASE StartBuilding
  BY <1>12 DEF StartBuilding, Fires
<1>13. CASE CompleteBuilding
  BY <1>13 DEF CompleteBuilding, Fires
<1>14. CASE SequencingFails
  BY <1>14 DEF SequencingFails, Fires
<1>15. CASE SequencingNeedsReset
  BY <1>15 DEF SequencingNeedsReset, Fires
<1>16. CASE HoldOffEnds
  BY <1>16 DEF HoldOffEnds
<1>17. CASE ForceReset
  BY <1>17 DEF ForceReset
<1>18. CASE StartSequencer
  BY <1>18 DEF StartSequencer
<1>19. CASE StopSequencer
  BY <1>19 DEF StopSequencer
<1>20. CASE LoopEnds
  BY <1>20 DEF LoopEnds
<1>21. CASE UNCHANGED driverVars
  BY <1>21 DEF driverVars
<1> QED
  BY <1>1, <1>2, <1>3, <1>4, <1>5, <1>6, <1>7, <1>8, <1>9, <1>10,
     <1>11, <1>12, <1>13, <1>14, <1>15, <1>16, <1>17, <1>18, <1>19, <1>20, <1>21
  DEF DriverNext, DeriveStep, SequencerStep

(***************************************************************************)
(* The top of the loop sets the timer anew whenever no job is on the head; *)
(* with a job of the sequencer there, the timer was on before.             *)
(***************************************************************************)
LEMMA SequencerArmedStep ==
  ASSUME DriverInv, [DriverNext]_driverVars PROVE SequencerArmed'
<1> USE DriverAssumption
    DEF DriverInv, DriverTypeOK, SequencerArmed, JobWithinLag, SafeLagExceeded, EngineReady,
        LoopTop, Planned, Capped, Jobs, NoJob, SequencerJob,
        stepVars, workVars, pipeVars, seqVars
<1>1. CASE L1HeadSignal
  BY <1>1 DEF L1HeadSignal, reqStep
<1>2. CASE UnsafePayload
  BY <1>2 DEF UnsafePayload, reqStep
<1>3. CASE L1FinalizedSignal
  BY <1>3 DEF L1FinalizedSignal, reqStep
<1>4. CASE DelayEnds
  BY <1>4 DEF DelayEnds
<1>5. CASE StepResets
  BY <1>5 DEF StepResets, reqStepAgain
<1>6. CASE StepProgress
  BY <1>6 DEF StepProgress, reqStepAgain, ProcessPayload, ProcessAttributes, ReadL1
<1>7. CASE StepNotEnoughData
  BY <1>7 DEF StepNotEnoughData, reqStepAgain
<1>8. CASE StepIdle
  BY <1>8 DEF StepIdle, noStep
<1>9. CASE StepFails
  BY <1>9 DEF StepFails, reqStepAgain
<1>10. CASE StepNeedsReset
  BY <1>10 DEF StepNeedsReset, noStep
<1>11. CASE AvoidSequencing
  BY <1>11 DEF AvoidSequencing, Fires
<1>12. CASE StartBuilding
  BY <1>12 DEF StartBuilding, Fires
<1>13. CASE CompleteBuilding
  BY <1>13 DEF CompleteBuilding, Fires
<1>14. CASE SequencingFails
  BY <1>14 DEF SequencingFails, Fires
<1>15. CASE SequencingNeedsReset
  BY <1>15 DEF SequencingNeedsReset, Fires
<1>16. CASE HoldOffEnds
  BY <1>16 DEF HoldOffEnds
<1>17. CASE ForceReset
  BY <1>17 DEF ForceReset
<1>18. CASE StartSequencer
  BY <1>18 DEF StartSequencer
<1>19. CASE StopSequencer
  BY <1>19 DEF StopSequencer
<1>20. CASE LoopEnds
  BY <1>20 DEF LoopEnds
<1>21. CASE UNCHANGED driverVars
  BY <1>21 DEF driverVars
<1> QED
  BY <1>1, <1>2, <1>3, <1>4, <1>5, <1>6, <1>7, <1>8, <1>9, <1>10,
     <1>11, <1>12, <1>13, <1>14, <1>15, <1>16, <1>17, <1>18, <1>19, <1>20, <1>21
  DEF DriverNext, DeriveStep, SequencerStep

(***************************************************************************)
(* The invariant is inductive.                                             *)
(***************************************************************************)
LEMMA DriverInvInductive == DriverInv /\ [DriverNext]_driverVars => DriverInv'
<1> SUFFICES ASSUME DriverInv, [DriverNext]_driverVars PROVE DriverInv'
  OBVIOUS
<1>1. DriverTypeOK'
  BY DriverTypeStep DEF DriverInv
<1>2. WorkScheduled'
  BY WorkScheduledStep DEF DriverInv
<1>3. JobWithinLag' /\ SequencerArmed'
  BY JobWithinLagStep, SequencerArmedStep
<1> QED
  BY <1>1, <1>2, <1>3 DEF DriverInv

(***************************************************************************)
(* The fields of the driver keep their types: there are attributes only    *)
(* while there is data they come from, and matching ones only while there  *)
(* is an unsafe block to match.                                            *)
(***************************************************************************)
THEOREM DriverTypeCorrect == DriverSpec => []DriverTypeOK
<1>1. DriverInv => DriverTypeOK
  BY DEF DriverInv
<1> QED
  BY DriverInitInv, DriverInvInductive, <1>1, PTL DEF DriverSpec

(***************************************************************************)
(* No step is lost: what derivation has to do is scheduled.                *)
(***************************************************************************)
THEOREM DriverWorkScheduled == DriverSpec => []WorkScheduled
<1>1. DriverInv => WorkScheduled
  BY DEF DriverInv
<1> QED
  BY DriverInitInv, DriverInvInductive, <1>1, PTL DEF DriverSpec

(***************************************************************************)
(* The timer of the sequencer is set exactly when it may act, except for a *)
(* job that derivation has left on the head.                               *)
(***************************************************************************)
THEOREM DriverSequencerArmed == DriverSpec => []SequencerArmed
<1>1. DriverInv => SequencerArmed
  BY DEF DriverInv
<1> QED
  BY DriverInitInv, DriverInvInductive, <1>1, PTL DEF DriverSpec
=============================================================================
