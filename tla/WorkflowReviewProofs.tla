------------------------ MODULE WorkflowReviewProofs ------------------------
(***************************************************************************)
(* What a verdict of the reviewer is worth: it is adopted only for the     *)
(* code the last worker left, and it completes no task of high risk.       *)
(*                                                                         *)
(* The facts a review is founded on are taken with the checkpoint: they    *)
(* hold for the one on disk, for the local one, and for the stop a resume  *)
(* keeps to put back.                                                      *)
(*                                                                         *)
(* The last part shows that the status names the stop on disk              *)
(* (StoppedStatusCoherent), as long as nothing failed.                     *)
(***************************************************************************)
EXTENDS WorkflowProofs

-----------------------------------------------------------------------------
(* The data *)

\* A checkpoint that is saved, corrected, stopped or resumed stays about the
\* same review.
LEMMA SameReview ==
  /\ \A c \in Checkpoint : /\ Cleared(c).stage = c.stage /\ Cleared(c).risk = c.risk
                           /\ Cleared(c).reemit = c.reemit
  /\ \A c \in Checkpoint : /\ Saved(c).stage = c.stage /\ Saved(c).risk = c.risk
                           /\ Saved(c).reemit = c.reemit
  /\ \A c \in Checkpoint : /\ Corrected(c).stage = c.stage /\ Corrected(c).risk = c.risk
                           /\ Corrected(c).reemit = c.reemit
BY DEF Cleared, Saved, Corrected, Checkpoint

LEMMA SameStop ==
  ASSUME NEW c \in Checkpoint
  PROVE  /\ RateLimitStop(c).stage = c.stage /\ RateLimitStop(c).risk = c.risk
         /\ RateLimitStop(c).reemit = c.reemit
         /\ UnavailableStop(c).stage = c.stage /\ UnavailableStop(c).risk = c.risk
         /\ UnavailableStop(c).reemit = c.reemit
         /\ Restored(c).stage = c.stage /\ Restored(c).risk = c.risk
         /\ Restored(c).reemit = c.reemit
BY DEF RateLimitStop, UnavailableStop, Restored, Checkpoint

\* The stage and the risk of the checkpoints a command builds.
LEMMA NewCheckpoints ==
  /\ WorkerCheckpoint.stage = "worker"
  /\ \A c \in Checkpoint : /\ ReemitCheckpoint(c).reemit = TRUE
                           /\ ReemitCheckpoint(c).risk = "unset"
                           /\ ReemitCheckpoint(c).stage = "reviewer"
  /\ \A c \in Checkpoint, p \in BOOLEAN : AutoFixCheckpoint(c, p).stage = "auto-fix"
  /\ \A a \in 0 .. MaxAutoFixRounds, w \in Risks, r \in Risks :
        /\ ReviewCheckpoint(a, w, r).stage = "reviewer"
        /\ ReviewCheckpoint(a, w, r).risk = r
BY DEF WorkerCheckpoint, ReemitCheckpoint, ReviewCheckpoint, AutoFixCheckpoint

\* Where a command goes on leaving a step, and what becomes of a resumed stop.
LEMMA EndLeaves == End => pc' = "idle" /\ prev' = Nothing
BY DEF End, Leave

LEMMA FailedLeaves == Failed => \/ pc' = "idle" /\ prev' = Nothing
                                \/ resuming /\ pc' = "restore" /\ prev' = prev
BY DEF Failed, End, Leave

LEMMA FailClosedLeaves == FailClosed => pc' = "fc-clear" /\ prev' \in {prev, Nothing}
BY DEF FailClosed, Leave

LEMMA ResumeCallLeaves == ResumeCall => pc' = "begin" /\ cp' = Cleared(cp) /\ prev' = prev
BY DEF ResumeCall

-----------------------------------------------------------------------------
(* Every step keeps the foundations *)

LEMMA FoundedInit == Init => ReviewFoundations
BY DEF Init, ReviewFoundations, PrevKept, Stopped, PreparingReview, ReviewReady

\* The commands: what they find, and what they leave at once.
LEMMA CommandsFounded ==
  ASSUME Inductive, ReviewFoundations, Commands
  PROVE  ReviewFoundations'
<1> USE DEF Inductive, TypeOK, FilesType, RepositoryType, LocalsType, CountersType,
             Statuses, Labels, Positions, LocalsSet, FlagsCleared, StopOnDisk,
             RunningNotTerminal, CallDebt, Calling, WorkerDone, ReviewReady,
             ReviewDone, Claims, TerminalNotResumable,
             WaitingDecisionHasQuestion, Terminal,
             ReviewFoundations, PrevKept, ReviewFounded, NotHighRisk, IsReviewer,
             PreparingReview, LowSoFar
<1>1. CASE StartNewTask
  BY <1>1 DEF StartNewTask, snaps, locals, budget
<1>2. CASE StartDecision
  BY <1>2 DEF StartDecision, snaps, locals, budget
<1>3. CASE StartExplicitFix
  BY <1>3, WorkerCheckpointType, NewCheckpoints
     DEF StartExplicitFix, snaps, budget
<1>4. CASE StartResume
  BY <1>4 DEF StartResume, snaps, budget
<1>5. CASE StartReset
  BY <1>5 DEF StartReset, snaps, locals, budget
<1> QED
  BY <1>1, <1>2, <1>3, <1>4, <1>5 DEF Commands

\* Preparing a new task, a decision, a fix and the reset.
LEMMA CommandStepFounded ==
  ASSUME Inductive, ReviewFoundations, CommandStep
  PROVE  ReviewFoundations'
<1> USE DEF Inductive, TypeOK, FilesType, RepositoryType, LocalsType, CountersType,
             Statuses, Labels, Positions, LocalsSet, FlagsCleared, StopOnDisk,
             RunningNotTerminal, CallDebt, Calling, WorkerDone, ReviewReady,
             ReviewDone, Claims, TerminalNotResumable,
             WaitingDecisionHasQuestion, Terminal,
             ReviewFoundations, PrevKept, ReviewFounded, NotHighRisk, IsReviewer,
             PreparingReview, LowSoFar
<1>1. CASE ActivateNewTask
  BY <1>1 DEF ActivateNewTask, snaps, locals, budget
<1>2. CASE ForgetPreviousTask
  BY <1>2, WorkerCheckpointType, NewCheckpoints
     DEF ForgetPreviousTask, snaps, budget
<1>3. CASE ActivateDecision
  BY <1>3, WorkerCheckpointType, NewCheckpoints
     DEF ActivateDecision, snaps, budget
<1>4. CASE EnsureActiveTask
  BY <1>4, ResolvedTaskType, FailClosedLeaves
     DEF EnsureActiveTask, ActiveTask, Goto, snaps, locals, budget
<1>5. CASE ResetDecision
  BY <1>5 DEF ResetDecision, Goto, snaps, locals, budget
<1>6. CASE ResetRest
  BY <1>6, EndLeaves, NothingNotStopped DEF ResetRest, budget
<1>7. CASE RemovePreviousTask
  BY <1>7 DEF RemovePreviousTask, Goto, locals, budget
<1>8. CASE ResetStatus
  BY <1>8 DEF ResetStatus, Goto, snaps, locals, budget
<1> QED
  BY <1>1, <1>2, <1>3, <1>4, <1>5, <1>6, <1>7, <1>8 DEF CommandStep

\* --resume up to the call, and the restoration of its stop.
LEMMA ResumeStepFounded ==
  ASSUME Inductive, ReviewFoundations, ResumeStep
  PROVE  ReviewFoundations'
<1> USE DEF Inductive, TypeOK, FilesType, RepositoryType, LocalsType, CountersType,
             Statuses, Labels, Positions, LocalsSet, FlagsCleared, StopOnDisk,
             RunningNotTerminal, CallDebt, Calling, WorkerDone, ReviewReady,
             ReviewDone, Claims, TerminalNotResumable,
             WaitingDecisionHasQuestion, Terminal,
             ReviewFoundations, PrevKept, ReviewFounded, NotHighRisk, IsReviewer,
             PreparingReview, LowSoFar
<1>1. CASE ResumeGate
  BY <1>1, FailClosedLeaves, ResumeCallLeaves, SameReview
     DEF ResumeGate, AfterProbeGate, Goto, files, snaps, locals, budget
<1>2. CASE VerifyReviewResume
  <2>1. UNCHANGED <<status, ckpt, lastDecision, workerEnd, moved>>
    BY <1>2 DEF VerifyReviewResume, files, budget
  <2>2. CASE repo = reviewStart /\ ResumeCall /\ UNCHANGED reviewStart
    BY <1>2, <2>1, <2>2, ResumeCallLeaves, SameReview DEF VerifyReviewResume
  <2>3. CASE /\ reviewStart # Nothing /\ AcceptableParentDelta
             /\ reviewStart' = repo /\ ResumeCall
    <3>1. reviewStart' # Nothing /\ reviewStart'.code = reviewStart.code
      BY <1>2, <2>3, NothingAssumption DEF AcceptableParentDelta
    <3>2. /\ pc' = "begin" /\ prev' = prev /\ cp \in Checkpoint
          /\ cp' = Cleared(cp) /\ pc = "resume-check"
      BY <1>2, <2>3, ResumeCallLeaves DEF VerifyReviewResume
    <3>3. /\ cp'.stage = cp.stage /\ cp'.risk = cp.risk /\ cp'.reemit = cp.reemit
      BY <3>2, SameReview
    <3> QED
      BY <1>2, <2>1, <3>1, <3>2, <3>3
  <2>4. CASE FailClosed /\ UNCHANGED reviewStart
    BY <1>2, <2>1, <2>4, FailClosedLeaves DEF VerifyReviewResume
  <2> QED
    BY <1>2, <2>2, <2>3, <2>4 DEF VerifyReviewResume
<1>3. CASE RestoreStop
  <2>1. prev \in Checkpoint /\ prev # Nothing /\ ReviewFounded(prev)
    BY <1>3, NothingNotStopped DEF RestoreStop
  <2>2. /\ pc' = "restore-status"
        /\ UNCHANGED <<snaps, prev, status, lastDecision, moved>>
        /\ ckpt' \in {ckpt, Restored(prev)}
        /\ ckpt' = ckpt => Stopped(ckpt')
    BY <1>3, <2>1, RestoredType DEF RestoreStop, Goto, locals, files, budget
  <2>3. /\ Restored(prev).stage = prev.stage /\ Restored(prev).risk = prev.risk
        /\ Restored(prev).reemit = prev.reemit
    BY <2>1, SameStop
  <2>4. CASE ckpt' = Restored(prev)
    <3>1. /\ ckpt'.stage = prev.stage /\ ckpt'.risk = prev.risk
          /\ ckpt'.reemit = prev.reemit
      BY <2>3, <2>4
    <3>2. ReviewFounded(ckpt)'
      BY <2>1, <2>2, <3>1 DEF snaps
    <3> QED
      BY <1>3, <2>1, <2>2, <3>2 DEF snaps
  <2>5. CASE ckpt' = ckpt
    <3>1. Stopped(ckpt) => ReviewFounded(ckpt)'
      BY <1>3, <2>2, <2>5 DEF snaps
    <3> QED
      BY <1>3, <2>1, <2>2, <2>5, <3>1 DEF snaps
  <2> QED
    BY <2>2, <2>4, <2>5
<1>4. CASE RestoreStopStatus
  BY <1>4, EndLeaves DEF RestoreStopStatus, StopStatus, snaps, budget
<1> QED
  BY <1>1, <1>2, <1>3, <1>4 DEF ResumeStep

\* One model call.
LEMMA CallStepFounded ==
  ASSUME Inductive, ReviewFoundations, CallStep
  PROVE  ReviewFoundations'
<1> USE DEF Inductive, TypeOK, FilesType, RepositoryType, LocalsType, CountersType,
             Statuses, Labels, Positions, LocalsSet, FlagsCleared, StopOnDisk,
             RunningNotTerminal, CallDebt, Calling, WorkerDone, ReviewReady,
             ReviewDone, Claims, TerminalNotResumable,
             WaitingDecisionHasQuestion, Terminal,
             ReviewFoundations, PrevKept, ReviewFounded, NotHighRisk, IsReviewer,
             PreparingReview, LowSoFar
<1>1. CASE BeginCall
  BY <1>1, SavedType, ParentStatesOfRepo, SameReview
     DEF BeginCall, files, snaps, budget
<1>2. CASE BeginRefused
  BY <1>2, FailClosedLeaves DEF BeginRefused, files, snaps, budget
<1>3. CASE BeginFails
  BY <1>3, FailedLeaves DEF BeginFails, Fault, files, snaps, budget
<1>4. CASE CallViolatesGuard
  BY <1>4, FailClosedLeaves
     DEF CallViolatesGuard, CallRecorded, Fault, files, snaps, budget
<1>5. CASE CallSucceeds
  BY <1>5, NothingNotStopped
     DEF CallSucceeds, CallRecorded, files, snaps, budget
<1>6. CASE CallBreaksContract
  BY <1>6, CorrectedType, FailedLeaves, NothingNotStopped, SameReview
     DEF CallBreaksContract, Call, CallRecorded, files, snaps, budget
<1>7. CASE CallFails
  BY <1>7, FailedLeaves, NothingNotStopped
     DEF CallFails, CallRecorded, files, snaps, budget
<1>8. CASE CallStateError
  BY <1>8, FailedLeaves
     DEF CallStateError, CallRecorded, Fault, files, snaps, budget
<1>9. CASE CallRateLimited
  BY <1>9, StopTypes, SameStop
     DEF CallRateLimited, Goto, files, snaps, locals, budget
<1>10. CASE CallTransient
  BY <1>10 DEF CallTransient, Stopped, CallRecorded, files, snaps, budget
<1> QED
  BY <1>1, <1>2, <1>3, <1>4, <1>5, <1>6, <1>7, <1>8, <1>9, <1>10 DEF CallStep

\* The recovery from an outage.
LEMMA ProbeStepFounded ==
  ASSUME Inductive, ReviewFoundations, ProbeStep
  PROVE  ReviewFoundations'
<1> USE DEF Inductive, TypeOK, FilesType, RepositoryType, LocalsType, CountersType,
             Statuses, Labels, Positions, LocalsSet, FlagsCleared, StopOnDisk,
             RunningNotTerminal, CallDebt, Calling, WorkerDone, ReviewReady,
             ReviewDone, Claims, TerminalNotResumable,
             WaitingDecisionHasQuestion, Terminal,
             ReviewFoundations, PrevKept, ReviewFounded, NotHighRisk, IsReviewer,
             PreparingReview, LowSoFar
<1>1. CASE ProbeContinues
  BY <1>1 DEF ProbeContinues, files, snaps, budget
<1>2. CASE ProbeSucceeds
  BY <1>2, ResumeCallLeaves, SameReview
     DEF ProbeSucceeds, AtGate, AfterProbeGate, files, snaps, budget
<1>3. CASE ProbeRateLimited
  BY <1>3, StopTypes, SameStop DEF ProbeRateLimited, files, snaps, budget
<1>4. CASE ProbeFatal
  BY <1>4, FailedLeaves, NothingNotStopped
     DEF ProbeFatal, Fault, files, snaps, budget
<1>5. CASE RecoveryExhausted
  BY <1>5, StopTypes, SameStop
     DEF RecoveryExhausted, Goto, files, snaps, locals, budget
<1> QED
  BY <1>1, <1>2, <1>3, <1>4, <1>5 DEF ProbeStep

\* Saving a stop.
LEMMA StopStepFounded ==
  ASSUME Inductive, ReviewFoundations, StopStep
  PROVE  ReviewFoundations'
<1> USE DEF Inductive, TypeOK, FilesType, RepositoryType, LocalsType, CountersType,
             Statuses, Labels, Positions, LocalsSet, FlagsCleared, StopOnDisk,
             RunningNotTerminal, CallDebt, Calling, WorkerDone, ReviewReady,
             ReviewDone, Claims, TerminalNotResumable,
             WaitingDecisionHasQuestion, Terminal,
             ReviewFoundations, PrevKept, ReviewFounded, NotHighRisk, IsReviewer,
             PreparingReview, LowSoFar
<1>1. CASE SaveStopStatus
  BY <1>1 DEF SaveStopStatus, StopStatus, Goto, snaps, locals, budget
<1>2. CASE ReportStop
  BY <1>2, EndLeaves
     DEF ReportStop, CallRecorded, InFlight, files, snaps, budget
<1>3. CASE StopFails
  BY <1>3, FailedLeaves, NothingNotStopped
     DEF StopFails, CallRecorded, Fault, InFlight, files, snaps, budget
<1> QED
  BY <1>1, <1>2, <1>3 DEF StopStep

\* Failing closed.
LEMMA FailClosedStepFounded ==
  ASSUME Inductive, ReviewFoundations, FailClosedStep
  PROVE  ReviewFoundations'
<1> USE DEF Inductive, TypeOK, FilesType, RepositoryType, LocalsType, CountersType,
             Statuses, Labels, Positions, LocalsSet, FlagsCleared, StopOnDisk,
             RunningNotTerminal, CallDebt, Calling, WorkerDone, ReviewReady,
             ReviewDone, Claims, TerminalNotResumable,
             WaitingDecisionHasQuestion, Terminal,
             ReviewFoundations, PrevKept, ReviewFounded, NotHighRisk, IsReviewer,
             PreparingReview, LowSoFar
<1>1. CASE FailClosedClear
  BY <1>1, NothingNotStopped
     DEF FailClosedClear, Goto, files, snaps, locals, budget
<1>2. CASE FailClosedStatus
  BY <1>2, EndLeaves DEF FailClosedStatus, snaps, budget
<1>3. CASE FailClosedFails
  BY <1>3, FailedLeaves DEF FailClosedFails, Fault, files, snaps
<1> QED
  BY <1>1, <1>2, <1>3 DEF FailClosedStep

\* The result of the worker.
LEMMA ResultStepFounded ==
  ASSUME Inductive, ReviewFoundations, ResultStep
  PROVE  ReviewFoundations'
<1> USE DEF Inductive, TypeOK, FilesType, RepositoryType, LocalsType, CountersType,
             Statuses, Labels, Positions, LocalsSet, FlagsCleared, StopOnDisk,
             RunningNotTerminal, CallDebt, Calling, WorkerDone, ReviewReady,
             ReviewDone, Claims, TerminalNotResumable,
             WaitingDecisionHasQuestion, Terminal,
             ReviewFoundations, PrevKept, ReviewFounded, NotHighRisk, IsReviewer,
             PreparingReview, LowSoFar
<1>1. CASE WorkerAsksSol
  BY <1>1 DEF WorkerAsksSol, Goto, snaps, locals, budget
<1>2. CASE AwaitDecision
  BY <1>2, EndLeaves DEF AwaitDecision, snaps, budget
<1>3. CASE WorkerImplemented
  BY <1>3 DEF WorkerImplemented, Goto, snaps, locals, budget
<1> QED
  BY <1>1, <1>2, <1>3 DEF ResultStep

\* The review and the report-only fix.
LEMMA ReviewStepFounded ==
  ASSUME Inductive, ReviewFoundations, ReviewStep
  PROVE  ReviewFoundations'
<1> USE DEF Inductive, TypeOK, FilesType, RepositoryType, LocalsType, CountersType,
             Statuses, Labels, Positions, LocalsSet, FlagsCleared, StopOnDisk,
             RunningNotTerminal, CallDebt, Calling, WorkerDone, ReviewReady,
             ReviewDone, Claims, TerminalNotResumable,
             WaitingDecisionHasQuestion, Terminal,
             ReviewFoundations, PrevKept, ReviewFounded, NotHighRisk, IsReviewer,
             PreparingReview, LowSoFar
<1>1. CASE CaptureWorkerEnd
  <2>1. /\ prev = Nothing /\ ~Stopped(ckpt) /\ status # "complete"
        /\ workerEnd' = repo /\ repo # Nothing
        /\ UNCHANGED <<status, ckpt, lastDecision, prev, repo>>
        /\ pc' = "review-risk"
    BY <1>1, NothingAssumption DEF CaptureWorkerEnd, Goto, locals, files
  <2> QED
    BY <2>1
<1>2. CASE ComputeEffectiveRisk
  <2>1. /\ prev = Nothing /\ ~Stopped(ckpt) /\ status # "complete"
        /\ workerEnd # Nothing /\ (moved >= 1 \/ repo = workerEnd)
        /\ UNCHANGED <<status, ckpt, lastDecision, prev, repo, workerEnd, moved>>
        /\ pc' = "review-active"
    BY <1>2 DEF ComputeEffectiveRisk, files, snaps, budget
  <2>2. PICK sp \in SelfProtection :
           cp' = ReviewCheckpoint(cp.autoFixes, result.risk,
                   IF HighRisk(result.risk, cp.autoFixes, sp)
                   THEN "HIGH" ELSE "LOW")
    BY <1>2 DEF ComputeEffectiveRisk
  <2>3. cp.autoFixes \in 0 .. MaxAutoFixRounds /\ result.risk \in Risks
    BY <1>2, FieldTypes, ResultTypes DEF ComputeEffectiveRisk
  <2>4. /\ cp'.stage = "reviewer" /\ cp'.risk # "unset"
        /\ cp'.risk = "LOW" => ~HighRisk(result.risk, cp.autoFixes, sp)
    BY <2>2, <2>3, NewCheckpoints DEF Risks
  <2>5. cp'.risk = "LOW" => ~lastDecision /\ repo.code \notin CriticalCodes
    BY <2>4 DEF HighRisk, SelfProtection
  <2>6. cp'.risk = "LOW" => LowSoFar'
    <3>1. moved \in Nat
      OBVIOUS
    <3> QED
      BY <2>1, <2>5, <3>1
  <2> QED
    BY <2>1, <2>4, <2>6
<1>3. CASE EnsureReviewTask
  BY <1>3, FailClosedLeaves
     DEF EnsureReviewTask, Goto, snaps, locals, budget
<1>4. CASE VerifyReviewStart
  BY <1>4, FailClosedLeaves
     DEF VerifyReviewStart, Goto, files, locals, budget
<1>5. CASE VerifyReviewEnd
  BY <1>5, FailClosedLeaves
     DEF VerifyReviewEnd, Goto, files, snaps, locals, budget
<1>6. CASE EnforceRiskFloor
  <2>1. /\ cp \in Checkpoint /\ IsReviewer(cp) /\ ReviewFounded(cp)
        /\ ~Stopped(ckpt) /\ status # "complete"
        /\ UNCHANGED <<status, ckpt, lastDecision, workerEnd, reviewStart, moved>>
    BY <1>6 DEF EnforceRiskFloor, files, snaps, budget
  <2>2. CASE Call(ReemitCheckpoint(cp)) /\ prev' = Nothing
    BY <2>1, <2>2, NewCheckpoints DEF Call
  <2>3. CASE cp.reemit /\ AdoptReview(IF result.status = "NEEDS_SOL_REVIEW"
                                      THEN result ELSE ForcedReview)
    BY <2>1, <2>3 DEF AdoptReview, ForcedReview
  <2>4. CASE /\ ~cp.reemit /\ AdoptReview(result)
             /\ \E sp \in SelfProtection :
                   ~(EffectiveHigh(sp) /\ result.status = "PASS")
    <3>1. cp.risk \in {"LOW", "HIGH", "unset"}
      BY <2>1 DEF Checkpoint, Risks
    <3>2. result.status = "PASS" => NotHighRisk
      BY <2>1, <2>4, <3>1 DEF EffectiveHigh
    <3>3. pc' = "record-review" /\ prev' = Nothing /\ result' = result
      BY <2>4 DEF AdoptReview
    <3> QED
      BY <2>1, <3>2, <3>3
  <2> QED
    BY <1>6, <2>2, <2>3, <2>4 DEF EnforceRiskFloor
<1>7. CASE RecordReview
  BY <1>7 DEF RecordReview, Goto, snaps, locals, budget
<1>8. CASE ReviewPasses
  BY <1>8, EndLeaves DEF ReviewPasses, Finish, snaps, budget
<1>9. CASE ReviewNeedsSol
  BY <1>9, EndLeaves DEF ReviewNeedsSol, Finish, snaps, budget
<1>10. CASE AutoFix
  BY <1>10, AutoFixCheckpointType, ResultTypes, NewCheckpoints
     DEF AutoFix, files, snaps, budget
<1>11. CASE SaveReportStart
  BY <1>11 DEF SaveReportStart, Goto, files, locals, budget
<1>12. CASE VerifyReportEnd
  BY <1>12, FailClosedLeaves
     DEF VerifyReportEnd, Goto, files, snaps, locals, budget
<1>13. CASE CaptureFails
  BY <1>13, FailClosedLeaves DEF CaptureFails, Fault, files, snaps
<1> QED
  BY <1>1, <1>2, <1>3, <1>4, <1>5, <1>6, <1>7,
     <1>8, <1>9, <1>10, <1>11, <1>12, <1>13 DEF ReviewStep

\* The environment.
LEMMA EnvironmentFounded ==
  ASSUME Inductive, ReviewFoundations, WorkerEdits \/ Crash \/ Edit
  PROVE  ReviewFoundations'
<1> USE DEF Inductive, TypeOK, FilesType, RepositoryType, LocalsType, CountersType,
             Statuses, Labels, Positions, LocalsSet, FlagsCleared, StopOnDisk,
             RunningNotTerminal, CallDebt, Calling, WorkerDone, ReviewReady,
             ReviewDone, Claims, TerminalNotResumable,
             WaitingDecisionHasQuestion, Terminal,
             ReviewFoundations, PrevKept, ReviewFounded, NotHighRisk, IsReviewer,
             PreparingReview, LowSoFar
<1>1. CASE WorkerEdits
  BY <1>1 DEF WorkerEdits, Repo, files, snaps, locals, budget
<1>2. CASE Crash
  BY <1>2, EndLeaves DEF Crash, Fault, files, snaps
<1>3. CASE Edit
  BY <1>3 DEF Edit, files, snaps, locals
<1> QED
  BY <1>1, <1>2, <1>3

\* Every step of the system, and a step that changes nothing.
LEMMA FoundedNext ==
  Inductive /\ ReviewFoundations /\ [Next]_vars => ReviewFoundations'
<1> SUFFICES ASSUME Inductive, ReviewFoundations, [Next]_vars
             PROVE  ReviewFoundations'
  OBVIOUS
<1>1. CASE Commands
  BY <1>1, CommandsFounded
<1>2. CASE Step
  <2>1. \/ CommandStep \/ ResumeStep \/ CallStep \/ ProbeStep
        \/ StopStep \/ FailClosedStep \/ ResultStep \/ ReviewStep
    BY <1>2 DEF Step
  <2> QED
    BY <2>1, CommandStepFounded, ResumeStepFounded, CallStepFounded,
       ProbeStepFounded, StopStepFounded, FailClosedStepFounded,
       ResultStepFounded, ReviewStepFounded
<1>3. CASE WorkerEdits \/ Crash \/ Edit
  BY <1>3, EnvironmentFounded
<1>4. CASE UNCHANGED vars
  BY <1>4 DEF ReviewFoundations, PrevKept, ReviewFounded, NotHighRisk,
     PreparingReview, LowSoFar, vars, files, snaps, locals, budget
<1> QED
  BY <1>1, <1>2, <1>3, <1>4 DEF Next

-----------------------------------------------------------------------------
(* The theorems *)

\* The foundations of every review hold in every reachable state.
THEOREM FoundationsInvariant == Spec => []ReviewFoundations
BY FoundedInit, FoundedNext, InductiveInvariant, PTL DEF Spec

\* No task that took a decision of Sol is completed by a PASS, through every stop,
\* re-emission and resume; nor is one whose worker left changes of critical paths,
\* unless the repository was changed at least twice between the snapshot of the
\* worker's end and the one its review starts from: the listing the risk rests on
\* is a read of its own between them
\* (computeEffectiveRisk, enforceRiskFloor, handleReviewResult).
THEOREM NoHighRiskCompleted == Spec => []NoHighRiskCompletion
<1>1. ReviewFoundations => NoHighRiskCompletion
  BY DEF ReviewFoundations, NoHighRiskCompletion
<1> QED
  BY <1>1, FoundationsInvariant, PTL

\* One step goes on from a review's end: the comparison, which finds the working
\* tree as the reviewer was given it.
LEMMA VerdictStep ==
  Inductive /\ ReviewFoundations /\ [Next]_vars =>
     (pc = "review-end" /\ pc' = "review-floor"
         => workerEnd # Nothing /\ repo.code = workerEnd.code)
<1> SUFFICES ASSUME Inductive, ReviewFoundations, [Next]_vars,
                    pc = "review-end", pc' = "review-floor"
             PROVE  workerEnd # Nothing /\ repo.code = workerEnd.code
  OBVIOUS
<1>1. workerEnd # Nothing /\ reviewStart.code = workerEnd.code
  BY DEF ReviewFoundations, ReviewFounded
<1>2. CASE VerifyReviewEnd
  <2>1. repo = reviewStart
    BY <1>2, FailClosedLeaves DEF VerifyReviewEnd
  <2> QED
    BY <1>1, <2>1
<1>3. CASE CaptureFails \/ Crash
  BY <1>3, FailClosedLeaves, EndLeaves DEF CaptureFails, Crash
<1>4. CASE WorkerEdits \/ Edit \/ UNCHANGED vars
  BY <1>4 DEF WorkerEdits, Edit, vars
<1> QED
  BY <1>2, <1>3, <1>4
     DEF Next, Commands, Step, CommandStep, ResumeStep, CallStep, ProbeStep,
         StopStep, FailClosedStep, ResultStep, ReviewStep,
         StartNewTask, StartDecision, StartExplicitFix, StartResume, StartReset,
         RemovePreviousTask, ActivateNewTask, ForgetPreviousTask,
         ActivateDecision, EnsureActiveTask, ResetStatus, ResetDecision,
         ResetRest, ResumeGate,
         VerifyReviewResume, RestoreStop, RestoreStopStatus, BeginCall,
         BeginRefused, BeginFails, CallViolatesGuard, CallSucceeds,
         CallBreaksContract, CallFails, CallStateError, CallRateLimited,
         CallTransient, ProbeContinues, ProbeSucceeds, ProbeRateLimited,
         ProbeFatal, RecoveryExhausted, SaveStopStatus, ReportStop, StopFails,
         FailClosedClear, FailClosedStatus, FailClosedFails, WorkerAsksSol,
         AwaitDecision, WorkerImplemented, CaptureWorkerEnd,
         ComputeEffectiveRisk, EnsureReviewTask, VerifyReviewStart,
         EnforceRiskFloor, RecordReview, ReviewPasses, ReviewNeedsSol, AutoFix, SaveReportStart,
         VerifyReportEnd

\* A verdict is used only for the code the last worker left, whatever was
\* edited before, during and between the stops of the review
\* (verifyReviewStartSnapshot, verifyReviewResumeSnapshot,
\* verifyReviewEndSnapshot).
THEOREM VerdictForWorkersCode == Spec => VerdictIsForWorkersCode
<1>1. Inductive /\ ReviewFoundations /\ [Next]_vars =>
        [pc = "review-end" /\ pc' = "review-floor"
            => workerEnd # Nothing /\ repo.code = workerEnd.code]_vars
  BY VerdictStep
<1> QED
  BY <1>1, InductiveInvariant, FoundationsInvariant, PTL
     DEF Spec, VerdictIsForWorkersCode


-----------------------------------------------------------------------------
(* The status and the stop *)

\* A checkpoint is marked with one stop at most: the later one replaces the other.
OneStop(c) == c # Nothing => ~(c.rateLimited /\ c.unavailable)

StopShown == status \in {"rate-limited", "provider-unavailable"}

\* A command has removed the identity of the task and is not done with the rest.
Replacing == {"new-status", "new-activate",
              "reset-status", "reset-decision", "reset-rest"}

\* While nothing failed every running task has its id, and a status names a stop
\* only between commands and while the stop is reported.
Undisturbed ==
    /\ ~taskID => \/ pc \in Replacing
                  \/ pc = "idle" /\ status = "none"
    /\ StopShown => pc \in {"idle", "stop-report", "reset-status"}
    /\ pc \in {"reset-decision", "reset-rest"} => status = "none"
    /\ pc = "stop-report" => status = StopStatus(ckpt)

StopAgreement ==
    /\ OneStop(ckpt) /\ OneStop(prev)
    /\ faults = 0 => Undisturbed
    /\ StoppedStatusCoherent

-----------------------------------------------------------------------------
(* The data *)

\* No checkpoint has both marks: not a new stop, one put back, or a call.
LEMMA StopsAreOne ==
  /\ OneStop(Nothing)
  /\ \A c \in Checkpoint : /\ OneStop(RateLimitStop(c)) /\ OneStop(UnavailableStop(c))
                           /\ OneStop(c) => OneStop(Restored(c))
                           /\ ~Stopped(c) => OneStop(c) /\ OneStop(Saved(c))
<1>1. OneStop(Nothing)
  BY DEF OneStop
<1> SUFFICES ASSUME NEW c \in Checkpoint
             PROVE  /\ OneStop(RateLimitStop(c)) /\ OneStop(UnavailableStop(c))
                    /\ OneStop(c) => OneStop(Restored(c))
                    /\ ~Stopped(c) => OneStop(c) /\ OneStop(Saved(c))
  BY <1>1
<1>2. /\ RateLimitStop(c).unavailable = FALSE /\ UnavailableStop(c).rateLimited = FALSE
      /\ Restored(c).rateLimited = c.rateLimited /\ Restored(c).unavailable = c.unavailable
      /\ Saved(c).rateLimited = c.rateLimited /\ Saved(c).unavailable = c.unavailable
  BY DEF RateLimitStop, UnavailableStop, Restored, Saved, Checkpoint
<1>3. c # Nothing
  BY NothingAssumption
<1> QED
  BY <1>2, <1>3 DEF OneStop, Stopped

\* The status of a stop tells which one it is.
LEMMA StopStatusTells ==
  ASSUME NEW c, Stopped(c), OneStop(c)
  PROVE  /\ StopStatus(c) = "rate-limited" <=> c.rateLimited
         /\ StopStatus(c) = "provider-unavailable" <=> c.unavailable
         /\ c # Nothing
BY DEF Stopped, OneStop, StopStatus

\* A step is in order when it leaves the statuses of stops alone, and the command
\* it ends, if it ends one, leaves no stop.
LEMMA InOrder ==
  ASSUME OneStop(ckpt'), OneStop(prev'),
         pc' \notin Replacing \cup {"stop-report"},
         faults' = 0 => /\ taskID' /\ ~StopShown'
                        /\ pc' = "idle" => ~Stopped(ckpt')
  PROVE  StopAgreement'
BY DEF StopAgreement, Undisturbed, StopShown, StoppedStatusCoherent, Stopped,
       Replacing

\* What is known of a running task.
LEMMA Running ==
  ASSUME StopAgreement, faults = 0,
         pc \notin Replacing \cup {"idle", "stop-report"}
  PROVE  taskID /\ ~StopShown
BY DEF StopAgreement, Undisturbed, Replacing

-----------------------------------------------------------------------------
(* Every step *)

LEMMA AgreementInit == Init => StopAgreement
BY DEF Init, StopAgreement, OneStop, Undisturbed, StopShown, StoppedStatusCoherent

LEMMA CommandsAgree ==
  ASSUME Inductive, StopAgreement, Commands
  PROVE  StopAgreement'
<1>1. pc = "idle" /\ faults' = faults /\ (ckpt' = ckpt /\ prev' \in {prev, ckpt})
  BY DEF Commands, StartNewTask, StartDecision, StartExplicitFix, StartResume, StartReset, locals, budget
<1>2. OneStop(ckpt') /\ OneStop(prev')
  BY <1>1 DEF StopAgreement
<1>3. faults = 0 => Undisturbed
  BY DEF StopAgreement
<1>4. CASE StartNewTask
  BY <1>1, <1>2, <1>4 DEF StartNewTask, StopAgreement, Undisturbed, Replacing, StopShown,
     StoppedStatusCoherent, Stopped
<1>5. CASE StartDecision
  BY <1>1, <1>2, <1>3, <1>5, InOrder DEF Replacing, StartDecision, Undisturbed, StopShown, Inductive, TypeOK, FilesType
<1>6. CASE StartExplicitFix
  BY <1>1, <1>2, <1>3, <1>6, InOrder DEF Replacing, StartExplicitFix, Undisturbed, StopShown, Inductive, TypeOK, FilesType
<1>7. CASE StartResume
  <2>1. faults = 0 => status # "none"
    BY <1>1, <1>7 DEF StartResume, StopAgreement, StoppedStatusCoherent, Stopped
  <2> QED
    BY <1>1, <1>2, <1>3, <1>7, <2>1, InOrder DEF Replacing, StartResume, Undisturbed, StopShown, Inductive, TypeOK, FilesType
<1>8. CASE StartReset
  BY <1>1, <1>2, <1>8 DEF StartReset, StopAgreement, Undisturbed, Replacing, StopShown, StoppedStatusCoherent
<1> QED
  BY <1>4, <1>5, <1>6, <1>7, <1>8 DEF Commands

LEMMA CommandStepAgrees ==
  ASSUME Inductive, StopAgreement, CommandStep
  PROVE  StopAgreement'
<1>1. faults' = faults
  BY DEF CommandStep, ActivateNewTask, ForgetPreviousTask, ActivateDecision, EnsureActiveTask,
         RemovePreviousTask, ResetStatus, ResetDecision, ResetRest, budget
<1>2. faults = 0 => Undisturbed
  BY DEF StopAgreement
<1>3. CASE ActivateNewTask \/ ForgetPreviousTask \/ ActivateDecision
  <2>1. ckpt' = ckpt /\ prev' = prev
    BY <1>3 DEF ActivateNewTask, ForgetPreviousTask, ActivateDecision, locals
  <2>2. OneStop(ckpt') /\ OneStop(prev')
    BY <2>1 DEF StopAgreement
  <2>3. pc' \in {"new-forget", "ensure"}
    BY <1>3 DEF ActivateNewTask, ForgetPreviousTask, ActivateDecision
  <2>4. faults' = 0 => taskID' /\ ~StopShown'
    BY <1>1, <1>2, <1>3 DEF ActivateNewTask, ForgetPreviousTask, ActivateDecision, Undisturbed,
           Replacing, StopShown
  <2> QED
    BY <2>2, <2>3, <2>4, InOrder DEF Replacing
<1>4. CASE EnsureActiveTask
  <2>1. ckpt' = ckpt /\ prev' \in {prev, Nothing}
    BY <1>4, FailClosedLeaves DEF EnsureActiveTask, Goto, locals
  <2>2. OneStop(ckpt') /\ OneStop(prev')
    BY <2>1, StopsAreOne DEF StopAgreement
  <2>3. pc' \in {"report-start", "begin", "fc-clear"}
    BY <1>4, FailClosedLeaves DEF EnsureActiveTask, Goto
  <2>4. faults' = 0 => taskID' /\ ~StopShown'
    BY <1>1, <1>4, Running DEF Replacing, EnsureActiveTask, StopShown
  <2> QED
    BY <2>2, <2>3, <2>4, InOrder DEF Replacing
<1>5. CASE ResetDecision
  BY <1>1, <1>2, <1>5 DEF ResetDecision, Goto, locals, StopAgreement, Undisturbed, Replacing, StopShown, StoppedStatusCoherent
<1>6. CASE ResetRest
  <2>1. ckpt' = Nothing /\ prev' = Nothing /\ pc' = "idle" /\ status' = status
    BY <1>6, EndLeaves DEF ResetRest
  <2>2. OneStop(ckpt') /\ OneStop(prev')
    BY <2>1, StopsAreOne
  <2>3. faults = 0 => status' = "none"
    BY <1>2, <1>6, <2>1 DEF ResetRest, Undisturbed
  <2> QED
    BY <1>1, <2>1, <2>2, <2>3 DEF StopAgreement, Undisturbed, StopShown, StoppedStatusCoherent
<1>7. CASE RemovePreviousTask
  BY <1>1, <1>2, <1>7
     DEF RemovePreviousTask, Goto, locals, StopAgreement, Undisturbed, Replacing,
         StopShown, StoppedStatusCoherent
<1>8. CASE ResetStatus
  BY <1>1, <1>2, <1>8
     DEF ResetStatus, Goto, locals, StopAgreement, Undisturbed, Replacing,
         StopShown, StoppedStatusCoherent
<1> QED
  BY <1>3, <1>4, <1>5, <1>6, <1>7, <1>8 DEF CommandStep

LEMMA ResumeStepAgrees ==
  ASSUME Inductive, StopAgreement, ResumeStep
  PROVE  StopAgreement'
<1>1. faults' = faults /\ taskID' = taskID
  BY DEF ResumeStep, ResumeGate, VerifyReviewResume, RestoreStop, RestoreStopStatus, files, budget
<1>2. CASE ResumeGate \/ VerifyReviewResume
  <2>1. ckpt' = ckpt /\ prev' \in {prev, Nothing} /\ status' = status
    BY <1>2, FailClosedLeaves, ResumeCallLeaves
       DEF ResumeGate, VerifyReviewResume, AfterProbeGate, Goto, locals, files
  <2>2. OneStop(ckpt') /\ OneStop(prev')
    BY <2>1, StopsAreOne DEF StopAgreement
  <2>3. pc' \in {"probe", "resume-check", "begin", "fc-clear"} /\ pc \in {"resume-gate", "resume-check"}
    BY <1>2, FailClosedLeaves, ResumeCallLeaves DEF ResumeGate, VerifyReviewResume, AfterProbeGate, Goto
  <2>4. faults' = 0 => taskID' /\ ~StopShown'
    BY <1>1, <2>1, <2>3, Running DEF Replacing, StopShown
  <2> QED
    BY <2>2, <2>3, <2>4, InOrder DEF Replacing
<1>3. CASE RestoreStop
  <2>1. prev \in Checkpoint /\ prev' = prev /\ status' = status /\ pc = "restore" /\ pc' = "restore-status"
    <3>1. Stopped(prev) /\ prev \in Checkpoint \cup {Nothing}
      BY <1>3 DEF RestoreStop, Inductive, Positions, FlagsCleared, TypeOK, LocalsType
    <3> QED
      BY <1>3, <3>1, NothingNotStopped DEF RestoreStop, Goto, locals, files
  <2>2. OneStop(ckpt') /\ OneStop(prev')
    BY <1>3, <2>1, StopsAreOne DEF RestoreStop, StopAgreement
  <2>4. faults' = 0 => taskID' /\ ~StopShown'
    BY <1>1, <2>1, Running DEF Replacing, StopShown
  <2> QED
    BY <2>1, <2>2, <2>4, InOrder DEF Replacing
<1>4. CASE RestoreStopStatus
  <2>1. Stopped(ckpt) /\ OneStop(ckpt)
    BY <1>4 DEF RestoreStopStatus, Inductive, Positions, StopOnDisk, StopAgreement
  <2>2. ckpt' = ckpt /\ prev' = Nothing /\ pc' = "idle" /\ status' = StopStatus(ckpt) /\ pc = "restore-status"
    BY <1>4, EndLeaves DEF RestoreStopStatus
  <2>3. faults' = 0 => taskID'
    BY <1>1, <2>2, Running DEF Replacing
  <2> QED
    BY <1>1, <2>1, <2>2, <2>3, StopsAreOne, StopStatusTells
       DEF StopAgreement, Undisturbed, StopShown, StoppedStatusCoherent
<1> QED
  BY <1>2, <1>3, <1>4 DEF ResumeStep

LEMMA CallStepAgrees ==
  ASSUME Inductive, StopAgreement, CallStep
  PROVE  StopAgreement'
<1> USE DEF files, snaps, locals, budget, Fault, Goto, Call
<1>1. /\ faults \in Nat /\ (faults' = faults \/ faults' = faults + 1)
      /\ taskID' = taskID /\ status' = status /\ pc \in {"begin", "call"}
  <2>1. faults \in Nat
    BY BoundsAssumption DEF Inductive, TypeOK, CountersType
  <2> QED
    BY <2>1 DEF CallStep, BeginCall, BeginRefused, BeginFails, CallViolatesGuard, CallSucceeds,
           CallBreaksContract, CallFails, CallStateError, CallRateLimited, CallTransient
<1>2. faults' = 0 => faults = 0 /\ faults' = faults /\ taskID /\ taskID' /\ ~StopShown'
  <2>1. faults' = 0 => faults = 0 /\ faults' = faults
    BY <1>1
  <2> QED
    BY <1>1, <2>1, Running DEF Replacing, StopShown
<1>3. OneStop(prev')
  <2>1. prev' \in {prev, Nothing}
    BY FailedLeaves, FailClosedLeaves
       DEF CallStep, BeginCall, BeginRefused, BeginFails, CallViolatesGuard, CallSucceeds,
           CallBreaksContract, CallFails, CallStateError, CallRateLimited, CallTransient
  <2> QED
    BY <2>1, StopsAreOne DEF StopAgreement
<1>4. OneStop(ckpt')
  <2>1. cp \in Checkpoint /\ (pc = "begin" => ~Stopped(cp))
    BY <1>1 DEF Inductive, Positions, LocalsSet, FlagsCleared, Calling
  <2>2. CASE BeginCall
    BY <2>1, <2>2, StopsAreOne DEF BeginCall, StopAgreement
  <2>3. CASE CallRateLimited
    BY <2>1, <2>3, StopsAreOne DEF CallRateLimited
  <2>4. CASE ~BeginCall /\ ~CallRateLimited
    <3>1. ckpt' \in {ckpt, Nothing}
      BY <2>4 DEF CallStep, BeginRefused, BeginFails, CallViolatesGuard, CallSucceeds,
             CallBreaksContract, CallFails, CallStateError, CallTransient
    <3> QED
      BY <3>1, StopsAreOne DEF StopAgreement
  <2> QED
    BY <2>2, <2>3, <2>4
<1>5. pc' \in {"idle", "restore", "begin", "call", "probe", "stop-status", "fc-clear",
               "review-end", "report-end", "worker-result"}
  BY FailedLeaves, FailClosedLeaves
     DEF CallStep, BeginCall, BeginRefused, BeginFails, CallViolatesGuard, CallSucceeds,
         CallBreaksContract, CallFails, CallStateError, CallRateLimited, CallTransient
<1>6. faults' = 0 /\ pc' = "idle" => ckpt' = Nothing
  <2>1. ASSUME faults' = 0, pc' = "idle"
        PROVE  ~BeginFails /\ ~CallStateError
    BY <1>1, <1>2, <2>1 DEF BeginFails, CallStateError
  <2>2. ASSUME pc' = "idle", ~BeginFails, ~CallStateError
        PROVE  ckpt' = Nothing
    BY <2>2, FailClosedLeaves
       DEF CallStep, BeginCall, BeginRefused, CallViolatesGuard, CallSucceeds,
           CallBreaksContract, CallFails, CallRateLimited, CallTransient
  <2> QED
    BY <2>1, <2>2
<1> QED
  BY <1>2, <1>3, <1>4, <1>5, <1>6, NothingNotStopped, InOrder DEF Replacing

LEMMA ProbeStepAgrees ==
  ASSUME Inductive, StopAgreement, ProbeStep
  PROVE  StopAgreement'
<1> USE DEF files, snaps, locals, budget, Goto, Fault
<1>1. /\ faults \in Nat /\ (faults' = faults \/ faults' = faults + 1)
      /\ taskID' = taskID /\ status' = status /\ pc = "probe"
  <2>1. faults \in Nat
    BY BoundsAssumption DEF Inductive, TypeOK, CountersType
  <2> QED
    BY <2>1 DEF ProbeStep, ProbeContinues, ProbeSucceeds, ProbeRateLimited, ProbeFatal,
           RecoveryExhausted
<1>2. faults' = 0 => faults' = faults /\ taskID /\ taskID' /\ ~StopShown'
  <2>1. faults' = 0 => faults = 0 /\ faults' = faults
    BY <1>1
  <2> QED
    BY <1>1, <2>1, Running DEF Replacing, StopShown
<1>3. OneStop(prev')
  <2>1. prev' \in {prev, Nothing}
    BY FailedLeaves, ResumeCallLeaves
       DEF ProbeStep, ProbeContinues, ProbeSucceeds, ProbeRateLimited, ProbeFatal, RecoveryExhausted, AfterProbeGate
  <2> QED
    BY <2>1, StopsAreOne DEF StopAgreement
<1>4. OneStop(ckpt')
  <2>1. cp \in Checkpoint
    BY <1>1 DEF Inductive, Positions, LocalsSet, Calling
  <2>2. ckpt' \in {ckpt, Nothing, RateLimitStop(cp), UnavailableStop(cp)}
    BY DEF ProbeStep, ProbeContinues, ProbeSucceeds, ProbeRateLimited, ProbeFatal, RecoveryExhausted
  <2> QED
    BY <2>1, <2>2, StopsAreOne DEF StopAgreement
<1>5. pc' \in {"idle", "restore", "probe", "resume-check", "begin", "stop-status"}
  BY <1>1, FailedLeaves, ResumeCallLeaves
     DEF ProbeStep, ProbeContinues, ProbeSucceeds, ProbeRateLimited, ProbeFatal, RecoveryExhausted, AfterProbeGate
<1>6. faults' = 0 /\ pc' = "idle" => ckpt' = Nothing
  <2>1. ASSUME faults' = 0, ProbeFatal
        PROVE  ckpt' = Nothing
    BY <1>1, <1>2, <2>1 DEF ProbeFatal
  <2>2. ASSUME pc' = "idle", ~ProbeFatal
        PROVE  ckpt' = Nothing
    BY <1>1, <2>2, ResumeCallLeaves
       DEF ProbeStep, ProbeContinues, ProbeSucceeds, ProbeRateLimited, RecoveryExhausted, AfterProbeGate
  <2> QED
    BY <2>1, <2>2
<1> QED
  BY <1>2, <1>3, <1>4, <1>5, <1>6, NothingNotStopped, InOrder DEF Replacing

LEMMA StopStepAgrees ==
  ASSUME Inductive, StopAgreement, StopStep
  PROVE  StopAgreement'
<1> USE DEF files, snaps, locals, budget, Goto, Fault
<1>1. CASE SaveStopStatus
  <2>1. /\ ckpt' = ckpt /\ prev' = prev /\ taskID' = taskID /\ faults' = faults
        /\ pc = "stop-status" /\ pc' = "stop-report" /\ status' = StopStatus(ckpt)
    BY <1>1 DEF SaveStopStatus
  <2>2. faults = 0 => taskID
    BY <2>1, Running DEF Replacing
  <2> QED
    BY <2>1, <2>2 DEF StopAgreement, Undisturbed, StopShown, StoppedStatusCoherent, StopStatus
<1>2. CASE ReportStop
  <2>1. /\ ckpt' = ckpt /\ prev' = Nothing /\ taskID' = taskID /\ faults' = faults
        /\ pc = "stop-report" /\ pc' = "idle" /\ status' = status
    BY <1>2, EndLeaves DEF ReportStop
  <2>2. Stopped(ckpt) /\ OneStop(ckpt)
    BY <2>1 DEF Inductive, Positions, StopOnDisk, StopAgreement
  <2>3. faults = 0 => status = StopStatus(ckpt) /\ taskID
    BY <2>1 DEF StopAgreement, Undisturbed, Replacing
  <2> QED
    BY <2>1, <2>2, <2>3, StopsAreOne, StopStatusTells
       DEF StopAgreement, Undisturbed, StopShown, StoppedStatusCoherent
<1>3. CASE StopFails
  <2>1. faults \in Nat /\ (faults' = faults \/ faults' = faults + 1)
    BY <1>3, BoundsAssumption DEF StopFails, Inductive, TypeOK, CountersType
  <2>2. faults' # 0
    <3>1. pc = "stop-status" => faults' = faults + 1
      BY <1>3 DEF StopFails
    <3>2. pc # "stop-status" => pc = "stop-report" /\ ~taskID /\ faults' = faults
      BY <1>3 DEF StopFails
    <3>3. faults = 0 /\ pc = "stop-report" => taskID
      BY DEF StopAgreement, Undisturbed, Replacing
    <3> QED
      BY <2>1, <3>1, <3>2, <3>3
  <2>3. ckpt' \in {ckpt, Nothing} /\ prev' \in {prev, Nothing} /\ pc' \in {"idle", "restore"}
    BY <1>3, FailedLeaves DEF StopFails
  <2>4. OneStop(ckpt') /\ OneStop(prev')
    BY <2>3, StopsAreOne DEF StopAgreement
  <2> QED
    BY <2>2, <2>3, <2>4, InOrder DEF Replacing
<1> QED
  BY <1>1, <1>2, <1>3 DEF StopStep

LEMMA FailClosedStepAgrees ==
  ASSUME Inductive, StopAgreement, FailClosedStep
  PROVE  StopAgreement'
<1> USE DEF files, snaps, locals, budget, Goto, Fault
<1>1. pc \in {"fc-clear", "fc-status"} /\ taskID' = taskID
  BY DEF FailClosedStep, FailClosedClear, FailClosedStatus, FailClosedFails
<1>2. CASE FailClosedClear
  <2>1. faults' = 0 => taskID' /\ ~StopShown'
    BY <1>1, <1>2, Running DEF Replacing, FailClosedClear, StopShown
  <2> QED
    BY <1>2, <2>1, StopsAreOne, InOrder DEF Replacing, FailClosedClear, StopAgreement
<1>3. CASE FailClosedStatus
  <2>1. ckpt' = ckpt /\ ~Stopped(ckpt) /\ prev' = Nothing /\ pc' = "idle" /\ faults' = faults
    BY <1>3, EndLeaves DEF FailClosedStatus, Inductive, Positions, StopOnDisk
  <2>2. faults' = 0 => taskID' /\ ~StopShown'
    BY <1>1, <1>3, <2>1, Running DEF Replacing, FailClosedStatus, StopShown
  <2> QED
    BY <2>1, <2>2, StopsAreOne, InOrder DEF Replacing, StopAgreement
<1>4. CASE FailClosedFails
  <2>1. faults' # 0
    BY <1>4, BoundsAssumption DEF FailClosedFails, Inductive, TypeOK, CountersType
  <2>2. ckpt' = ckpt /\ prev' \in {prev, Nothing} /\ pc' \in {"idle", "restore"}
    BY <1>4, FailedLeaves DEF FailClosedFails
  <2> QED
    BY <2>1, <2>2, StopsAreOne, InOrder DEF Replacing, StopAgreement
<1> QED
  BY <1>2, <1>3, <1>4 DEF FailClosedStep

LEMMA ResultStepAgrees ==
  ASSUME Inductive, StopAgreement, ResultStep
  PROVE  StopAgreement'
<1> USE DEF locals, budget, Goto
<1>1. /\ pc \in {"worker-result", "await"} /\ pc' \in {"await", "idle", "review-prep"}
      /\ ckpt' = ckpt /\ prev' \in {prev, Nothing} /\ taskID' = taskID /\ faults' = faults
      /\ status' \in {status, "waiting-decision", "active"}
  BY EndLeaves DEF ResultStep, WorkerAsksSol, AwaitDecision, WorkerImplemented
<1>2. ~Stopped(ckpt)
  BY <1>1 DEF Inductive, Positions, StopOnDisk, WorkerDone
<1>3. faults' = 0 => taskID' /\ ~StopShown'
  BY <1>1, Running DEF Replacing, StopShown
<1> QED
  BY <1>1, <1>2, <1>3, StopsAreOne, InOrder DEF Replacing, StopAgreement

LEMMA ReviewStepAgrees ==
  ASSUME Inductive, StopAgreement, ReviewStep
  PROVE  StopAgreement'
<1> USE DEF files, snaps, locals, budget, Goto, Fault, Finish, AdoptReview, Call
<1>1. /\ ckpt' = ckpt /\ prev' \in {prev, Nothing} /\ taskID' = taskID
      /\ pc' \in {"fc-clear", "review-risk", "review-active", "review-start", "begin",
                  "review-floor", "record-review", "review-result",
                  "idle", "ensure", "worker-result"}
      /\ status' \in {status, "complete", "waiting-sol-review"}
  BY EndLeaves, FailClosedLeaves
     DEF ReviewStep, CaptureWorkerEnd, ComputeEffectiveRisk, EnsureReviewTask, VerifyReviewStart,
         VerifyReviewEnd, EnforceRiskFloor, RecordReview, ReviewPasses, ReviewNeedsSol, AutoFix, SaveReportStart, VerifyReportEnd, CaptureFails
<1>2. /\ pc \in {"review-prep", "review-risk", "review-active", "review-start", "review-end",
                 "review-floor", "record-review", "review-result",
                 "report-start", "report-end", "resume-check", "ensure", "resume-gate", "begin"}
      /\ pc' = "idle" => pc = "review-result"
  BY FailClosedLeaves
     DEF ReviewStep, CaptureWorkerEnd, ComputeEffectiveRisk, EnsureReviewTask, VerifyReviewStart,
         VerifyReviewEnd, EnforceRiskFloor, RecordReview, ReviewPasses, ReviewNeedsSol, AutoFix, SaveReportStart, VerifyReportEnd, CaptureFails
<1>3. faults \in Nat /\ (faults' = faults \/ faults' = faults + 1)
  BY BoundsAssumption
     DEF ReviewStep, CaptureWorkerEnd, ComputeEffectiveRisk, EnsureReviewTask, VerifyReviewStart,
         VerifyReviewEnd, EnforceRiskFloor, RecordReview, ReviewPasses, ReviewNeedsSol, AutoFix, SaveReportStart, VerifyReportEnd, CaptureFails,
         Inductive, TypeOK, CountersType
<1>4. pc = "review-result" => ~Stopped(ckpt)
  BY DEF Inductive, Positions, StopOnDisk, ReviewDone
<1>5. faults' = 0 => taskID' /\ ~StopShown'
  <2>1. faults' = 0 => faults = 0
    BY <1>3
  <2> QED
    BY <1>1, <1>2, <2>1, Running DEF Replacing, StopShown
<1> QED
  BY <1>1, <1>2, <1>4, <1>5, StopsAreOne, InOrder DEF Replacing, StopAgreement

LEMMA AgreementNext == Inductive /\ StopAgreement /\ [Next]_vars => StopAgreement'
<1> SUFFICES ASSUME Inductive, StopAgreement, [Next]_vars
             PROVE  StopAgreement'
  OBVIOUS
<1>1. CASE Commands
  BY <1>1, CommandsAgree
<1>2. CASE Step
  BY <1>2, CommandStepAgrees, ResumeStepAgrees, CallStepAgrees, ProbeStepAgrees,
     StopStepAgrees, FailClosedStepAgrees, ResultStepAgrees, ReviewStepAgrees DEF Step
<1>3. CASE Crash
  <2>1. faults' # 0
    BY <1>3, BoundsAssumption DEF Crash, Fault, Inductive, TypeOK, CountersType
  <2>2. ckpt' = ckpt /\ prev' = Nothing /\ pc' = "idle"
    BY <1>3, EndLeaves DEF Crash
  <2> QED
    BY <2>1, <2>2, StopsAreOne, InOrder DEF Replacing, StopAgreement
<1>4. CASE WorkerEdits \/ Edit \/ UNCHANGED vars
  <2>1. UNCHANGED <<taskID, status, ckpt, pc, prev, faults>>
    BY <1>4 DEF WorkerEdits, Edit, vars, files, locals, budget
  <2> QED
    BY <2>1 DEF StopAgreement, OneStop, Undisturbed, StopShown, StoppedStatusCoherent, StopStatus
<1> QED
  BY <1>1, <1>2, <1>3, <1>4 DEF Next

-----------------------------------------------------------------------------
(* The theorem *)

\* Between commands, and as long as nothing failed, the status names the stop the
\* checkpoint holds: what --status shows is what --resume finds
\* (persistRateLimitedStop, persistProviderUnavailableStop, ExecuteResume).
THEOREM StatusNamesStop == Spec => []StoppedStatusCoherent
<1>1. Init => StopAgreement
  BY AgreementInit
<1>2. Inductive /\ StopAgreement /\ [Next]_vars => StopAgreement'
  BY AgreementNext
<1>3. StopAgreement => StoppedStatusCoherent
  BY DEF StopAgreement
<1> QED
  BY <1>1, <1>2, <1>3, InductiveInvariant, PTL DEF Spec
=============================================================================
