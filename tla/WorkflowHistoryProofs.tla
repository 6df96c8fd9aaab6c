------------------------ MODULE WorkflowHistoryProofs ------------------------
(***************************************************************************)
(* What spans several commands (WorkflowHistory), for any number of codes, *)
(* edits, faults, probes and fixes.  What the history has to say of a call *)
(* is kept with the places its checkpoint can be: on disk, local, or the   *)
(* stop a resume keeps to put back.                                        *)
(***************************************************************************)
EXTENDS WorkflowHistory, WorkflowReviewProofs

-----------------------------------------------------------------------------
(* The invariants *)

\* A reviewer's checkpoint that is not for the low-risk path.
NotLow(c) == c # Nothing /\ IsReviewer(c) => c.risk # "LOW"

\* A task that was reviewed before: no review of it is of low risk any more, and no
\* PASS gets through.  Only a reset forgets the review, and the task with it.
ReviewedBefore ==
    /\ \/ lastReview
       \/ pc \in Replacing \cup {"idle"} /\ status = "none" /\ ~Stopped(ckpt)
    /\ pc \in {"reset-decision", "reset-rest"} => status = "none"
    /\ Stopped(ckpt) => NotLow(ckpt)
    /\ NotLow(prev) /\ NotLow(cp)
    /\ pc \in {"record-review", "review-result"} => result.status # "PASS"
    /\ status # "complete"

FixedIsReviewed ==
    /\ fixed = "reviewed" => ReviewedBefore
    /\ pc \in {"new-activate", "new-forget"} => fixed = "no"

\* Where a new checkpoint is built no stop is on disk.
NoStopLeft ==
    /\ pc \in {"new-activate", "new-forget", "decide", "ensure", "report-start", "call"}
          => ~Stopped(ckpt)
    /\ pc = "begin" /\ probes # 0 => ~Stopped(ckpt)
    /\ pc = "probe" /\ ~AtGate => ~Stopped(ckpt)

\* The stop that is resumed, until its gates are passed.
AtResume == pc \in {"resume-gate", "resume-check"} \/ (pc = "probe" /\ AtGate)

StopsKnown ==
    /\ AtResume => cp = ckpt /\ Stopped(ckpt)
    /\ ~restopped /\ Stopped(ckpt) => ckpt.stopParents = stoppedWith

\* The baseline of a report-only call is on disk wherever the call is.
BasedOnReport(c) == c # Nothing /\ c.reportOnly => reportStart = reportBase

ReportBased ==
    /\ pc \in {"ensure", "report-start"} /\ cp.reportOnly => reportBase = Nothing
    /\ pc \in {"report-start", "report-end"} => cp.reportOnly
    /\ Stopped(ckpt) => BasedOnReport(ckpt)
    /\ BasedOnReport(prev)
    /\ pc \in {"begin", "call", "probe", "stop-status", "stop-report",
               "resume-gate", "resume-check", "report-end", "review-active", "review-start"}
          => BasedOnReport(cp)

-----------------------------------------------------------------------------
(* The data *)

\* A command that ends, fails or fails closed forgets its checkpoint.
LEMMA CallForgotten == End \/ Failed \/ FailClosed => cp' = Nothing
BY DEF End, Failed, FailClosed, Leave

\* What the checkpoints of a call are made of, and those a command builds.
LEMMA SameReport ==
  \A c \in Checkpoint :
     /\ Cleared(c).reportOnly = c.reportOnly /\ Saved(c).reportOnly = c.reportOnly
     /\ Corrected(c).reportOnly = c.reportOnly /\ Restored(c).reportOnly = c.reportOnly
     /\ RateLimitStop(c).reportOnly = c.reportOnly
     /\ UnavailableStop(c).reportOnly = c.reportOnly
BY DEF Cleared, Saved, Corrected, Restored, RateLimitStop, UnavailableStop, Checkpoint

LEMMA NotReportOnly ==
  /\ WorkerCheckpoint.reportOnly = FALSE
  /\ \A c \in Checkpoint : ReemitCheckpoint(c).reportOnly = FALSE
  /\ \A a \in 0 .. MaxAutoFixRounds, w \in Risks, r \in Risks :
        ReviewCheckpoint(a, w, r).reportOnly = FALSE
BY DEF WorkerCheckpoint, ReemitCheckpoint, ReviewCheckpoint

\* No checkpoint made of one that is not of low risk is of low risk.
LEMMA NotLowKept ==
  \A c \in Checkpoint : NotLow(c) =>
     /\ NotLow(Cleared(c)) /\ NotLow(Saved(c)) /\ NotLow(Corrected(c))
     /\ NotLow(Restored(c)) /\ NotLow(RateLimitStop(c)) /\ NotLow(UnavailableStop(c))
BY SameReview, SameStop, NothingAssumption DEF NotLow, IsReviewer

LEMMA NotLowBuilt ==
  /\ NotLow(Nothing) /\ NotLow(WorkerCheckpoint)
  /\ \A c \in Checkpoint : NotLow(ReemitCheckpoint(c))
  /\ \A c \in Checkpoint, p \in BOOLEAN : NotLow(AutoFixCheckpoint(c, p))
  /\ \A a \in 0 .. MaxAutoFixRounds, w \in Risks : NotLow(ReviewCheckpoint(a, w, "HIGH"))
BY NewCheckpoints DEF NotLow, IsReviewer, Risks

-----------------------------------------------------------------------------
(* A task that was reviewed before *)

\* A step of a running task that neither resets it nor reads a verdict.
LEMMA StillReviewed ==
  ASSUME lastReview', status' # "complete", Stopped(ckpt') => NotLow(ckpt'),
         NotLow(prev'), NotLow(cp'),
         pc' \notin {"reset-decision", "reset-rest", "record-review", "review-result"}
  PROVE  ReviewedBefore'
BY DEF ReviewedBefore

LEMMA RunningReviewed ==
  ASSUME ReviewedBefore, pc \notin Replacing \cup {"idle"}
  PROVE  lastReview
BY DEF ReviewedBefore

\* A fix Sol orders after a review begins with a stop neither on disk nor kept.
LEMMA FixBeginsReviewed ==
  ASSUME Inductive, ReviewFoundations, StartExplicitFix, lastReview
  PROVE  ReviewedBefore'
<1>1. ~Stopped(ckpt) /\ prev = Nothing /\ lastReview \in BOOLEAN
  BY DEF StartExplicitFix, Inductive, Claims, TerminalNotResumable, Terminal,
         ReviewFoundations, PrevKept, TypeOK, FilesType
<1>2. /\ ckpt' = ckpt /\ prev' = prev /\ cp' = WorkerCheckpoint /\ lastReview' = lastReview
      /\ status' = "active" /\ pc' = "ensure"
  BY DEF StartExplicitFix
<1> QED
  BY <1>1, <1>2, NotLowBuilt, StillReviewed

LEMMA CommandsReviewed ==
  ASSUME Inductive, ReviewFoundations, ReviewedBefore, Commands
  PROVE  ReviewedBefore'
<1>1. CASE StartDecision
  BY <1>1, StillReviewed DEF StartDecision, ReviewedBefore, Replacing, locals
<1>2. CASE StartExplicitFix
  BY <1>2, FixBeginsReviewed DEF StartExplicitFix, ReviewedBefore
<1>3. CASE StartResume
  BY <1>3, StillReviewed DEF StartResume, ReviewedBefore
<1>4. CASE StartReset
  BY <1>4 DEF StartReset, ReviewedBefore, Replacing, locals
<1>5. CASE StartNewTask
  BY <1>5 DEF StartNewTask, ReviewedBefore, Replacing, locals
<1> QED
  BY <1>1, <1>2, <1>3, <1>4, <1>5 DEF Commands

LEMMA CommandStepReviewed ==
  ASSUME Inductive, ReviewedBefore, CommandStep, ~RemovePreviousTask,
         pc \notin {"new-activate", "new-forget"}
  PROVE  ReviewedBefore'
<1>1. CASE ActivateDecision
  BY <1>1, NotLowBuilt, StillReviewed DEF ActivateDecision, ReviewedBefore, Replacing
<1>2. CASE EnsureActiveTask
  <2>1. /\ lastReview' = lastReview /\ status' = status /\ ckpt' = ckpt /\ pc = "ensure"
        /\ prev' \in {prev, Nothing} /\ cp' \in {cp, Nothing}
        /\ pc' \in {"fc-clear", "report-start", "begin"}
    BY <1>2, FailClosedLeaves, CallForgotten DEF EnsureActiveTask, Goto, locals
  <2> QED
    BY <2>1, NotLowBuilt, StillReviewed DEF ReviewedBefore, Replacing
<1>3. CASE ResetStatus \/ ResetDecision
  BY <1>3 DEF ResetStatus, ResetDecision, Goto, locals, ReviewedBefore, Replacing
<1>4. CASE ResetRest
  <2>1. ckpt' = Nothing /\ prev' = Nothing /\ cp' = Nothing /\ pc' = "idle" /\ status' = "none"
    BY <1>4, EndLeaves, CallForgotten DEF ResetRest, ReviewedBefore
  <2> QED
    BY <2>1, NotLowBuilt, NothingNotStopped DEF ReviewedBefore
<1> QED
  BY <1>1, <1>2, <1>3, <1>4 DEF CommandStep, ActivateNewTask, ForgetPreviousTask

LEMMA ResumeStepReviewed ==
  ASSUME Inductive, ReviewedBefore, ResumeStep
  PROVE  ReviewedBefore'
<1> USE DEF files, locals, Goto, AfterProbeGate
<1>1. /\ lastReview' = lastReview /\ status' \in {status, "rate-limited", "provider-unavailable"}
      /\ pc \in {"resume-gate", "resume-check", "restore", "restore-status"}
      /\ pc' \in {"fc-clear", "probe", "resume-check", "begin", "restore-status", "idle"}
      /\ prev' \in {prev, Nothing}
  BY FailClosedLeaves, ResumeCallLeaves, EndLeaves
     DEF ResumeStep, ResumeGate, VerifyReviewResume, RestoreStop, RestoreStopStatus, StopStatus
<1>2. NotLow(cp')
  <2>1. \/ cp' \in {cp, Nothing}
        \/ pc \in {"resume-gate", "resume-check"} /\ cp' = Cleared(cp)
    BY CallForgotten, ResumeCallLeaves
       DEF ResumeStep, ResumeGate, VerifyReviewResume, RestoreStop, RestoreStopStatus
  <2>2. pc \in {"resume-gate", "resume-check"} => cp \in Checkpoint
    BY DEF Inductive, Positions, LocalsSet, Calling
  <2> QED
    BY <2>1, <2>2, NotLowKept, NotLowBuilt DEF ReviewedBefore
<1>3. Stopped(ckpt') => NotLow(ckpt')
  <2>1. CASE RestoreStop
    <3>1. prev \in Checkpoint
      BY <2>1, NothingNotStopped
         DEF RestoreStop, Inductive, Positions, FlagsCleared, TypeOK, LocalsType
    <3> QED
      BY <2>1, <3>1, NotLowKept DEF RestoreStop, ReviewedBefore
  <2>2. CASE ~RestoreStop
    BY <2>2 DEF ResumeStep, ResumeGate, VerifyReviewResume, RestoreStopStatus, ReviewedBefore
  <2> QED
    BY <2>1, <2>2
<1> QED
  BY <1>1, <1>2, <1>3, NotLowBuilt, RunningReviewed, StillReviewed DEF ReviewedBefore, Replacing

LEMMA CallStepReviewed ==
  ASSUME Inductive, ReviewedBefore, CallStep
  PROVE  ReviewedBefore'
<1> USE DEF files, locals, Goto, Call
<1>0. cp \in Checkpoint /\ pc \in {"begin", "call"}
  <2>1. pc \in {"begin", "call"}
    BY DEF CallStep, BeginCall, BeginRefused, BeginFails, CallViolatesGuard, CallSucceeds,
           CallBreaksContract, CallFails, CallStateError, CallRateLimited, CallTransient
  <2> QED
    BY <2>1 DEF Inductive, Positions, LocalsSet, Calling
<1>1. /\ lastReview' = lastReview /\ status' = status /\ prev' \in {prev, Nothing}
      /\ pc' \in {"idle", "restore", "begin", "call", "probe", "stop-status", "fc-clear",
                  "review-end", "report-end", "worker-result"}
  BY FailedLeaves, FailClosedLeaves
     DEF CallStep, BeginCall, BeginRefused, BeginFails, CallViolatesGuard, CallSucceeds,
         CallBreaksContract, CallFails, CallStateError, CallRateLimited, CallTransient
<1>2. cp' \in {cp, Nothing, Saved(cp), Corrected(cp)}
  BY CallForgotten
     DEF CallStep, BeginCall, BeginRefused, BeginFails, CallViolatesGuard, CallSucceeds,
         CallBreaksContract, CallFails, CallStateError, CallRateLimited, CallTransient
<1>3. ckpt' \in {ckpt, Nothing, Saved(cp), RateLimitStop(cp)}
  BY DEF CallStep, BeginCall, BeginRefused, BeginFails, CallViolatesGuard, CallSucceeds,
         CallBreaksContract, CallFails, CallStateError, CallRateLimited, CallTransient
<1>4. NotLow(cp') /\ (Stopped(ckpt') => NotLow(ckpt')) /\ NotLow(prev')
  BY <1>0, <1>1, <1>2, <1>3, NotLowKept, NotLowBuilt DEF ReviewedBefore
<1> QED
  BY <1>0, <1>1, <1>4, RunningReviewed, StillReviewed DEF ReviewedBefore, Replacing

LEMMA ProbeStepReviewed ==
  ASSUME Inductive, ReviewedBefore, ProbeStep
  PROVE  ReviewedBefore'
<1> USE DEF files, locals, Goto, AfterProbeGate
<1>0. pc = "probe" /\ cp \in Checkpoint
  BY DEF ProbeStep, ProbeContinues, ProbeSucceeds, ProbeRateLimited, ProbeFatal,
         RecoveryExhausted, Inductive, Positions, LocalsSet, Calling
<1>1. /\ lastReview' = lastReview /\ status' = status /\ prev' \in {prev, Nothing}
      /\ pc' \in {"idle", "restore", "probe", "resume-check", "begin", "stop-status"}
  BY <1>0, FailedLeaves, ResumeCallLeaves
     DEF ProbeStep, ProbeContinues, ProbeSucceeds, ProbeRateLimited, ProbeFatal, RecoveryExhausted
<1>2. cp' \in {cp, Nothing, Cleared(cp)}
  BY CallForgotten, ResumeCallLeaves
     DEF ProbeStep, ProbeContinues, ProbeSucceeds, ProbeRateLimited, ProbeFatal, RecoveryExhausted
<1>3. ckpt' \in {ckpt, Nothing, RateLimitStop(cp), UnavailableStop(cp)}
  BY DEF ProbeStep, ProbeContinues, ProbeSucceeds, ProbeRateLimited, ProbeFatal, RecoveryExhausted
<1>4. NotLow(cp') /\ (Stopped(ckpt') => NotLow(ckpt')) /\ NotLow(prev')
  BY <1>0, <1>1, <1>2, <1>3, NotLowKept, NotLowBuilt DEF ReviewedBefore
<1> QED
  BY <1>0, <1>1, <1>4, RunningReviewed, StillReviewed DEF ReviewedBefore, Replacing

\* Stops, failing closed and the worker's result build no checkpoint.
LEMMA OtherStepReviewed ==
  ASSUME Inductive, ReviewedBefore, StopStep \/ FailClosedStep \/ ResultStep
  PROVE  ReviewedBefore'
<1> USE DEF files, locals, Goto
<1>1. /\ lastReview' = lastReview /\ status' # "complete" /\ prev' \in {prev, Nothing}
      /\ cp' \in {cp, Nothing} /\ ckpt' \in {ckpt, Nothing}
  BY FailedLeaves, EndLeaves, CallForgotten
     DEF StopStep, SaveStopStatus, ReportStop, StopFails, StopStatus, FailClosedStep,
         FailClosedClear, FailClosedStatus, FailClosedFails, ResultStep, WorkerAsksSol,
         AwaitDecision, WorkerImplemented, ReviewedBefore
<1>2. /\ pc \notin Replacing \cup {"idle"}
      /\ pc' \notin {"reset-decision", "reset-rest", "record-review", "review-result"}
  BY FailedLeaves, EndLeaves
     DEF StopStep, SaveStopStatus, ReportStop, StopFails, FailClosedStep,
         FailClosedClear, FailClosedStatus, FailClosedFails, ResultStep, WorkerAsksSol,
         AwaitDecision, WorkerImplemented, Replacing
<1> QED
  BY <1>1, <1>2, NotLowBuilt, RunningReviewed, StillReviewed DEF ReviewedBefore, Replacing

\* The reviews: the risk is high again, and a PASS is sent back.
LEMMA ReviewStepReviewed ==
  ASSUME Inductive, ReviewFoundations, ReviewedBefore, ReviewStep
  PROVE  ReviewedBefore'
<1> USE DEF files, locals, Goto
<1>0. lastReview
  <2>1. pc \notin Replacing \cup {"idle"}
    BY DEF ReviewStep, CaptureWorkerEnd, ComputeEffectiveRisk, EnsureReviewTask,
           VerifyReviewStart, VerifyReviewEnd, EnforceRiskFloor, RecordReview,
           ReviewPasses, ReviewNeedsSol, AutoFix, SaveReportStart, VerifyReportEnd,
           CaptureFails, Replacing
  <2> QED
    BY <2>1, RunningReviewed
<1>1. CASE ComputeEffectiveRisk
  <2>1. /\ lastReview' = lastReview /\ status' = status /\ ckpt' = ckpt
        /\ pc' = "review-active" /\ prev' = prev
    BY <1>1 DEF ComputeEffectiveRisk
  <2>2. NotLow(cp')
    <3>1. cp.autoFixes \in 0 .. MaxAutoFixRounds /\ result.risk \in Risks
      BY <1>1, FieldTypes, ResultTypes
         DEF ComputeEffectiveRisk, Inductive, Positions, LocalsSet, WorkerDone
    <3>2. cp' = ReviewCheckpoint(cp.autoFixes, result.risk, "HIGH")
      BY <1>0, <1>1 DEF ComputeEffectiveRisk, HighRisk
    <3> QED
      BY <3>1, <3>2, NotLowBuilt
  <2> QED
    BY <1>0, <2>1, <2>2, NotLowBuilt, StillReviewed DEF ReviewedBefore
<1>2. CASE \/ CaptureWorkerEnd \/ EnsureReviewTask \/ VerifyReviewStart \/ VerifyReviewEnd
           \/ SaveReportStart \/ VerifyReportEnd \/ CaptureFails
  <2>1. /\ lastReview' = lastReview /\ status' = status /\ ckpt' = ckpt
        /\ pc' \in {"fc-clear", "review-risk", "review-start", "begin", "review-floor",
                    "worker-result"}
        /\ prev' \in {prev, Nothing} /\ cp' \in {cp, Nothing}
    BY <1>2, FailClosedLeaves, CallForgotten
       DEF CaptureWorkerEnd, EnsureReviewTask, VerifyReviewStart, VerifyReviewEnd,
           SaveReportStart, VerifyReportEnd, CaptureFails
  <2> QED
    BY <1>0, <2>1, NotLowBuilt, StillReviewed DEF ReviewedBefore
<1>3. CASE EnforceRiskFloor
  <2>1. /\ cp \in Checkpoint /\ cp.risk # "LOW" /\ (cp.risk = "unset" => cp.reemit)
        /\ cp.risk \in {"LOW", "HIGH", "unset"}
    <3>1. cp \in Checkpoint /\ IsReviewer(cp)
      BY <1>3 DEF EnforceRiskFloor, Inductive, Positions, LocalsSet, ReviewDone,
                  ReviewFoundations
    <3> QED
      BY <1>3, <3>1, NothingAssumption
         DEF EnforceRiskFloor, ReviewFoundations, ReviewFounded, ReviewedBefore, NotLow,
             Checkpoint, Risks
  <2>2. lastReview' = lastReview /\ status' = status /\ ckpt' = ckpt
    BY <1>3 DEF EnforceRiskFloor
  <2>3. CASE Call(ReemitCheckpoint(cp)) /\ prev' = Nothing
    BY <1>0, <2>1, <2>2, <2>3, NotLowBuilt, StillReviewed DEF ReviewedBefore, Call
  <2>4. CASE \E r : AdoptReview(r) /\ r.status # "PASS"
    BY <1>0, <2>2, <2>4, NotLowBuilt DEF AdoptReview, ReviewedBefore
  <2>5. \/ Call(ReemitCheckpoint(cp)) /\ prev' = Nothing
        \/ \E r : AdoptReview(r) /\ r.status # "PASS"
    BY <1>3, <2>1 DEF EnforceRiskFloor, EffectiveHigh, ForcedReview
  <2> QED
    BY <2>3, <2>4, <2>5
<1>4. CASE RecordReview
  BY <1>0, <1>4 DEF RecordReview, ReviewedBefore
<1>5. CASE ReviewPasses
  BY <1>5 DEF ReviewPasses, ReviewedBefore
<1>6. CASE ReviewNeedsSol
  BY <1>0, <1>6, EndLeaves, CallForgotten, NotLowBuilt, StillReviewed
     DEF ReviewNeedsSol, Finish, ReviewedBefore
<1>7. CASE AutoFix
  <2>1. cp \in Checkpoint /\ result.packetOnly \in BOOLEAN
    BY <1>7, ResultTypes DEF AutoFix, Inductive, Positions, LocalsSet, ReviewDone
  <2> QED
    BY <1>0, <1>7, <2>1, NotLowBuilt, StillReviewed DEF AutoFix, ReviewedBefore
<1> QED
  BY <1>1, <1>2, <1>3, <1>4, <1>5, <1>6, <1>7 DEF ReviewStep

\* Every step but those that forget the previous task.
LEMMA NextReviewed ==
  ASSUME Inductive, ReviewFoundations, ReviewedBefore, [Next]_vars,
         ~RemovePreviousTask, pc \notin {"new-activate", "new-forget"}
  PROVE  ReviewedBefore'
<1>1. CASE Commands
  BY <1>1, CommandsReviewed
<1>2. CASE Step
  BY <1>2, CommandStepReviewed, ResumeStepReviewed, CallStepReviewed, ProbeStepReviewed,
     OtherStepReviewed, ReviewStepReviewed DEF Step
<1>3. CASE Crash
  BY <1>3, EndLeaves, CallForgotten, NotLowBuilt DEF Crash, files, ReviewedBefore, Replacing
<1>4. CASE WorkerEdits \/ Edit \/ UNCHANGED vars
  BY <1>4 DEF WorkerEdits, Edit, vars, files, locals, ReviewedBefore
<1> QED
  BY <1>1, <1>2, <1>3, <1>4 DEF Next

\* With no command running only a command begins, and somebody may edit.
LEMMA IdleSteps == pc = "idle" /\ [Next]_vars => Commands \/ Edit \/ UNCHANGED vars
<1> SUFFICES ASSUME pc = "idle", Next, ~Commands, ~Edit PROVE FALSE
  OBVIOUS
<1>1. ~Crash /\ ~WorkerEdits
  BY DEF Crash, WorkerEdits
<1> QED
  BY <1>1
  DEF Next, Step, CommandStep, ResumeStep, CallStep, ProbeStep, StopStep,
           FailClosedStep, ResultStep, ReviewStep, RemovePreviousTask, ActivateNewTask, ForgetPreviousTask,
           ActivateDecision, EnsureActiveTask, ResetStatus, ResetDecision, ResetRest, ResumeGate,
           VerifyReviewResume, RestoreStop, RestoreStopStatus, BeginCall, BeginRefused,
           BeginFails, CallViolatesGuard, CallSucceeds, CallBreaksContract, CallFails,
           CallStateError, CallRateLimited, CallTransient, ProbeContinues, ProbeSucceeds,
           ProbeRateLimited, ProbeFatal, RecoveryExhausted, SaveStopStatus, ReportStop,
           StopFails, FailClosedClear, FailClosedStatus, FailClosedFails, WorkerAsksSol,
           AwaitDecision, WorkerImplemented, CaptureWorkerEnd, ComputeEffectiveRisk,
           EnsureReviewTask, EnforceRiskFloor, VerifyReviewStart,
           VerifyReviewEnd, RecordReview, ReviewPasses, ReviewNeedsSol, AutoFix,
           SaveReportStart, VerifyReportEnd, CaptureFails

\* Only the command for a new task gets to its first steps.
LEMMA NewTaskSteps ==
  ASSUME [Next]_vars, pc' \in {"new-activate", "new-forget"}
  PROVE  RemovePreviousTask \/ pc \in {"new-activate", "new-forget"}
<1>1. CASE Commands
  BY <1>1 DEF Commands, StartNewTask, StartDecision, StartExplicitFix, StartResume, StartReset
<1>2. CASE Step
  BY <1>2, EndLeaves, FailedLeaves, FailClosedLeaves, ResumeCallLeaves
     DEF Step, CommandStep, ResumeStep, CallStep, ProbeStep, StopStep,
         FailClosedStep, ResultStep, ReviewStep, RemovePreviousTask, ActivateNewTask, ForgetPreviousTask,
         ActivateDecision, EnsureActiveTask, ResetStatus, ResetDecision, ResetRest, ResumeGate,
         VerifyReviewResume, RestoreStop, RestoreStopStatus, BeginCall, BeginRefused,
         BeginFails, CallViolatesGuard, CallSucceeds, CallBreaksContract, CallFails,
         CallStateError, CallRateLimited, CallTransient, ProbeContinues, ProbeSucceeds,
         ProbeRateLimited, ProbeFatal, RecoveryExhausted, SaveStopStatus, ReportStop,
         StopFails, FailClosedClear, FailClosedStatus, FailClosedFails, WorkerAsksSol,
         AwaitDecision, WorkerImplemented, CaptureWorkerEnd, ComputeEffectiveRisk,
           EnsureReviewTask, EnforceRiskFloor, VerifyReviewStart,
         VerifyReviewEnd, RecordReview, ReviewPasses, ReviewNeedsSol, AutoFix,
         SaveReportStart, VerifyReportEnd, CaptureFails,
         Goto, locals, Call, AdoptReview, Finish, AfterProbeGate
<1>3. CASE WorkerEdits \/ Crash \/ Edit \/ UNCHANGED vars
  BY <1>3, EndLeaves DEF WorkerEdits, Crash, Edit, vars
<1> QED
  BY <1>1, <1>2, <1>3 DEF Next

\* Only an explicit fix that finds a review begins a reviewed fix, and only a new
\* task ends it.
LEMMA FixedNext ==
  Inductive /\ ReviewFoundations /\ FixedIsReviewed /\ [HNext]_hvars => FixedIsReviewed'
<1> SUFFICES ASSUME Inductive, ReviewFoundations, FixedIsReviewed, [HNext]_hvars
             PROVE  FixedIsReviewed'
  OBVIOUS
<1>1. [Next]_vars
  BY DEF HNext, hvars
<1>2. CASE UNCHANGED hvars
  BY <1>2 DEF hvars, vars, files, locals, history, FixedIsReviewed, ReviewedBefore
<1>3. CASE HNext /\ RemovePreviousTask
  BY <1>3 DEF HNext, Observe, RemovePreviousTask, Goto, FixedIsReviewed
<1>4. CASE HNext /\ pc \in {"new-activate", "new-forget"}
  <2>1. fixed = "no"
    BY <1>4 DEF FixedIsReviewed
  <2>2. fixed' = "no"
    BY <1>4, <2>1 DEF HNext, Observe
  <2> QED
    BY <2>2 DEF FixedIsReviewed
<1>5. CASE HNext /\ ~RemovePreviousTask /\ pc \notin {"new-activate", "new-forget"}
  <2>1. pc' \notin {"new-activate", "new-forget"}
    BY <1>1, <1>5, NewTaskSteps
  <2>2. fixed' = "reviewed" => fixed = "reviewed" \/ (pc = "idle" /\ pc' = "ensure" /\ lastReview)
    BY <1>5 DEF HNext, Observe
  <2>3. ASSUME fixed = "reviewed" PROVE ReviewedBefore'
    BY <1>1, <1>5, <2>3, NextReviewed DEF FixedIsReviewed
  <2>4. ASSUME pc = "idle", pc' = "ensure", lastReview PROVE ReviewedBefore'
    <3>1. StartExplicitFix
      BY <1>1, <2>4, IdleSteps
         DEF Commands, StartNewTask, StartDecision, StartResume, StartReset, Edit, vars
    <3> QED
      BY <2>4, <3>1, FixBeginsReviewed
  <2> QED
    BY <2>1, <2>2, <2>3, <2>4 DEF FixedIsReviewed
<1> QED
  BY <1>2, <1>3, <1>4, <1>5

-----------------------------------------------------------------------------
(* The history observes: a behaviour of HSpec is one of the workflow *)

LEMMA HistoryObserves == HSpec => Spec
<1>1. HInit => Init
  BY DEF HInit
<1>2. [HNext]_hvars => [Next]_vars
  BY DEF HNext, hvars
<1> QED
  BY <1>1, <1>2, PTL DEF HSpec, Spec

\* A fix that Sol ordered after a review is never completed by the reviewer alone:
\* the recorded review keeps the risk high through the stops, resumes and failures
\* of the fix, for any number of them (computeEffectiveRisk, enforceRiskFloor).
THEOREM ReviewedFixWaitsForSol == HSpec => []ReviewedFixNeedsSol
<1>1. HInit => FixedIsReviewed
  BY DEF HInit, Init, FixedIsReviewed
<1>2. FixedIsReviewed => ReviewedFixNeedsSol
  BY DEF FixedIsReviewed, ReviewedBefore, ReviewedFixNeedsSol
<1> QED
  BY <1>1, <1>2, FixedNext, HistoryObserves, InductiveInvariant, FoundationsInvariant, PTL DEF HSpec

-----------------------------------------------------------------------------
(* Where no stop is left on disk *)

LEMMA NoStopLeftNext ==
  ASSUME Inductive, NoStopLeft, [Next]_vars
  PROVE  NoStopLeft'
<1> USE DEF files, locals, Goto, NoStopLeft
<1>1. CASE Commands
  BY <1>1 DEF Commands, StartNewTask, StartDecision, StartExplicitFix, StartResume, StartReset,
              Inductive, Claims, TerminalNotResumable, Terminal, AtGate, Stopped
<1>2. CASE CommandStep
  BY <1>2, EndLeaves, FailClosedLeaves
     DEF CommandStep, RemovePreviousTask, ActivateNewTask, ForgetPreviousTask,
         ActivateDecision, EnsureActiveTask, Inductive, Positions, StopOnDisk,
         ResetStatus, ResetDecision, ResetRest
<1>3. CASE ResumeStep
  <2>1. pc' \in {"fc-clear", "probe", "resume-check", "begin", "restore-status", "idle"}
    BY <1>3, FailClosedLeaves, ResumeCallLeaves, EndLeaves
       DEF ResumeStep, ResumeGate, VerifyReviewResume, RestoreStop, RestoreStopStatus, AfterProbeGate
  <2>2. pc' = "begin" => probes' = 0
    BY <1>3, FailClosedLeaves, EndLeaves
       DEF ResumeStep, ResumeGate, VerifyReviewResume, RestoreStop, RestoreStopStatus,
           AfterProbeGate, ResumeCall
  <2>3. pc' = "probe" => AtGate'
    BY <1>3, FailClosedLeaves, ResumeCallLeaves, EndLeaves
       DEF ResumeStep, ResumeGate, VerifyReviewResume, RestoreStop, RestoreStopStatus,
           AfterProbeGate, AtGate
  <2> QED
    BY <2>1, <2>2, <2>3
<1>4. CASE CallStep
  <2>1. CASE BeginCall
    <3>1. pc = "begin" /\ cp \in Checkpoint /\ ~Stopped(cp) /\ pc' = "call"
      BY <2>1 DEF BeginCall, Inductive, Positions, LocalsSet, FlagsCleared, Calling
    <3>2. ~Stopped(Saved(cp))
      BY <3>1, SavedType
    <3>3. probes = 0 => ckpt' = Saved(cp)
      BY <2>1 DEF BeginCall
    <3>4. probes # 0 => ckpt' = ckpt
      BY <2>1 DEF BeginCall
    <3> QED
      BY <3>1, <3>2, <3>3, <3>4
  <2>2. CASE ~BeginCall
    <3>1. /\ pc' \in {"idle", "restore", "begin", "probe", "stop-status", "fc-clear",
                      "review-end", "report-end", "worker-result"}
          /\ pc' = "begin" => probes' = 0
          /\ pc' = "probe" => pc = "call" /\ ckpt' = ckpt
      BY <1>4, <2>2, FailedLeaves, FailClosedLeaves
         DEF CallStep, BeginRefused, BeginFails, CallViolatesGuard, CallSucceeds,
             CallBreaksContract, CallFails, CallStateError, CallRateLimited, CallTransient, Call
    <3> QED
      BY <3>1
  <2> QED
    BY <2>1, <2>2
<1>5. CASE ProbeStep
  <2>1. /\ pc = "probe"
        /\ pc' \in {"idle", "restore", "probe", "resume-check", "begin", "stop-status"}
        /\ pc' = "begin" /\ probes' # 0 => ~AtGate /\ ckpt' = ckpt
        /\ pc' = "probe" => ckpt' = ckpt /\ cp' = cp
    BY <1>5, FailedLeaves, ResumeCallLeaves
       DEF ProbeStep, ProbeContinues, ProbeSucceeds, ProbeRateLimited, ProbeFatal,
           RecoveryExhausted, AfterProbeGate, ResumeCall
  <2> QED
    BY <2>1 DEF AtGate
<1>6. CASE StopStep \/ FailClosedStep \/ ResultStep
  <2>1. pc' \in {"idle", "restore", "stop-report", "fc-status", "await", "review-prep"}
    BY <1>6, FailedLeaves, EndLeaves
       DEF StopStep, SaveStopStatus, ReportStop, StopFails, FailClosedStep, FailClosedClear,
           FailClosedStatus, FailClosedFails, ResultStep, WorkerAsksSol, AwaitDecision,
           WorkerImplemented
  <2> QED
    BY <2>1
<1>7. CASE ReviewStep
  <2>1. /\ ckpt' = ckpt
        /\ pc' \in {"begin", "ensure"} => pc \in {"review-start", "review-floor", "review-result", "report-start"}
        /\ pc' \in {"fc-clear", "review-risk", "review-active", "review-start", "begin",
                    "review-floor", "record-review", "review-result",
                    "idle", "ensure", "worker-result"}
    BY <1>7, EndLeaves, FailClosedLeaves
       DEF ReviewStep, CaptureWorkerEnd, ComputeEffectiveRisk, EnsureReviewTask,
           VerifyReviewStart, VerifyReviewEnd, EnforceRiskFloor, RecordReview,
           ReviewPasses, ReviewNeedsSol, AutoFix, SaveReportStart, VerifyReportEnd,
           CaptureFails, AdoptReview, Call, Finish
  <2> QED
    BY <2>1 DEF Inductive, Positions, StopOnDisk, ReviewReady, ReviewDone
<1>8. CASE WorkerEdits \/ Crash \/ Edit \/ UNCHANGED vars
  BY <1>8, EndLeaves DEF WorkerEdits, Crash, Edit, vars, AtGate
<1> QED
  BY <1>1, <1>2, <1>3, <1>4, <1>5, <1>6, <1>7, <1>8 DEF Next, Step

-----------------------------------------------------------------------------
(* What is known of a stop *)

\* The stop on disk is replaced, by a new one or at the gate, with the metadata of
\* that moment, or stays.
LEMMA StopReplaced ==
  ASSUME Inductive, NoStopLeft, [Next]_vars
  PROVE  \/ ckpt' = ckpt
         \/ ~Stopped(ckpt')
         \/ ckpt'.stopParents = repo.parents /\ (NewStop \/ GateRestops)
<1> USE DEF files, locals, Goto
<1>1. CASE CallStep
  <2>1. CASE CallRateLimited
    <3>1. cp \in Checkpoint /\ ~Stopped(ckpt)
      BY <2>1 DEF CallRateLimited, NoStopLeft, Inductive, Positions, LocalsSet, Calling
    <3> QED
      BY <2>1, <3>1, StopTypes DEF CallRateLimited, RateLimitStop, NewStop, Checkpoint
  <2>2. CASE BeginCall
    <3>1. cp \in Checkpoint /\ ~Stopped(cp)
      BY <2>2 DEF BeginCall, Inductive, Positions, LocalsSet, FlagsCleared, Calling
    <3> QED
      BY <2>2, <3>1, SavedType DEF BeginCall
  <2> QED
    BY <1>1, <2>1, <2>2, NothingNotStopped
       DEF CallStep, BeginRefused, BeginFails, CallViolatesGuard, CallSucceeds,
           CallBreaksContract, CallFails, CallStateError, CallTransient
<1>2. CASE ProbeStep
  <2>1. pc = "probe" /\ cp \in Checkpoint /\ (AtGate \/ ~Stopped(ckpt))
    BY <1>2 DEF ProbeStep, ProbeContinues, ProbeSucceeds, ProbeRateLimited, ProbeFatal,
                RecoveryExhausted, NoStopLeft, Inductive, Positions, LocalsSet, Calling
  <2>2. CASE ProbeRateLimited
    BY <2>1, <2>2, StopTypes
       DEF ProbeRateLimited, RateLimitStop, NewStop, GateRestops, Checkpoint
  <2>3. CASE RecoveryExhausted
    BY <2>1, <2>3, StopTypes
       DEF RecoveryExhausted, UnavailableStop, NewStop, GateRestops, Checkpoint
  <2> QED
    BY <1>2, <2>2, <2>3, NothingNotStopped DEF ProbeStep, ProbeContinues, ProbeSucceeds, ProbeFatal
<1>3. CASE ResumeStep
  <2>1. CASE RestoreStop
    <3>1. prev \in Checkpoint /\ Stopped(prev)
      BY <2>1, NothingNotStopped
         DEF RestoreStop, Inductive, Positions, FlagsCleared, TypeOK, LocalsType
    <3>2. Restored(prev).stopParents = repo.parents
      BY <3>1 DEF Restored, Checkpoint
    <3> QED
      BY <2>1, <3>2 DEF RestoreStop, NewStop
  <2> QED
    BY <1>3, <2>1 DEF ResumeStep, ResumeGate, VerifyReviewResume, RestoreStopStatus
<1>4. CASE Commands \/ CommandStep \/ StopStep \/ FailClosedStep \/ ResultStep \/ ReviewStep
  BY <1>4, NothingNotStopped
     DEF Commands, StartNewTask, StartDecision, StartExplicitFix, StartResume, StartReset,
         CommandStep, RemovePreviousTask, ActivateNewTask, ForgetPreviousTask, ActivateDecision, EnsureActiveTask,
         ResetStatus, ResetDecision, ResetRest, StopStep, SaveStopStatus, ReportStop, StopFails,
         FailClosedStep, FailClosedClear, FailClosedStatus, FailClosedFails, ResultStep,
         WorkerAsksSol, AwaitDecision, WorkerImplemented, ReviewStep, CaptureWorkerEnd,
         ComputeEffectiveRisk, EnsureReviewTask, EnforceRiskFloor,
         VerifyReviewStart, VerifyReviewEnd, RecordReview, ReviewPasses, ReviewNeedsSol,
         AutoFix, SaveReportStart, VerifyReportEnd, CaptureFails, Finish
<1>5. CASE WorkerEdits \/ Crash \/ Edit \/ UNCHANGED vars
  BY <1>5 DEF WorkerEdits, Crash, Edit, vars
<1> QED
  BY <1>1, <1>2, <1>3, <1>4, <1>5 DEF Next, Step

\* Until its gates are passed a resume holds the stop that is on disk.
LEMMA ResumeHoldsStop ==
  ASSUME Inductive, StopsKnown, [Next]_vars
  PROVE  AtResume' => cp' = ckpt' /\ Stopped(ckpt')
<1> USE DEF files, locals, Goto, AtGate
<1> SUFFICES ASSUME AtResume' PROVE cp' = ckpt' /\ Stopped(ckpt')
  OBVIOUS
<1>0. /\ pc' \in {"resume-gate", "resume-check", "probe"}
      /\ pc' = "probe" => cp'.unavailable
  BY DEF AtResume
<1>1. CASE StartResume
  BY <1>1 DEF StartResume
<1>2. CASE ResumeGate
  <2>1. pc = "resume-gate" /\ ckpt' = ckpt /\ cp' = cp
    BY <1>0, <1>2, FailClosedLeaves, ResumeCallLeaves DEF ResumeGate, AfterProbeGate
  <2> QED
    BY <2>1 DEF StopsKnown, AtResume
<1>3. CASE ProbeContinues \/ ProbeSucceeds
  <2>1. pc = "probe" /\ ckpt' = ckpt /\ cp' = cp /\ AtGate
    BY <1>0, <1>3, ResumeCallLeaves DEF ProbeContinues, ProbeSucceeds, AfterProbeGate
  <2> QED
    BY <2>1 DEF StopsKnown, AtResume
<1>4. CASE CallTransient
  <2>1. cp \in Checkpoint /\ ~Stopped(cp) /\ cp' = cp /\ pc' = "probe"
    BY <1>4 DEF CallTransient, Inductive, Positions, LocalsSet, FlagsCleared, Calling
  <2> QED
    BY <1>0, <2>1, NothingAssumption DEF Stopped
<1>5. CASE WorkerEdits \/ Crash \/ Edit \/ UNCHANGED vars
  BY <1>0, <1>5, EndLeaves DEF WorkerEdits, Crash, Edit, vars, StopsKnown, AtResume
<1>6. CASE Commands \/ Step
  BY <1>0, <1>1, <1>2, <1>3, <1>4, <1>6, EndLeaves, FailedLeaves, FailClosedLeaves, ResumeCallLeaves
     DEF Step, CommandStep, ResumeStep, CallStep, ProbeStep, StopStep,
         FailClosedStep, ResultStep, ReviewStep, RemovePreviousTask, ActivateNewTask, ForgetPreviousTask,
         ActivateDecision, EnsureActiveTask, ResetStatus, ResetDecision, ResetRest, 
         VerifyReviewResume, RestoreStop, RestoreStopStatus, BeginCall, BeginRefused,
         BeginFails, CallViolatesGuard, CallSucceeds, CallBreaksContract, CallFails,
         CallStateError, CallRateLimited,
         ProbeRateLimited, ProbeFatal, RecoveryExhausted, SaveStopStatus, ReportStop,
         StopFails, FailClosedClear, FailClosedStatus, FailClosedFails, WorkerAsksSol,
         AwaitDecision, WorkerImplemented, CaptureWorkerEnd, ComputeEffectiveRisk,
           EnsureReviewTask, EnforceRiskFloor, VerifyReviewStart,
         VerifyReviewEnd, RecordReview, ReviewPasses, ReviewNeedsSol, AutoFix,
         SaveReportStart, VerifyReportEnd, CaptureFails,
         Commands, StartNewTask, StartDecision, StartExplicitFix, StartReset,
         Call, AdoptReview, Finish
<1> QED
  BY <1>5, <1>6 DEF Next

LEMMA StopsKnownNext ==
  Inductive /\ NoStopLeft /\ StopsKnown /\ [HNext]_hvars => StopsKnown'
<1> SUFFICES ASSUME Inductive, NoStopLeft, StopsKnown, [HNext]_hvars
             PROVE  StopsKnown'
  OBVIOUS
<1>1. [Next]_vars
  BY DEF HNext, hvars
<1>2. AtResume' => cp' = ckpt' /\ Stopped(ckpt')
  BY <1>1, ResumeHoldsStop
<1>3. ASSUME ~restopped', Stopped(ckpt')
      PROVE  ckpt'.stopParents = stoppedWith'
  <2>1. CASE UNCHANGED hvars
    BY <1>3, <2>1 DEF hvars, vars, history, StopsKnown
  <2>2. CASE HNext
    <3>1. ~GateRestops /\ (NewStop \/ ~restopped)
      BY <1>3, <2>2 DEF HNext, Observe
    <3>2. CASE NewStop
      <4>1. ckpt' # ckpt
        BY <3>2 DEF NewStop
      <4>2. ckpt'.stopParents = repo.parents
        BY <1>1, <1>3, <4>1, StopReplaced
      <4> QED
        BY <2>2, <3>2, <4>2 DEF HNext, Observe
    <3>3. CASE ~NewStop
      <4>1. ckpt' = ckpt /\ stoppedWith' = stoppedWith /\ ~restopped
        BY <1>1, <1>3, <2>2, <3>1, <3>3, StopReplaced DEF HNext, Observe
      <4> QED
        BY <1>3, <4>1 DEF StopsKnown
    <3> QED
      BY <3>2, <3>3
  <2> QED
    BY <2>1, <2>2
<1> QED
  BY <1>2, <1>3 DEF StopsKnown

\* What a resume that was not stopped again at its gate decides.
LEMMA ResumeDecides ==
  ASSUME Inductive, StopsKnown, [Next]_vars, ~restopped
  PROVE  /\ Refused => ~OnlyParentUpdateWhileStopped
         /\ Rebased => stoppedWith = reviewStart.parents
<1> USE DEF files, snaps, locals, budget
<1> SUFFICES ASSUME pc = "resume-check", Refused \/ Rebased
             PROVE  /\ Refused => ~OnlyParentUpdateWhileStopped
                    /\ Rebased => stoppedWith = reviewStart.parents
  BY DEF Refused, Rebased
<1>1. cp.stopParents = stoppedWith
  BY DEF StopsKnown, AtResume
<1>2. CASE VerifyReviewResume
  <2>1. CASE /\ reviewStart # Nothing /\ repo # reviewStart /\ AcceptableParentDelta
             /\ ResumeCall
    BY <1>1, <2>1, ResumeCallLeaves DEF AcceptableParentDelta, Refused
  <2>2. CASE /\ reviewStart = Nothing \/ (repo # reviewStart /\ ~AcceptableParentDelta)
             /\ UNCHANGED reviewStart
    BY <1>1, <2>2 DEF AcceptableParentDelta, OnlyParentUpdateWhileStopped, Rebased
  <2>3. CASE ResumeCall /\ UNCHANGED reviewStart
    BY <2>3, ResumeCallLeaves DEF Refused, Rebased
  <2> QED
    BY <1>2, <2>1, <2>2, <2>3 DEF VerifyReviewResume
<1>3. CASE CaptureFails \/ Crash
  <2>1. faults' # faults /\ reviewStart' = reviewStart
    BY <1>3 DEF CaptureFails, Crash, Fault, Inductive, TypeOK, CountersType
  <2> QED
    BY <2>1 DEF Refused, Rebased
<1>4. CASE Edit \/ UNCHANGED vars
  BY <1>4 DEF Edit, vars, Refused, Rebased
<1>5. CASE Commands \/ WorkerEdits
  BY <1>5 DEF Commands, StartNewTask, StartDecision, StartExplicitFix, StartResume, StartReset, WorkerEdits
<1>6. CASE Step /\ ~VerifyReviewResume /\ ~CaptureFails
  BY <1>6
     DEF Step, CommandStep, ResumeStep, CallStep, ProbeStep, StopStep,
         FailClosedStep, ResultStep, ReviewStep, RemovePreviousTask, ActivateNewTask, ForgetPreviousTask,
         ActivateDecision, EnsureActiveTask, ResetStatus, ResetDecision, ResetRest, ResumeGate,
         RestoreStop, RestoreStopStatus, BeginCall, BeginRefused,
         BeginFails, CallViolatesGuard, CallSucceeds, CallBreaksContract, CallFails,
         CallStateError, CallRateLimited, CallTransient, ProbeContinues, ProbeSucceeds,
         ProbeRateLimited, ProbeFatal, RecoveryExhausted, SaveStopStatus, ReportStop,
         StopFails, FailClosedClear, FailClosedStatus, FailClosedFails, WorkerAsksSol,
         AwaitDecision, WorkerImplemented, CaptureWorkerEnd, ComputeEffectiveRisk,
           EnsureReviewTask, EnforceRiskFloor, VerifyReviewStart,
         VerifyReviewEnd, RecordReview, ReviewPasses, ReviewNeedsSol, AutoFix,
         SaveReportStart, VerifyReportEnd
<1> QED
  BY <1>2, <1>3, <1>4, <1>5, <1>6 DEF Next

\* Exactly the parent's own updates of the metadata move the baseline of a review
\* that is resumed, unless the probe gate saved the stop a second time
\* (verifyReviewResumeSnapshot, acceptReviewResumeParentDelta).
THEOREM ParentUpdatesDecided == HSpec => FirstResumeDecidesExactly
<1>1. HInit => NoStopLeft /\ StopsKnown
  BY DEF HInit, Init, NoStopLeft, StopsKnown, AtResume, Stopped
<1>2. Inductive /\ NoStopLeft /\ [HNext]_hvars => NoStopLeft'
  BY NoStopLeftNext DEF HNext, hvars
<1>3. Inductive /\ StopsKnown /\ [HNext]_hvars =>
        [~restopped => /\ Refused => ~OnlyParentUpdateWhileStopped
                       /\ Rebased => stoppedWith = reviewStart.parents]_hvars
  BY ResumeDecides DEF HNext, hvars
<1> QED
  BY <1>1, <1>2, <1>3, StopsKnownNext, HistoryObserves, InductiveInvariant, PTL
     DEF HSpec, FirstResumeDecidesExactly

-----------------------------------------------------------------------------
(* The baseline of a report-only call *)

\* A step that neither saves a baseline nor begins a fix leaves the two alone, and
\* all checkpoints it leaves are based on them.
LEMMA StillBased ==
  ASSUME reportStart' = reportStart, reportBase' = reportBase,
         Stopped(ckpt') => BasedOnReport(ckpt'), BasedOnReport(prev'), BasedOnReport(cp'),
         pc' \notin {"ensure", "report-start", "report-end"}
  PROVE  ReportBased'
BY DEF ReportBased, BasedOnReport

LEMMA BaseStays ==
  ASSUME Observe, ~(pc = "review-result" /\ pc' = "ensure"),
         ~(pc = "report-start" /\ pc' = "begin")
  PROVE  reportBase' = reportBase
BY DEF Observe

\* The checkpoints made of a based one are based.
LEMMA BasedKept ==
  /\ BasedOnReport(Nothing)
  /\ \A c \in Checkpoint : BasedOnReport(c) =>
        /\ BasedOnReport(Cleared(c)) /\ BasedOnReport(Saved(c)) /\ BasedOnReport(Corrected(c))
        /\ BasedOnReport(Restored(c)) /\ BasedOnReport(RateLimitStop(c))
        /\ BasedOnReport(UnavailableStop(c))
BY SameReport, NothingAssumption DEF BasedOnReport

LEMMA CommandsBased ==
  ASSUME ReviewFoundations, ReportBased, Observe, Commands
  PROVE  ReportBased'
<1>1. pc = "idle" /\ prev = Nothing /\ reportBase' = reportBase
  BY BaseStays DEF Commands, StartNewTask, StartDecision, StartExplicitFix, StartResume,
                   StartReset, ReviewFoundations, PrevKept
<1>2. CASE StartNewTask
  BY <1>1, <1>2 DEF StartNewTask, snaps, locals, ReportBased, BasedOnReport
<1>3. CASE StartDecision \/ StartReset
  BY <1>1, <1>3 DEF StartDecision, StartReset, snaps, locals, ReportBased, BasedOnReport
<1>4. CASE StartExplicitFix
  BY <1>1, <1>4, NotReportOnly DEF StartExplicitFix, snaps, ReportBased, BasedOnReport
<1>5. CASE StartResume
  BY <1>1, <1>5, StillBased DEF StartResume, snaps, ReportBased
<1> QED
  BY <1>2, <1>3, <1>4, <1>5 DEF Commands

LEMMA CommandStepBased ==
  ASSUME Inductive, ReviewFoundations, ReportBased, Observe, CommandStep
  PROVE  ReportBased'
<1>1. pc \notin {"review-result", "report-start"} /\ reportBase' = reportBase
  BY BaseStays DEF CommandStep, RemovePreviousTask, ActivateNewTask, ForgetPreviousTask, ActivateDecision,
                   EnsureActiveTask, ResetStatus, ResetDecision, ResetRest
<1>2. CASE ActivateNewTask \/ ResetStatus \/ ResetDecision
  BY <1>1, <1>2 DEF ActivateNewTask, ResetStatus, ResetDecision, Goto, snaps, locals, ReportBased, BasedOnReport
<1>3. CASE ForgetPreviousTask \/ ActivateDecision
  BY <1>1, <1>3, NotReportOnly
     DEF ForgetPreviousTask, ActivateDecision, snaps, ReportBased, BasedOnReport
<1>4. CASE EnsureActiveTask
  <2>1. CASE FailClosed
    BY <1>1, <1>4, <2>1, FailClosedLeaves, CallForgotten, BasedKept, StillBased
       DEF EnsureActiveTask, snaps, ReportBased
  <2>2. CASE Goto(IF cp.reportOnly THEN "report-start" ELSE "begin")
    BY <1>1, <1>4, <2>2 DEF EnsureActiveTask, Goto, snaps, locals, ReportBased, BasedOnReport
  <2> QED
    BY <1>4, <2>1, <2>2 DEF EnsureActiveTask
<1>5. CASE ResetRest
  BY <1>1, <1>5, EndLeaves, CallForgotten, NothingNotStopped DEF ResetRest, ReportBased, BasedOnReport
<1>6. CASE RemovePreviousTask
  <2>1. prev = Nothing /\ ~Stopped(ckpt)
    BY <1>6 DEF RemovePreviousTask, ReviewFoundations, PrevKept, Inductive, Positions,
                StopOnDisk
  <2> QED
    BY <1>1, <1>6, <2>1 DEF RemovePreviousTask, Goto, locals, ReportBased, BasedOnReport
<1> QED
  BY <1>2, <1>3, <1>4, <1>5, <1>6 DEF CommandStep

LEMMA ResumeStepBased ==
  ASSUME Inductive, ReportBased, Observe, ResumeStep
  PROVE  ReportBased'
<1> USE DEF snaps, locals, Goto, AfterProbeGate
<1>1. /\ pc \in {"resume-gate", "resume-check", "restore", "restore-status"}
      /\ pc' \in {"fc-clear", "probe", "resume-check", "begin", "restore-status", "idle"}
      /\ prev' \in {prev, Nothing} /\ reportStart' = reportStart
  BY FailClosedLeaves, ResumeCallLeaves, EndLeaves
     DEF ResumeStep, ResumeGate, VerifyReviewResume, RestoreStop, RestoreStopStatus
<1>2. CASE ResumeGate \/ VerifyReviewResume
  <2>1. cp' \in {cp, Nothing, Cleared(cp)} /\ ckpt' = ckpt /\ pc \in {"resume-gate", "resume-check"}
    BY <1>2, CallForgotten, ResumeCallLeaves DEF ResumeGate, VerifyReviewResume
  <2>2. cp \in Checkpoint
    BY <2>1 DEF Inductive, Positions, LocalsSet, Calling
  <2> QED
    BY <1>1, <2>1, <2>2, BaseStays, BasedKept, StillBased DEF ReportBased
<1>3. CASE RestoreStop
  <2>1. prev \in Checkpoint
    BY <1>3, NothingNotStopped
       DEF RestoreStop, Inductive, Positions, FlagsCleared, TypeOK, LocalsType
  <2>2. Stopped(ckpt') => BasedOnReport(ckpt')
    BY <1>3, <2>1, BasedKept DEF RestoreStop, ReportBased
  <2>3. reportBase' = reportBase /\ pc' = "restore-status"
    BY <1>1, <1>3, BaseStays DEF RestoreStop
  <2> QED
    BY <1>1, <2>2, <2>3, BasedKept DEF ReportBased, BasedOnReport
<1>4. CASE RestoreStopStatus
  BY <1>1, <1>4, EndLeaves, CallForgotten, BaseStays, BasedKept, StillBased
     DEF RestoreStopStatus, ReportBased
<1> QED
  BY <1>2, <1>3, <1>4 DEF ResumeStep

LEMMA CallStepBased ==
  ASSUME Inductive, ReportBased, Observe, CallStep
  PROVE  ReportBased'
<1> USE DEF snaps, locals, Goto, Call
<1>0. cp \in Checkpoint /\ pc \in {"begin", "call"} /\ BasedOnReport(cp)
  <2>1. pc \in {"begin", "call"}
    BY DEF CallStep, BeginCall, BeginRefused, BeginFails, CallViolatesGuard, CallSucceeds,
           CallBreaksContract, CallFails, CallStateError, CallRateLimited, CallTransient
  <2> QED
    BY <2>1 DEF Inductive, Positions, LocalsSet, Calling, ReportBased
<1>1. /\ prev' \in {prev, Nothing} /\ reportStart' = reportStart
      /\ pc' \in {"idle", "restore", "begin", "call", "probe", "stop-status", "fc-clear",
                  "review-end", "report-end", "worker-result"}
      /\ pc' = "report-end" => cp' = cp /\ cp.reportOnly
  BY FailedLeaves, FailClosedLeaves
     DEF CallStep, BeginCall, BeginRefused, BeginFails, CallViolatesGuard, CallSucceeds,
         CallBreaksContract, CallFails, CallStateError, CallRateLimited, CallTransient
<1>2. cp' \in {cp, Nothing, Saved(cp), Corrected(cp)}
  BY CallForgotten
     DEF CallStep, BeginCall, BeginRefused, BeginFails, CallViolatesGuard, CallSucceeds,
         CallBreaksContract, CallFails, CallStateError, CallRateLimited, CallTransient
<1>3. ckpt' \in {ckpt, Nothing, Saved(cp), RateLimitStop(cp)}
  BY DEF CallStep, BeginCall, BeginRefused, BeginFails, CallViolatesGuard, CallSucceeds,
         CallBreaksContract, CallFails, CallStateError, CallRateLimited, CallTransient
<1>4. BasedOnReport(cp') /\ (Stopped(ckpt') => BasedOnReport(ckpt')) /\ BasedOnReport(prev')
  BY <1>0, <1>1, <1>2, <1>3, BasedKept DEF ReportBased
<1>5. reportBase' = reportBase
  BY <1>0, BaseStays
<1> QED
  BY <1>1, <1>4, <1>5 DEF ReportBased, BasedOnReport

LEMMA ProbeStepBased ==
  ASSUME Inductive, ReportBased, Observe, ProbeStep
  PROVE  ReportBased'
<1> USE DEF snaps, locals, Goto, AfterProbeGate
<1>0. pc = "probe" /\ cp \in Checkpoint /\ BasedOnReport(cp)
  BY DEF ProbeStep, ProbeContinues, ProbeSucceeds, ProbeRateLimited, ProbeFatal,
         RecoveryExhausted, Inductive, Positions, LocalsSet, Calling, ReportBased
<1>1. /\ prev' \in {prev, Nothing} /\ reportStart' = reportStart
      /\ pc' \in {"idle", "restore", "probe", "resume-check", "begin", "stop-status"}
  BY <1>0, FailedLeaves, ResumeCallLeaves
     DEF ProbeStep, ProbeContinues, ProbeSucceeds, ProbeRateLimited, ProbeFatal, RecoveryExhausted
<1>2. cp' \in {cp, Nothing, Cleared(cp)}
  BY CallForgotten, ResumeCallLeaves
     DEF ProbeStep, ProbeContinues, ProbeSucceeds, ProbeRateLimited, ProbeFatal, RecoveryExhausted
<1>3. ckpt' \in {ckpt, Nothing, RateLimitStop(cp), UnavailableStop(cp)}
  BY DEF ProbeStep, ProbeContinues, ProbeSucceeds, ProbeRateLimited, ProbeFatal, RecoveryExhausted
<1>4. BasedOnReport(cp') /\ (Stopped(ckpt') => BasedOnReport(ckpt')) /\ BasedOnReport(prev')
  BY <1>0, <1>1, <1>2, <1>3, BasedKept DEF ReportBased
<1> QED
  BY <1>0, <1>1, <1>4, BaseStays, StillBased

LEMMA OtherStepBased ==
  ASSUME ReportBased, Observe, StopStep \/ FailClosedStep \/ ResultStep
  PROVE  ReportBased'
<1> USE DEF snaps, locals, Goto
<1>1. /\ prev' \in {prev, Nothing} /\ reportStart' = reportStart
      /\ cp' \in {cp, Nothing} /\ ckpt' \in {ckpt, Nothing}
  BY FailedLeaves, EndLeaves, CallForgotten
     DEF StopStep, SaveStopStatus, ReportStop, StopFails, FailClosedStep,
         FailClosedClear, FailClosedStatus, FailClosedFails, ResultStep, WorkerAsksSol,
         AwaitDecision, WorkerImplemented, Finish
<1>2. /\ pc \notin {"review-result", "report-start"}
      /\ pc' \in {"idle", "restore", "stop-report", "fc-status", "await", "review-prep"}
      /\ pc' = "stop-report" => pc = "stop-status"
  BY FailedLeaves, EndLeaves
     DEF StopStep, SaveStopStatus, ReportStop, StopFails, FailClosedStep,
         FailClosedClear, FailClosedStatus, FailClosedFails, ResultStep, WorkerAsksSol,
         AwaitDecision, WorkerImplemented
<1>3. reportBase' = reportBase
  BY <1>2, BaseStays
<1> QED
  BY <1>1, <1>2, <1>3, BasedKept, NothingNotStopped DEF ReportBased, BasedOnReport

LEMMA ReviewStepBased ==
  ASSUME Inductive, ReviewFoundations, NoStopLeft, ReportBased, Observe, ReviewStep
  PROVE  ReportBased'
<1> USE DEF snaps, locals, Goto
<1>1. CASE FailClosed
  <2>1. reportStart' = reportStart /\ ckpt' = ckpt
    BY <1>1, FailClosedLeaves
       DEF ReviewStep, CaptureWorkerEnd, ComputeEffectiveRisk, EnsureReviewTask,
           VerifyReviewStart, VerifyReviewEnd, EnforceRiskFloor, RecordReview,
           ReviewPasses, ReviewNeedsSol, AutoFix, SaveReportStart, VerifyReportEnd, CaptureFails, Finish
  <2> QED
    BY <1>1, <2>1, FailClosedLeaves, CallForgotten, BaseStays, BasedKept, StillBased DEF ReportBased
<1>2. CASE ComputeEffectiveRisk
  <2>1. cp.autoFixes \in 0 .. MaxAutoFixRounds /\ result.risk \in Risks
    BY <1>2, FieldTypes, ResultTypes
       DEF ComputeEffectiveRisk, Inductive, Positions, LocalsSet, WorkerDone
  <2>2. PICK r \in Risks : cp' = ReviewCheckpoint(cp.autoFixes, result.risk, r)
    BY <1>2 DEF ComputeEffectiveRisk, Risks
  <2>3. BasedOnReport(cp')
    BY <2>1, <2>2, NotReportOnly DEF BasedOnReport
  <2> QED
    BY <1>2, <2>3, BaseStays, StillBased DEF ComputeEffectiveRisk, ReportBased
<1>3. CASE (EnsureReviewTask \/ VerifyReviewStart) /\ ~FailClosed
  BY <1>3, BaseStays, StillBased DEF EnsureReviewTask, VerifyReviewStart, ReportBased
<1>4. CASE EnforceRiskFloor
  <2>1. cp \in Checkpoint
    BY <1>4 DEF EnforceRiskFloor, Inductive, Positions, LocalsSet, ReviewDone
  <2>2. /\ pc' \in {"begin", "record-review"} /\ prev' = Nothing
        /\ pc' = "begin" => cp' = ReemitCheckpoint(cp)
    BY <1>4 DEF EnforceRiskFloor, AdoptReview, Call
  <2>3. pc' = "begin" => BasedOnReport(cp')
    BY <2>1, <2>2, NotReportOnly DEF BasedOnReport
  <2>4. reportBase' = reportBase /\ reportStart' = reportStart /\ ckpt' = ckpt
    BY <1>4, BaseStays DEF EnforceRiskFloor
  <2> QED
    BY <2>2, <2>3, <2>4 DEF ReportBased, BasedOnReport
<1>5. CASE \/ CaptureWorkerEnd \/ RecordReview \/ ReviewPasses \/ ReviewNeedsSol
           \/ (VerifyReviewEnd \/ VerifyReportEnd) /\ ~FailClosed
  <2>1. /\ pc' \in {"review-risk", "review-floor", "review-result", "idle", "worker-result"}
        /\ prev' \in {prev, Nothing} /\ reportStart' = reportStart /\ ckpt' = ckpt
    BY <1>5, EndLeaves
       DEF CaptureWorkerEnd, RecordReview, ReviewPasses, ReviewNeedsSol, VerifyReviewEnd,
           VerifyReportEnd, Finish
  <2>2. reportBase' = reportBase
    BY <2>1, BaseStays
  <2> QED
    BY <2>1, <2>2, BasedKept DEF ReportBased, BasedOnReport
<1>6. CASE AutoFix
  <2>1. prev' = Nothing /\ ~Stopped(ckpt') /\ pc' = "ensure"
    BY <1>6 DEF AutoFix, ReviewFoundations, PrevKept, Inductive, Positions, StopOnDisk, ReviewDone
  <2>2. reportBase' = Nothing
    BY <1>6 DEF AutoFix, Observe
  <2> QED
    BY <2>1, <2>2 DEF ReportBased, BasedOnReport
<1>7. CASE SaveReportStart
  <2>1. /\ prev' = Nothing /\ ~Stopped(ckpt') /\ pc' = "begin" /\ reportStart' = repo
        /\ pc = "report-start" /\ reportBase = Nothing
    BY <1>7 DEF SaveReportStart, ReviewFoundations, PrevKept, NoStopLeft, ReportBased
  <2>2. reportBase' = repo
    BY <2>1 DEF Observe
  <2> QED
    BY <2>1, <2>2 DEF ReportBased, BasedOnReport
<1>8. ReviewStep => \/ FailClosed \/ CaptureWorkerEnd \/ ComputeEffectiveRisk
                    \/ EnsureReviewTask \/ VerifyReviewStart \/ VerifyReviewEnd
                    \/ EnforceRiskFloor
                    \/ RecordReview \/ ReviewPasses \/ ReviewNeedsSol \/ AutoFix
                    \/ SaveReportStart \/ VerifyReportEnd
  BY DEF ReviewStep, CaptureFails
<1> QED
  BY <1>1, <1>2, <1>3, <1>4, <1>5, <1>6, <1>7, <1>8

LEMMA ReportBasedNext ==
  Inductive /\ ReviewFoundations /\ NoStopLeft /\ ReportBased /\ [HNext]_hvars => ReportBased'
<1> SUFFICES ASSUME Inductive, ReviewFoundations, NoStopLeft, ReportBased, [HNext]_hvars
             PROVE  ReportBased'
  OBVIOUS
<1>1. CASE UNCHANGED hvars
  BY <1>1 DEF hvars, vars, snaps, locals, history, ReportBased, BasedOnReport
<1>2. CASE Observe /\ Commands
  BY <1>2, CommandsBased
<1>3. CASE Observe /\ Step
  BY <1>3, CommandStepBased, ResumeStepBased, CallStepBased, ProbeStepBased,
     OtherStepBased, ReviewStepBased DEF Step
<1>4. CASE Observe /\ Crash
  BY <1>4, EndLeaves, CallForgotten, BaseStays, BasedKept, StillBased DEF Crash, snaps, ReportBased
<1>5. CASE Observe /\ (WorkerEdits \/ Edit)
  BY <1>5, BaseStays DEF WorkerEdits, Edit, snaps, locals, ReportBased, BasedOnReport
<1> QED
  BY <1>1, <1>2, <1>3, <1>4, <1>5 DEF HNext, Next

\* One step takes a report-only result.
LEMMA ReportTaken ==
  ASSUME Inductive, ReportBased, [Next]_vars, pc = "report-end", pc' = "worker-result"
  PROVE  repo = reportBase
<1>1. reportStart = reportBase
  <2>1. cp # Nothing
    BY NothingAssumption DEF Inductive, Positions, LocalsSet, WorkerDone
  <2> QED
    BY <2>1 DEF ReportBased, BasedOnReport
<1>2. CASE VerifyReportEnd
  BY <1>1, <1>2, FailClosedLeaves DEF VerifyReportEnd
<1>3. CASE CaptureFails \/ Crash
  BY <1>3, FailClosedLeaves, EndLeaves DEF CaptureFails, Crash
<1>4. CASE WorkerEdits \/ Edit \/ UNCHANGED vars
  BY <1>4 DEF WorkerEdits, Edit, vars
<1>5. CASE Commands \/ (Step /\ ~VerifyReportEnd /\ ~CaptureFails)
  BY <1>5
     DEF Step, CommandStep, ResumeStep, CallStep, ProbeStep, StopStep,
         FailClosedStep, ResultStep, ReviewStep, RemovePreviousTask, ActivateNewTask, ForgetPreviousTask,
         ActivateDecision, EnsureActiveTask, ResetStatus, ResetDecision, ResetRest, ResumeGate,
         VerifyReviewResume, RestoreStop, RestoreStopStatus, BeginCall, BeginRefused,
         BeginFails, CallViolatesGuard, CallSucceeds, CallBreaksContract, CallFails,
         CallStateError, CallRateLimited, CallTransient, ProbeContinues, ProbeSucceeds,
         ProbeRateLimited, ProbeFatal, RecoveryExhausted, SaveStopStatus, ReportStop,
         StopFails, FailClosedClear, FailClosedStatus, FailClosedFails, WorkerAsksSol,
         AwaitDecision, WorkerImplemented, CaptureWorkerEnd, ComputeEffectiveRisk,
           EnsureReviewTask, EnforceRiskFloor, VerifyReviewStart,
         VerifyReviewEnd, RecordReview, ReviewPasses, ReviewNeedsSol, AutoFix,
         SaveReportStart, Commands,
         StartNewTask, StartDecision, StartExplicitFix, StartResume, StartReset
<1> QED
  BY <1>2, <1>3, <1>4, <1>5 DEF Next

\* A report-only result is taken only for the repository its fix began with, across
\* the stops and resumes of that call (verifyReportOnlyEndSnapshot,
\* gateReportOnlyResumeSnapshot).
THEOREM ReportLeavesRepository == HSpec => ReportOnlyLeavesRepository
<1>1. HInit => NoStopLeft /\ ReportBased
  BY DEF HInit, Init, NoStopLeft, ReportBased, BasedOnReport, Stopped
<1>2. Inductive /\ NoStopLeft /\ [HNext]_hvars => NoStopLeft'
  BY NoStopLeftNext DEF HNext, hvars
<1>3. Inductive /\ ReportBased /\ [HNext]_hvars =>
        [pc = "report-end" /\ pc' = "worker-result" => repo = reportBase]_hvars
  BY ReportTaken DEF HNext, hvars
<1> QED
  BY <1>1, <1>2, <1>3, ReportBasedNext, HistoryObserves, InductiveInvariant,
     FoundationsInvariant, PTL DEF HSpec, ReportOnlyLeavesRepository
=============================================================================
