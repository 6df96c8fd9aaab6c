--------------------------- MODULE WorkflowProofs ---------------------------
(***************************************************************************)
(* The inductive invariant of Workflow, and what follows from it: types,   *)
(* that no finished or asking task can be resumed, that a pending decision *)
(* has its question, and that every counted call is in the call log.       *)
(*                                                                         *)
(* Every leaf keeps the data it does not need hidden: a checkpoint is used *)
(* through the lemmas on its constructors, and the ways a command leaves a *)
(* step (End, Failed, FailClosed, ResumeCall) through what they establish. *)
(***************************************************************************)
EXTENDS Workflow, TLAPS

-----------------------------------------------------------------------------
(* The data *)

\* The parent metadata of a working tree.
LEMMA ParentStatesOfRepo == \A r \in Repo : r.parents \in ParentStates
BY DEF Repo

\* Every checkpoint a command builds is one, and none of them is a stop...
LEMMA WorkerCheckpointType ==
  WorkerCheckpoint \in Checkpoint /\ ~Stopped(WorkerCheckpoint)
BY BoundsAssumption DEF WorkerCheckpoint, Checkpoint, Risks, Stopped

LEMMA ReviewCheckpointType ==
  \A a \in 0 .. MaxAutoFixRounds, w \in Risks, r \in Risks \cup {"unset"} :
     ReviewCheckpoint(a, w, r) \in Checkpoint /\ ~Stopped(ReviewCheckpoint(a, w, r))
<1> TAKE a \in 0 .. MaxAutoFixRounds, w \in Risks, r \in Risks \cup {"unset"}
<1>1. WorkerCheckpoint.rateLimited = FALSE /\ WorkerCheckpoint.unavailable = FALSE
  BY DEF WorkerCheckpoint
<1>2. ReviewCheckpoint(a, w, r) \in Checkpoint
  BY WorkerCheckpointType DEF ReviewCheckpoint, Checkpoint
<1>3. ReviewCheckpoint(a, w, r).rateLimited = FALSE /\ ReviewCheckpoint(a, w, r).unavailable = FALSE
  BY <1>1, WorkerCheckpointType DEF ReviewCheckpoint, Checkpoint
<1> QED
  BY <1>2, <1>3 DEF Stopped

LEMMA ReemitCheckpointType ==
  \A c \in Checkpoint : ReemitCheckpoint(c) \in Checkpoint /\ ~Stopped(ReemitCheckpoint(c))
<1> TAKE c \in Checkpoint
<1>1. ReviewCheckpoint(c.autoFixes, c.workerRisk, "unset") \in Checkpoint
      /\ ~Stopped(ReviewCheckpoint(c.autoFixes, c.workerRisk, "unset"))
  BY ReviewCheckpointType DEF Checkpoint
<1> QED
  BY <1>1, NothingAssumption DEF ReemitCheckpoint, Checkpoint, Stopped

LEMMA AutoFixCheckpointType ==
  ASSUME NEW c \in Checkpoint, NEW p \in BOOLEAN, c.autoFixes < MaxAutoFixRounds
  PROVE  AutoFixCheckpoint(c, p) \in Checkpoint /\ ~Stopped(AutoFixCheckpoint(c, p))
<1>1. c.autoFixes + 1 \in 0 .. MaxAutoFixRounds
  BY BoundsAssumption DEF Checkpoint
<1> QED
  BY <1>1, WorkerCheckpointType, NothingAssumption DEF AutoFixCheckpoint, Checkpoint, Stopped

\* ... except the two stops and the stop a failed resume puts back.
LEMMA StopTypes ==
  ASSUME repo \in Repo, NEW c \in Checkpoint
  PROVE  /\ RateLimitStop(c) \in Checkpoint /\ Stopped(RateLimitStop(c))
         /\ UnavailableStop(c) \in Checkpoint /\ Stopped(UnavailableStop(c))
<1>1. RateLimitStop(c) \in Checkpoint /\ RateLimitStop(c).rateLimited
  BY ParentStatesOfRepo DEF RateLimitStop, Checkpoint
<1>2. UnavailableStop(c) \in Checkpoint /\ UnavailableStop(c).unavailable
  BY ParentStatesOfRepo DEF UnavailableStop, Checkpoint
<1> QED
  BY <1>1, <1>2, NothingAssumption DEF Stopped

LEMMA ClearedType == \A c \in Checkpoint : Cleared(c) \in Checkpoint /\ ~Stopped(Cleared(c))
BY DEF Cleared, Checkpoint, Stopped

LEMMA SavedType ==
  \A c \in Checkpoint : Saved(c) \in Checkpoint /\ (~Stopped(c) => ~Stopped(Saved(c)))
BY NothingAssumption DEF Saved, Checkpoint, Stopped

LEMMA CorrectedType ==
  \A c \in Checkpoint : Corrected(c) \in Checkpoint /\ (~Stopped(c) => ~Stopped(Corrected(c)))
BY NothingAssumption DEF Corrected, Checkpoint, Stopped

LEMMA RestoredType ==
  ASSUME repo \in Repo, NEW c \in Checkpoint, Stopped(c)
  PROVE  Restored(c) \in Checkpoint /\ Stopped(Restored(c))
<1>1. Restored(c) \in Checkpoint
  BY ParentStatesOfRepo DEF Restored, Checkpoint
<1>2. Restored(c).rateLimited = c.rateLimited /\ Restored(c).unavailable = c.unavailable
  BY DEF Restored, Checkpoint
<1> QED
  BY <1>1, <1>2, NothingAssumption DEF Stopped

\* The fields and results the review reads.
LEMMA FieldTypes ==
  \A c \in Checkpoint : /\ c.autoFixes \in 0 .. MaxAutoFixRounds
                        /\ c.workerRisk \in Risks
BY DEF Checkpoint

LEMMA ResultTypes ==
  /\ \A r \in WorkerResults : r.risk \in Risks
  /\ \A r \in ReviewerResults : r.packetOnly \in BOOLEAN
  /\ ForcedReview \in ReviewerResults
BY DEF WorkerResults, ReviewerResults, ForcedReview, Risks

\* The ACTIVE task of the plan.
LEMMA ResolvedTaskType == ResolvedTask \in {"none", "set", "unresolvable"}
BY DEF ResolvedTask

LEMMA NothingNotStopped == ~Stopped(Nothing)
BY DEF Stopped

-----------------------------------------------------------------------------
(* Leaving a step *)

\* A command that ends is idle and has forgotten its local variables.
LEMMA EndSets == End => pc' = "idle" /\ resuming' = FALSE /\ LocalsType'
<1>1. 0 \in 0 .. MaxProbes
  BY BoundsAssumption
<1> QED
  BY <1>1 DEF End, Leave, LocalsType, Labels

\* A failed call ends the command, or restores the stop that was resumed.
LEMMA FailedSets ==
  LocalsType /\ FlagsCleared /\ Failed =>
     /\ pc' \in {"idle", "restore"} /\ resuming' = FALSE /\ LocalsType'
     /\ pc' = "restore" => Stopped(prev')
<1> SUFFICES ASSUME LocalsType, FlagsCleared, Failed
             PROVE  /\ pc' \in {"idle", "restore"} /\ resuming' = FALSE
                    /\ LocalsType'
                    /\ pc' = "restore" => Stopped(prev')
  OBVIOUS
<1>1. 0 \in 0 .. MaxProbes
  BY BoundsAssumption
<1>2. CASE resuming
  <2>1. Leave("restore", prev, FALSE)
    BY <1>2 DEF Failed
  <2> QED
    BY <2>1, <1>1, <1>2 DEF Leave, LocalsType, Labels, FlagsCleared
<1>3. CASE ~resuming
  BY <1>3, EndSets DEF Failed
<1> QED
  BY <1>2, <1>3

\* Failing closed keeps the resumed stop only while the call can still fail.
LEMMA FailClosedSets ==
  LocalsType /\ FlagsCleared /\ FailClosed =>
     pc' = "fc-clear" /\ LocalsType' /\ (resuming' => Stopped(prev'))
BY BoundsAssumption DEF FailClosed, Leave, LocalsType, Labels, FlagsCleared

\* The resumed call starts with the flags of its stop cleared.
LEMMA ResumeCallSets ==
  LocalsType /\ cp \in Checkpoint /\ Stopped(prev) /\ ResumeCall =>
     /\ pc' = "begin" /\ cp' \in Checkpoint /\ ~Stopped(cp')
     /\ Stopped(prev') /\ LocalsType'
BY ClearedType, BoundsAssumption DEF ResumeCall, LocalsType, Labels

\* The files a command removes or touches keep their types.
LEMMA RemovedFilesTyped ==
  ASSUME FilesType,
         \/ StartNewTask \/ RemovePreviousTask \/ ForgetPreviousTask
         \/ WorkerImplemented
         \/ StartReset \/ ResetStatus \/ ResetDecision \/ ResetRest
  PROVE  FilesType'
<1>1. CASE StartNewTask
  BY <1>1, Zenon DEF StartNewTask, FilesType, Statuses
<1>2. CASE ForgetPreviousTask
  BY <1>2, Zenon DEF ForgetPreviousTask, FilesType, Statuses
<1>3. CASE WorkerImplemented
  BY <1>3, Zenon DEF WorkerImplemented, FilesType, Statuses
<1>4. CASE StartReset
  BY <1>4, Zenon DEF StartReset, FilesType, Statuses
<1>5. CASE ResetDecision
  BY <1>5, Zenon DEF ResetDecision, FilesType, Statuses
<1>6. CASE ResetRest
  BY <1>6, Zenon DEF ResetRest, FilesType, Statuses
<1>7. CASE RemovePreviousTask
  BY <1>7, Zenon DEF RemovePreviousTask, FilesType, Statuses
<1>8. CASE ResetStatus
  BY <1>8, Zenon DEF ResetStatus, FilesType, Statuses
<1> QED
  BY <1>1, <1>2, <1>3, <1>4, <1>5, <1>6, <1>7, <1>8

-----------------------------------------------------------------------------
(* Every step keeps the invariant *)

LEMMA InductiveInit == Init => Inductive
<1> SUFFICES ASSUME Init PROVE Inductive
  OBVIOUS
<1>1. FilesType /\ RepositoryType
  BY DEF Init, FilesType, RepositoryType, Statuses
<1>2. LocalsType /\ CountersType
  <2>1. 0 \in 0 .. MaxProbes /\ 0 \in 0 .. MaxEdits /\ 0 \in 0 .. MaxFaults
    BY BoundsAssumption
  <2>2. CountersType
    BY <2>1 DEF Init, CountersType
  <2>3. pc \in Labels /\ probes \in 0 .. MaxProbes
    BY <2>1 DEF Init, Labels
  <2>4. resuming \in BOOLEAN
    BY DEF Init
  <2> QED
    BY <2>2, <2>3, <2>4 DEF Init, LocalsType
<1>3. LocalsSet /\ FlagsCleared /\ StopOnDisk
  BY DEF Init, LocalsSet, FlagsCleared, StopOnDisk, Calling, WorkerDone,
         ReviewReady, ReviewDone
<1>4. RunningNotTerminal /\ CallDebt /\ Claims
  BY DEF Init, RunningNotTerminal, CallDebt, Claims, TerminalNotResumable,
         WaitingDecisionHasQuestion, Terminal
<1> QED
  BY <1>1, <1>2, <1>3, <1>4 DEF Inductive, TypeOK, Positions

\* The commands: what they find, and what they leave at once.
LEMMA CommandsInductive ==
  ASSUME Inductive, Commands
  PROVE  Inductive'
<1> USE DEF Inductive, TypeOK, FilesType, RepositoryType, LocalsType, CountersType,
             Statuses, Labels, Positions, LocalsSet, FlagsCleared, StopOnDisk,
             RunningNotTerminal, CallDebt, Calling, WorkerDone, ReviewReady,
             ReviewDone, Claims, TerminalNotResumable,
             WaitingDecisionHasQuestion, Terminal
<1>1. CASE StartNewTask
  <2>1. TypeOK'
    <3>1. FilesType'
      BY <1>1, RemovedFilesTyped, Zenon
    <3>2. (RepositoryType /\ LocalsType /\ CountersType)'
      BY <1>1, BoundsAssumption
         DEF StartNewTask, snaps, locals, budget
    <3> QED
      BY <3>1, <3>2
  <2>2. Positions'
    BY <1>1 DEF StartNewTask, snaps, locals, budget
  <2>3. Claims'
    BY <1>1 DEF StartNewTask, snaps, locals, budget
  <2> QED
    BY <2>1, <2>2, <2>3
<1>2. CASE StartDecision
  <2>1. TypeOK'
    BY <1>2, BoundsAssumption DEF StartDecision, snaps, locals, budget
  <2>2. Positions'
    BY <1>2 DEF StartDecision, snaps, locals, budget
  <2>3. Claims'
    BY <1>2 DEF StartDecision, snaps, locals, budget
  <2> QED
    BY <2>1, <2>2, <2>3
<1>3. CASE StartExplicitFix
  <2>1. TypeOK'
    BY <1>3, WorkerCheckpointType, BoundsAssumption
       DEF StartExplicitFix, snaps, budget
  <2>2. Positions'
    BY <1>3, WorkerCheckpointType DEF StartExplicitFix, snaps, budget
  <2>3. Claims'
    BY <1>3, WorkerCheckpointType DEF StartExplicitFix, snaps, budget
  <2> QED
    BY <2>1, <2>2, <2>3
<1>4. CASE StartResume
  <2>1. TypeOK'
    BY <1>4, BoundsAssumption DEF StartResume, snaps, budget
  <2>2. Positions'
    <3>1. prev' = ckpt /\ cp' = ckpt /\ ckpt # Nothing
      BY <1>4 DEF StartResume, Stopped
    <3>2. Stopped(prev') /\ cp' \in Checkpoint
      BY <1>4, <3>1 DEF StartResume
    <3> QED
      BY <1>4, <3>2 DEF StartResume
  <2>3. Claims'
    BY <1>4 DEF StartResume, snaps, budget
  <2> QED
    BY <2>1, <2>2, <2>3
<1>5. CASE StartReset
  <2>1. TypeOK'
    <3>1. FilesType'
      BY <1>5, RemovedFilesTyped, Zenon
    <3>2. (RepositoryType /\ LocalsType /\ CountersType)'
      BY <1>5, BoundsAssumption
         DEF StartReset, snaps, locals, budget
    <3> QED
      BY <3>1, <3>2
  <2>2. Positions'
    BY <1>5 DEF StartReset, snaps, locals, budget
  <2>3. Claims'
    BY <1>5 DEF StartReset, snaps, locals, budget
  <2> QED
    BY <2>1, <2>2, <2>3
<1> QED
  BY <1>1, <1>2, <1>3, <1>4, <1>5 DEF Commands

\* Preparing a new task, a decision, a fix and the reset.
LEMMA CommandStepInductive ==
  ASSUME Inductive, CommandStep
  PROVE  Inductive'
<1> USE DEF Inductive, TypeOK, FilesType, RepositoryType, LocalsType, CountersType,
             Statuses, Labels, Positions, LocalsSet, FlagsCleared, StopOnDisk,
             RunningNotTerminal, CallDebt, Calling, WorkerDone, ReviewReady,
             ReviewDone, Claims, TerminalNotResumable,
             WaitingDecisionHasQuestion, Terminal
<1>1. CASE ActivateNewTask
  <2>1. TypeOK'
    BY <1>1, BoundsAssumption DEF ActivateNewTask, snaps, locals, budget
  <2>2. Positions'
    BY <1>1 DEF ActivateNewTask, snaps, locals, budget
  <2>3. Claims'
    BY <1>1 DEF ActivateNewTask, snaps, locals, budget
  <2> QED
    BY <2>1, <2>2, <2>3
<1>2. CASE ForgetPreviousTask
  <2>1. TypeOK'
    <3>1. FilesType'
      BY <1>2, RemovedFilesTyped, Zenon
    <3>2. (RepositoryType /\ LocalsType /\ CountersType)'
      BY <1>2, WorkerCheckpointType, BoundsAssumption
         DEF ForgetPreviousTask, snaps, budget
    <3> QED
      BY <3>1, <3>2
  <2>2. Positions'
    BY <1>2, WorkerCheckpointType DEF ForgetPreviousTask, snaps, budget
  <2>3. Claims'
    BY <1>2, WorkerCheckpointType DEF ForgetPreviousTask, snaps, budget
  <2> QED
    BY <2>1, <2>2, <2>3
<1>3. CASE ActivateDecision
  <2>1. TypeOK'
    BY <1>3, WorkerCheckpointType, BoundsAssumption
       DEF ActivateDecision, snaps, budget
  <2>2. Positions'
    BY <1>3, WorkerCheckpointType DEF ActivateDecision, snaps, budget
  <2>3. Claims'
    BY <1>3, WorkerCheckpointType DEF ActivateDecision, snaps, budget
  <2> QED
    BY <2>1, <2>2, <2>3
<1>4. CASE EnsureActiveTask
  <2>1. TypeOK'
    BY <1>4, ResolvedTaskType, FailClosedSets, BoundsAssumption
       DEF EnsureActiveTask, ActiveTask, Goto, snaps, locals, budget
  <2>2. Positions'
    BY <1>4, ResolvedTaskType, FailClosedSets
       DEF EnsureActiveTask, ActiveTask, Goto, snaps, locals, budget
  <2>3. Claims'
    BY <1>4, ResolvedTaskType, FailClosedSets
       DEF EnsureActiveTask, ActiveTask, Goto, snaps, locals, budget
  <2> QED
    BY <2>1, <2>2, <2>3
<1>5. CASE ResetDecision
  <2>1. TypeOK'
    <3>1. FilesType'
      BY <1>5, RemovedFilesTyped, Zenon
    <3>2. (RepositoryType /\ LocalsType /\ CountersType)'
      BY <1>5, BoundsAssumption
         DEF ResetDecision, Goto, snaps, locals, budget
    <3> QED
      BY <3>1, <3>2
  <2>2. Positions'
    BY <1>5 DEF ResetDecision, Goto, snaps, locals, budget
  <2>3. Claims'
    BY <1>5 DEF ResetDecision, Goto, snaps, locals, budget
  <2> QED
    BY <2>1, <2>2, <2>3
<1>6. CASE ResetRest
  <2>1. TypeOK'
    BY <1>6, EndSets, NothingNotStopped, BoundsAssumption, RemovedFilesTyped
       DEF ResetRest, budget
  <2>2. Positions'
    BY <1>6, EndSets, NothingNotStopped DEF ResetRest, budget
  <2>3. Claims'
    BY <1>6, EndSets, NothingNotStopped DEF ResetRest, budget
  <2> QED
    BY <2>1, <2>2, <2>3
<1>7. CASE RemovePreviousTask
  <2>1. TypeOK'
    <3>1. FilesType'
      BY <1>7, RemovedFilesTyped, Zenon
    <3>2. (RepositoryType /\ LocalsType /\ CountersType)'
      BY <1>7, BoundsAssumption
         DEF RemovePreviousTask, Goto, locals, budget
    <3> QED
      BY <3>1, <3>2
  <2>2. Positions'
    BY <1>7 DEF RemovePreviousTask, Goto, locals, budget
  <2>3. Claims'
    BY <1>7 DEF RemovePreviousTask, Goto, locals, budget
  <2> QED
    BY <2>1, <2>2, <2>3
<1>8. CASE ResetStatus
  <2>1. TypeOK'
    <3>1. FilesType'
      BY <1>8, RemovedFilesTyped, Zenon
    <3>2. (RepositoryType /\ LocalsType /\ CountersType)'
      BY <1>8, BoundsAssumption
         DEF ResetStatus, Goto, snaps, locals, budget
    <3> QED
      BY <3>1, <3>2
  <2>2. Positions'
    BY <1>8 DEF ResetStatus, Goto, snaps, locals, budget
  <2>3. Claims'
    BY <1>8 DEF ResetStatus, Goto, snaps, locals, budget
  <2> QED
    BY <2>1, <2>2, <2>3
<1> QED
  BY <1>1, <1>2, <1>3, <1>4, <1>5, <1>6, <1>7, <1>8 DEF CommandStep

\* --resume up to the call, and the restoration of its stop.
LEMMA ResumeStepInductive ==
  ASSUME Inductive, ResumeStep
  PROVE  Inductive'
<1> USE DEF Inductive, TypeOK, FilesType, RepositoryType, LocalsType, CountersType,
             Statuses, Labels, Positions, LocalsSet, FlagsCleared, StopOnDisk,
             RunningNotTerminal, CallDebt, Calling, WorkerDone, ReviewReady,
             ReviewDone, Claims, TerminalNotResumable,
             WaitingDecisionHasQuestion, Terminal
<1>1. CASE ResumeGate
  <2>1. TypeOK'
    BY <1>1, FailClosedSets, ResumeCallSets, BoundsAssumption
       DEF ResumeGate, AfterProbeGate, Goto, files, snaps, locals, budget
  <2>2. Positions'
    BY <1>1, FailClosedSets, ResumeCallSets
       DEF ResumeGate, AfterProbeGate, Goto, files, snaps, locals, budget
  <2>3. Claims'
    BY <1>1, FailClosedSets, ResumeCallSets
       DEF ResumeGate, AfterProbeGate, Goto, files, snaps, locals, budget
  <2> QED
    BY <2>1, <2>2, <2>3
<1>2. CASE VerifyReviewResume
  <2>1. TypeOK'
    BY <1>2, FailClosedSets, ResumeCallSets, BoundsAssumption
       DEF VerifyReviewResume, files, budget
  <2>2. Positions'
    BY <1>2, FailClosedSets, ResumeCallSets
       DEF VerifyReviewResume, files, budget
  <2>3. Claims'
    BY <1>2, FailClosedSets, ResumeCallSets
       DEF VerifyReviewResume, files, budget
  <2> QED
    BY <2>1, <2>2, <2>3
<1>3. CASE RestoreStop
  <2>1. TypeOK'
    <3>1. prev \in Checkpoint /\ Stopped(prev)
      BY <1>3, NothingNotStopped DEF RestoreStop
    <3>2. ckpt' \in Checkpoint
      BY <1>3, <3>1, RestoredType, NothingNotStopped DEF RestoreStop
    <3> QED
      BY <1>3, <3>2 DEF RestoreStop, Goto, files, snaps, locals, budget
  <2>2. Positions'
    <3>1. prev \in Checkpoint /\ Stopped(prev)
      BY <1>3, NothingNotStopped DEF RestoreStop
    <3>2. Stopped(ckpt')
      BY <1>3, <3>1, RestoredType DEF RestoreStop
    <3> QED
      BY <1>3, <3>2 DEF RestoreStop, Goto, files, snaps, locals, budget
  <2>3. Claims'
    BY <1>3, RestoredType DEF RestoreStop, Goto, files, snaps, locals, budget
  <2> QED
    BY <2>1, <2>2, <2>3
<1>4. CASE RestoreStopStatus
  <2>1. TypeOK'
    BY <1>4, EndSets, BoundsAssumption
       DEF RestoreStopStatus, StopStatus, snaps, budget
  <2>2. Positions'
    BY <1>4, EndSets DEF RestoreStopStatus, StopStatus, snaps, budget
  <2>3. Claims'
    BY <1>4, EndSets DEF RestoreStopStatus, StopStatus, snaps, budget
  <2> QED
    BY <2>1, <2>2, <2>3
<1> QED
  BY <1>1, <1>2, <1>3, <1>4 DEF ResumeStep

\* One model call.
LEMMA CallStepInductive ==
  ASSUME Inductive, CallStep
  PROVE  Inductive'
<1> USE DEF Inductive, TypeOK, FilesType, RepositoryType, LocalsType, CountersType,
             Statuses, Labels, Positions, LocalsSet, FlagsCleared, StopOnDisk,
             RunningNotTerminal, CallDebt, Calling, WorkerDone, ReviewReady,
             ReviewDone, Claims, TerminalNotResumable,
             WaitingDecisionHasQuestion, Terminal
<1>1. CASE BeginCall
  <2>1. TypeOK'
    BY <1>1, SavedType, ParentStatesOfRepo, BoundsAssumption
       DEF BeginCall, files, snaps, budget
  <2>2. Positions'
    BY <1>1, SavedType, ParentStatesOfRepo DEF BeginCall, files, snaps, budget
  <2>3. Claims'
    BY <1>1, SavedType, ParentStatesOfRepo DEF BeginCall, files, snaps, budget
  <2> QED
    BY <2>1, <2>2, <2>3
<1>2. CASE BeginRefused
  <2>1. TypeOK'
    BY <1>2, FailClosedSets, BoundsAssumption
       DEF BeginRefused, files, snaps, budget
  <2>2. Positions'
    BY <1>2, FailClosedSets DEF BeginRefused, files, snaps, budget
  <2>3. Claims'
    BY <1>2, FailClosedSets DEF BeginRefused, files, snaps, budget
  <2> QED
    BY <2>1, <2>2, <2>3
<1>3. CASE BeginFails
  <2>1. TypeOK'
    BY <1>3, FailedSets, BoundsAssumption
       DEF BeginFails, Fault, files, snaps, budget
  <2>2. Positions'
    BY <1>3, FailedSets DEF BeginFails, Fault, files, snaps, budget
  <2>3. Claims'
    BY <1>3, FailedSets DEF BeginFails, Fault, files, snaps, budget
  <2> QED
    BY <2>1, <2>2, <2>3
<1>4. CASE CallViolatesGuard
  <2>1. TypeOK'
    BY <1>4, FailClosedSets, BoundsAssumption
       DEF CallViolatesGuard, CallRecorded, Fault, files, snaps, budget
  <2>2. Positions'
    BY <1>4, FailClosedSets
       DEF CallViolatesGuard, CallRecorded, Fault, files, snaps, budget
  <2>3. Claims'
    BY <1>4, FailClosedSets
       DEF CallViolatesGuard, CallRecorded, Fault, files, snaps, budget
  <2> QED
    BY <2>1, <2>2, <2>3
<1>5. CASE CallSucceeds
  <2>1. TypeOK'
    <3>1. result' \in WorkerResults \cup ReviewerResults
      BY <1>5 DEF CallSucceeds
    <3>2. /\ pc' \in {"review-end", "report-end", "worker-result"}
          /\ prev' \in {prev, Nothing} /\ resuming' = FALSE
          /\ ckpt' = Nothing /\ guard' = Nothing /\ probes' = 0
          /\ UNCHANGED <<files, snaps, repo, cp, budget>>
      BY <1>5 DEF CallSucceeds
    <3>3. unrecorded' \in Int
      BY <1>5 DEF CallSucceeds, CallRecorded
    <3>4. FilesType' /\ RepositoryType'
      BY <1>5, <3>2 DEF files, snaps
    <3>5. LocalsType'
      <4>1. prev' \in Checkpoint \cup {Nothing} /\ cp' \in Checkpoint
        BY <1>5, <3>2 DEF CallSucceeds
      <4> QED
        <5>1. pc' \in Labels /\ resuming' \in BOOLEAN
          BY <3>2
        <5>2. /\ guard' \in ParentStates \cup {Nothing}
              /\ probes' \in 0 .. MaxProbes
          BY <3>2, BoundsAssumption
        <5>3. result' \in WorkerResults \cup ReviewerResults \cup {Nothing}
          BY <3>1
        <5> QED
          BY <4>1, <5>1, <5>2, <5>3
    <3>6. CountersType'
      BY <1>5, <3>2, <3>3 DEF budget
    <3> QED
      BY <3>4, <3>5, <3>6
  <2>2. Positions'
    <3>1. cp \in Checkpoint /\ ckpt' = Nothing /\ cp' = cp /\ resuming' = FALSE
      BY <1>5 DEF CallSucceeds
    <3>2. unrecorded' = 0 /\ status' = status /\ status \notin Terminal
      BY <1>5 DEF CallSucceeds, CallRecorded, files
    <3>3. \/ pc' = "review-end" /\ result' \in ReviewerResults
          \/ pc' \in {"report-end", "worker-result"} /\ result' \in WorkerResults
      <4>1. CASE IsReviewer(cp)
        <5>1. \E r \in ReviewerResults : result' = r
          BY <1>5, <4>1 DEF CallSucceeds
        <5>2. pc' = "review-end"
          BY <1>5, <4>1 DEF CallSucceeds
        <5> QED
          BY <5>1, <5>2
      <4>2. CASE ~IsReviewer(cp)
        <5>1. \E r \in WorkerResults : result' = r
          BY <1>5, <4>2 DEF CallSucceeds
        <5>2. pc' \in {"report-end", "worker-result"}
          BY <1>5, <4>2 DEF CallSucceeds
        <5> QED
          BY <5>1, <5>2
      <4> QED
        BY <4>1, <4>2
    <3> QED
      BY <3>1, <3>2, <3>3, NothingNotStopped
  <2>3. Claims'
    BY <1>5, NothingNotStopped
       DEF CallSucceeds, CallRecorded, files, snaps, budget
  <2> QED
    BY <2>1, <2>2, <2>3
<1>6. CASE CallBreaksContract
  <2>1. TypeOK'
    BY <1>6, CorrectedType, FailedSets, NothingNotStopped, BoundsAssumption
       DEF CallBreaksContract, Call, CallRecorded, files, snaps, budget
  <2>2. Positions'
    BY <1>6, CorrectedType, FailedSets, NothingNotStopped
       DEF CallBreaksContract, Call, CallRecorded, files, snaps, budget
  <2>3. Claims'
    BY <1>6, CorrectedType, FailedSets, NothingNotStopped
       DEF CallBreaksContract, Call, CallRecorded, files, snaps, budget
  <2> QED
    BY <2>1, <2>2, <2>3
<1>7. CASE CallFails
  <2>1. TypeOK'
    BY <1>7, FailedSets, NothingNotStopped, BoundsAssumption
       DEF CallFails, CallRecorded, files, snaps, budget
  <2>2. Positions'
    BY <1>7, FailedSets, NothingNotStopped
       DEF CallFails, CallRecorded, files, snaps, budget
  <2>3. Claims'
    BY <1>7, FailedSets, NothingNotStopped
       DEF CallFails, CallRecorded, files, snaps, budget
  <2> QED
    BY <2>1, <2>2, <2>3
<1>8. CASE CallStateError
  <2>1. TypeOK'
    BY <1>8, FailedSets, BoundsAssumption
       DEF CallStateError, CallRecorded, Fault, files, snaps, budget
  <2>2. Positions'
    BY <1>8, FailedSets
       DEF CallStateError, CallRecorded, Fault, files, snaps, budget
  <2>3. Claims'
    BY <1>8, FailedSets
       DEF CallStateError, CallRecorded, Fault, files, snaps, budget
  <2> QED
    BY <2>1, <2>2, <2>3
<1>9. CASE CallRateLimited
  <2>1. TypeOK'
    BY <1>9, StopTypes, BoundsAssumption
       DEF CallRateLimited, Goto, files, snaps, locals, budget
  <2>2. Positions'
    BY <1>9, StopTypes DEF CallRateLimited, Goto, files, snaps, locals, budget
  <2>3. Claims'
    BY <1>9, StopTypes DEF CallRateLimited, Goto, files, snaps, locals, budget
  <2> QED
    BY <2>1, <2>2, <2>3
<1>10. CASE CallTransient
  <2>1. TypeOK'
    BY <1>10, BoundsAssumption
       DEF CallTransient, Stopped, CallRecorded, files, snaps, budget
  <2>2. Positions'
    <3>1. cp \in Checkpoint /\ ~Stopped(cp) /\ cp # Nothing
      BY <1>10, NothingAssumption DEF CallTransient
    <3>2. ~cp.unavailable
      BY <3>1 DEF Stopped
    <3> QED
      BY <1>10, <3>1, <3>2 DEF CallTransient, CallRecorded, files, snaps, budget
  <2>3. Claims'
    BY <1>10 DEF CallTransient, Stopped, CallRecorded, files, snaps, budget
  <2> QED
    BY <2>1, <2>2, <2>3
<1> QED
  BY <1>1, <1>2, <1>3, <1>4, <1>5, <1>6, <1>7, <1>8, <1>9, <1>10 DEF CallStep

\* The recovery from an outage.
LEMMA ProbeStepInductive ==
  ASSUME Inductive, ProbeStep
  PROVE  Inductive'
<1> USE DEF Inductive, TypeOK, FilesType, RepositoryType, LocalsType, CountersType,
             Statuses, Labels, Positions, LocalsSet, FlagsCleared, StopOnDisk,
             RunningNotTerminal, CallDebt, Calling, WorkerDone, ReviewReady,
             ReviewDone, Claims, TerminalNotResumable,
             WaitingDecisionHasQuestion, Terminal
<1>1. CASE ProbeContinues
  <2>1. TypeOK'
    BY <1>1, BoundsAssumption DEF ProbeContinues, files, snaps, budget
  <2>2. Positions'
    BY <1>1 DEF ProbeContinues, files, snaps, budget
  <2>3. Claims'
    BY <1>1 DEF ProbeContinues, files, snaps, budget
  <2> QED
    BY <2>1, <2>2, <2>3
<1>2. CASE ProbeSucceeds
  <2>1. TypeOK'
    BY <1>2, ResumeCallSets, BoundsAssumption
       DEF ProbeSucceeds, AtGate, AfterProbeGate, files, snaps, budget
  <2>2. Positions'
    BY <1>2, ResumeCallSets
       DEF ProbeSucceeds, AtGate, AfterProbeGate, files, snaps, budget
  <2>3. Claims'
    BY <1>2, ResumeCallSets
       DEF ProbeSucceeds, AtGate, AfterProbeGate, files, snaps, budget
  <2> QED
    BY <2>1, <2>2, <2>3
<1>3. CASE ProbeRateLimited
  <2>1. TypeOK'
    BY <1>3, StopTypes, BoundsAssumption
       DEF ProbeRateLimited, files, snaps, budget
  <2>2. Positions'
    BY <1>3, StopTypes DEF ProbeRateLimited, files, snaps, budget
  <2>3. Claims'
    BY <1>3, StopTypes DEF ProbeRateLimited, files, snaps, budget
  <2> QED
    BY <2>1, <2>2, <2>3
<1>4. CASE ProbeFatal
  <2>1. TypeOK'
    BY <1>4, FailedSets, NothingNotStopped, BoundsAssumption
       DEF ProbeFatal, Fault, files, snaps, budget
  <2>2. Positions'
    BY <1>4, FailedSets, NothingNotStopped
       DEF ProbeFatal, Fault, files, snaps, budget
  <2>3. Claims'
    BY <1>4, FailedSets, NothingNotStopped
       DEF ProbeFatal, Fault, files, snaps, budget
  <2> QED
    BY <2>1, <2>2, <2>3
<1>5. CASE RecoveryExhausted
  <2>1. TypeOK'
    BY <1>5, StopTypes, BoundsAssumption
       DEF RecoveryExhausted, Goto, files, snaps, locals, budget
  <2>2. Positions'
    BY <1>5, StopTypes
       DEF RecoveryExhausted, Goto, files, snaps, locals, budget
  <2>3. Claims'
    BY <1>5, StopTypes
       DEF RecoveryExhausted, Goto, files, snaps, locals, budget
  <2> QED
    BY <2>1, <2>2, <2>3
<1> QED
  BY <1>1, <1>2, <1>3, <1>4, <1>5 DEF ProbeStep

\* Saving a stop.
LEMMA StopStepInductive ==
  ASSUME Inductive, StopStep
  PROVE  Inductive'
<1> USE DEF Inductive, TypeOK, FilesType, RepositoryType, LocalsType, CountersType,
             Statuses, Labels, Positions, LocalsSet, FlagsCleared, StopOnDisk,
             RunningNotTerminal, CallDebt, Calling, WorkerDone, ReviewReady,
             ReviewDone, Claims, TerminalNotResumable,
             WaitingDecisionHasQuestion, Terminal
<1>1. CASE SaveStopStatus
  <2>1. TypeOK'
    BY <1>1, BoundsAssumption
       DEF SaveStopStatus, StopStatus, Goto, snaps, locals, budget
  <2>2. Positions'
    BY <1>1 DEF SaveStopStatus, StopStatus, Goto, snaps, locals, budget
  <2>3. Claims'
    BY <1>1 DEF SaveStopStatus, StopStatus, Goto, snaps, locals, budget
  <2> QED
    BY <2>1, <2>2, <2>3
<1>2. CASE ReportStop
  <2>1. TypeOK'
    BY <1>2, EndSets, BoundsAssumption
       DEF ReportStop, CallRecorded, InFlight, files, snaps, budget
  <2>2. Positions'
    BY <1>2, EndSets
       DEF ReportStop, CallRecorded, InFlight, files, snaps, budget
  <2>3. Claims'
    BY <1>2, EndSets
       DEF ReportStop, CallRecorded, InFlight, files, snaps, budget
  <2> QED
    BY <2>1, <2>2, <2>3
<1>3. CASE StopFails
  <2>1. TypeOK'
    BY <1>3, FailedSets, NothingNotStopped, BoundsAssumption
       DEF StopFails, CallRecorded, Fault, InFlight, files, snaps, budget
  <2>2. Positions'
    BY <1>3, FailedSets, NothingNotStopped
       DEF StopFails, CallRecorded, Fault, InFlight, files, snaps, budget
  <2>3. Claims'
    BY <1>3, FailedSets, NothingNotStopped
       DEF StopFails, CallRecorded, Fault, InFlight, files, snaps, budget
  <2> QED
    BY <2>1, <2>2, <2>3
<1> QED
  BY <1>1, <1>2, <1>3 DEF StopStep

\* Failing closed.
LEMMA FailClosedStepInductive ==
  ASSUME Inductive, FailClosedStep
  PROVE  Inductive'
<1> USE DEF Inductive, TypeOK, FilesType, RepositoryType, LocalsType, CountersType,
             Statuses, Labels, Positions, LocalsSet, FlagsCleared, StopOnDisk,
             RunningNotTerminal, CallDebt, Calling, WorkerDone, ReviewReady,
             ReviewDone, Claims, TerminalNotResumable,
             WaitingDecisionHasQuestion, Terminal
<1>1. CASE FailClosedClear
  <2>1. TypeOK'
    BY <1>1, NothingNotStopped, BoundsAssumption
       DEF FailClosedClear, Goto, files, snaps, locals, budget
  <2>2. Positions'
    BY <1>1, NothingNotStopped
       DEF FailClosedClear, Goto, files, snaps, locals, budget
  <2>3. Claims'
    BY <1>1, NothingNotStopped
       DEF FailClosedClear, Goto, files, snaps, locals, budget
  <2> QED
    BY <2>1, <2>2, <2>3
<1>2. CASE FailClosedStatus
  <2>1. TypeOK'
    BY <1>2, EndSets, BoundsAssumption DEF FailClosedStatus, snaps, budget
  <2>2. Positions'
    BY <1>2, EndSets DEF FailClosedStatus, snaps, budget
  <2>3. Claims'
    BY <1>2, EndSets DEF FailClosedStatus, snaps, budget
  <2> QED
    BY <2>1, <2>2, <2>3
<1>3. CASE FailClosedFails
  <2>1. TypeOK'
    BY <1>3, FailedSets, BoundsAssumption
       DEF FailClosedFails, Fault, files, snaps
  <2>2. Positions'
    BY <1>3, FailedSets DEF FailClosedFails, Fault, files, snaps
  <2>3. Claims'
    BY <1>3, FailedSets DEF FailClosedFails, Fault, files, snaps
  <2> QED
    BY <2>1, <2>2, <2>3
<1> QED
  BY <1>1, <1>2, <1>3 DEF FailClosedStep

\* The result of the worker.
LEMMA ResultStepInductive ==
  ASSUME Inductive, ResultStep
  PROVE  Inductive'
<1> USE DEF Inductive, TypeOK, FilesType, RepositoryType, LocalsType, CountersType,
             Statuses, Labels, Positions, LocalsSet, FlagsCleared, StopOnDisk,
             RunningNotTerminal, CallDebt, Calling, WorkerDone, ReviewReady,
             ReviewDone, Claims, TerminalNotResumable,
             WaitingDecisionHasQuestion, Terminal
<1>1. CASE WorkerAsksSol
  <2>1. TypeOK'
    BY <1>1, BoundsAssumption DEF WorkerAsksSol, Goto, snaps, locals, budget
  <2>2. Positions'
    BY <1>1 DEF WorkerAsksSol, Goto, snaps, locals, budget
  <2>3. Claims'
    BY <1>1 DEF WorkerAsksSol, Goto, snaps, locals, budget
  <2> QED
    BY <2>1, <2>2, <2>3
<1>2. CASE AwaitDecision
  <2>1. TypeOK'
    BY <1>2, EndSets, BoundsAssumption DEF AwaitDecision, snaps, budget
  <2>2. Positions'
    BY <1>2, EndSets DEF AwaitDecision, snaps, budget
  <2>3. Claims'
    BY <1>2, EndSets DEF AwaitDecision, snaps, budget
  <2> QED
    BY <2>1, <2>2, <2>3
<1>3. CASE WorkerImplemented
  <2>1. TypeOK'
    <3>1. FilesType'
      BY <1>3, RemovedFilesTyped, Zenon
    <3>2. (RepositoryType /\ LocalsType /\ CountersType)'
      BY <1>3, BoundsAssumption
         DEF WorkerImplemented, Goto, snaps, locals, budget
    <3> QED
      BY <3>1, <3>2
  <2>2. Positions'
    BY <1>3 DEF WorkerImplemented, Goto, snaps, locals, budget
  <2>3. Claims'
    BY <1>3 DEF WorkerImplemented, Goto, snaps, locals, budget
  <2> QED
    BY <2>1, <2>2, <2>3
<1> QED
  BY <1>1, <1>2, <1>3 DEF ResultStep

\* The review and the report-only fix.
LEMMA ReviewStepInductive ==
  ASSUME Inductive, ReviewStep
  PROVE  Inductive'
<1> USE DEF Inductive, TypeOK, FilesType, RepositoryType, LocalsType, CountersType,
             Statuses, Labels, Positions, LocalsSet, FlagsCleared, StopOnDisk,
             RunningNotTerminal, CallDebt, Calling, WorkerDone, ReviewReady,
             ReviewDone, Claims, TerminalNotResumable,
             WaitingDecisionHasQuestion, Terminal
<1>1. CASE CaptureWorkerEnd
  <2>1. TypeOK'
    BY <1>1, BoundsAssumption DEF CaptureWorkerEnd, Goto, files, locals
  <2>2. Positions'
    BY <1>1 DEF CaptureWorkerEnd, Goto, files, locals
  <2>3. Claims'
    BY <1>1 DEF CaptureWorkerEnd, Goto, files, locals
  <2> QED
    BY <2>1, <2>2, <2>3
<1>2. CASE ComputeEffectiveRisk
  <2>1. cp' \in Checkpoint /\ ~Stopped(cp')
    BY <1>2, ReviewCheckpointType, FieldTypes, ResultTypes
       DEF ComputeEffectiveRisk, Risks
  <2>2. TypeOK'
    BY <1>2, <2>1 DEF ComputeEffectiveRisk, files, snaps, budget
  <2>3. Positions'
    BY <1>2, <2>1 DEF ComputeEffectiveRisk, files, snaps, budget
  <2>4. Claims'
    BY <1>2 DEF ComputeEffectiveRisk, files, snaps, budget
  <2> QED
    BY <2>2, <2>3, <2>4
<1>3. CASE EnsureReviewTask
  <2>1. TypeOK'
    BY <1>3, ResolvedTaskType, FailClosedSets, BoundsAssumption
       DEF EnsureReviewTask, ActiveTask, Goto, snaps, locals, budget
  <2>2. Positions'
    BY <1>3, ResolvedTaskType, FailClosedSets
       DEF EnsureReviewTask, ActiveTask, Goto, snaps, locals, budget
  <2>3. Claims'
    BY <1>3, ResolvedTaskType, FailClosedSets
       DEF EnsureReviewTask, ActiveTask, Goto, snaps, locals, budget
  <2> QED
    BY <2>1, <2>2, <2>3
<1>4. CASE VerifyReviewStart
  <2>1. TypeOK'
    BY <1>4, FailClosedSets, BoundsAssumption
       DEF VerifyReviewStart, Goto, files, locals, budget
  <2>2. Positions'
    BY <1>4, FailClosedSets DEF VerifyReviewStart, Goto, files, locals, budget
  <2>3. Claims'
    BY <1>4, FailClosedSets DEF VerifyReviewStart, Goto, files, locals, budget
  <2> QED
    BY <2>1, <2>2, <2>3
<1>5. CASE VerifyReviewEnd
  <2>1. TypeOK'
    BY <1>5, FailClosedSets, BoundsAssumption
       DEF VerifyReviewEnd, Goto, files, snaps, locals, budget
  <2>2. Positions'
    BY <1>5, FailClosedSets
       DEF VerifyReviewEnd, Goto, files, snaps, locals, budget
  <2>3. Claims'
    BY <1>5, FailClosedSets
       DEF VerifyReviewEnd, Goto, files, snaps, locals, budget
  <2> QED
    BY <2>1, <2>2, <2>3
<1>6. CASE EnforceRiskFloor
  <2>1. TypeOK'
    BY <1>6, ReemitCheckpointType, ResultTypes, BoundsAssumption
       DEF EnforceRiskFloor, Call, AdoptReview, files, snaps, budget
  <2>2. Positions'
    <3>1. /\ cp \in Checkpoint /\ result \in ReviewerResults /\ ~Stopped(ckpt)
          /\ status \notin Terminal /\ unrecorded = 0 /\ ~resuming
      BY <1>6 DEF EnforceRiskFloor
    <3>2. UNCHANGED <<status, pending, ckpt, unrecorded>>
      BY <1>6 DEF EnforceRiskFloor, files
    <3>3. CASE Call(ReemitCheckpoint(cp)) /\ UNCHANGED resuming /\ prev' = Nothing
      BY <3>1, <3>2, <3>3, ReemitCheckpointType DEF Call
    <3>4. CASE \E r \in ReviewerResults : AdoptReview(r)
      <4>1. /\ pc' = "record-review" /\ result' \in ReviewerResults
            /\ prev' = Nothing /\ cp' = cp /\ resuming' = resuming
        BY <3>4, Zenon DEF AdoptReview
      <4> QED
        BY <3>1, <3>2, <4>1
    <3> QED
      BY <1>6, <3>1, <3>3, <3>4, ResultTypes DEF EnforceRiskFloor
  <2>3. Claims'
    BY <1>6, ReemitCheckpointType, ResultTypes
       DEF EnforceRiskFloor, Call, AdoptReview, files, snaps, budget
  <2> QED
    BY <2>1, <2>2, <2>3
<1>7. CASE RecordReview
  <2>1. TypeOK'
    BY <1>7, BoundsAssumption DEF RecordReview, Goto, snaps, locals, budget
  <2>2. Positions'
    BY <1>7 DEF RecordReview, Goto, snaps, locals, budget
  <2>3. Claims'
    BY <1>7 DEF RecordReview, Goto, snaps, locals, budget
  <2> QED
    BY <2>1, <2>2, <2>3
<1>8. CASE ReviewPasses
  <2>1. TypeOK'
    BY <1>8, EndSets, BoundsAssumption DEF ReviewPasses, Finish, snaps, budget
  <2>2. Positions'
    BY <1>8, EndSets DEF ReviewPasses, Finish, snaps, budget
  <2>3. Claims'
    BY <1>8, EndSets DEF ReviewPasses, Finish, snaps, budget
  <2> QED
    BY <2>1, <2>2, <2>3
<1>9. CASE ReviewNeedsSol
  <2>1. TypeOK'
    BY <1>9, EndSets, BoundsAssumption
       DEF ReviewNeedsSol, Finish, snaps, budget
  <2>2. Positions'
    BY <1>9, EndSets DEF ReviewNeedsSol, Finish, snaps, budget
  <2>3. Claims'
    BY <1>9, EndSets DEF ReviewNeedsSol, Finish, snaps, budget
  <2> QED
    BY <2>1, <2>2, <2>3
<1>10. CASE AutoFix
  <2>1. TypeOK'
    BY <1>10, AutoFixCheckpointType, ResultTypes, BoundsAssumption
       DEF AutoFix, files, snaps, budget
  <2>2. Positions'
    BY <1>10, AutoFixCheckpointType, ResultTypes
       DEF AutoFix, files, snaps, budget
  <2>3. Claims'
    BY <1>10, AutoFixCheckpointType, ResultTypes
       DEF AutoFix, files, snaps, budget
  <2> QED
    BY <2>1, <2>2, <2>3
<1>11. CASE SaveReportStart
  <2>1. TypeOK'
    BY <1>11, BoundsAssumption DEF SaveReportStart, Goto, files, locals, budget
  <2>2. Positions'
    BY <1>11 DEF SaveReportStart, Goto, files, locals, budget
  <2>3. Claims'
    BY <1>11 DEF SaveReportStart, Goto, files, locals, budget
  <2> QED
    BY <2>1, <2>2, <2>3
<1>12. CASE VerifyReportEnd
  <2>1. TypeOK'
    BY <1>12, FailClosedSets, BoundsAssumption
       DEF VerifyReportEnd, Goto, files, snaps, locals, budget
  <2>2. Positions'
    BY <1>12, FailClosedSets
       DEF VerifyReportEnd, Goto, files, snaps, locals, budget
  <2>3. Claims'
    BY <1>12, FailClosedSets
       DEF VerifyReportEnd, Goto, files, snaps, locals, budget
  <2> QED
    BY <2>1, <2>2, <2>3
<1>13. CASE CaptureFails
  <2>1. TypeOK'
    BY <1>13, FailClosedSets, BoundsAssumption
       DEF CaptureFails, Fault, files, snaps
  <2>2. Positions'
    BY <1>13, FailClosedSets DEF CaptureFails, Fault, files, snaps
  <2>3. Claims'
    BY <1>13, FailClosedSets DEF CaptureFails, Fault, files, snaps
  <2> QED
    BY <2>1, <2>2, <2>3
<1> QED
  BY <1>1, <1>2, <1>3, <1>4, <1>5, <1>6, <1>7,
     <1>8, <1>9, <1>10, <1>11, <1>12, <1>13 DEF ReviewStep

\* The environment: an agent or somebody else edits, the process dies.
LEMMA EnvironmentInductive ==
  ASSUME Inductive, WorkerEdits \/ Crash \/ Edit
  PROVE  Inductive'
<1> USE DEF Inductive, TypeOK, FilesType, RepositoryType, LocalsType, CountersType,
             Statuses, Labels, Positions, LocalsSet, FlagsCleared, StopOnDisk,
             RunningNotTerminal, CallDebt, Calling, WorkerDone, ReviewReady,
             ReviewDone, Claims, TerminalNotResumable,
             WaitingDecisionHasQuestion, Terminal
<1>1. CASE WorkerEdits
  <2>1. TypeOK'
    BY <1>1, BoundsAssumption
       DEF WorkerEdits, Repo, files, snaps, locals, budget
  <2>2. Positions'
    BY <1>1 DEF WorkerEdits, Repo, files, snaps, locals, budget
  <2>3. Claims'
    BY <1>1 DEF WorkerEdits, Repo, files, snaps, locals, budget
  <2> QED
    BY <2>1, <2>2, <2>3
<1>2. CASE Crash
  <2>1. TypeOK'
    BY <1>2, EndSets, BoundsAssumption DEF Crash, Fault, files, snaps
  <2>2. Positions'
    BY <1>2, EndSets DEF Crash, Fault, files, snaps
  <2>3. Claims'
    BY <1>2, EndSets DEF Crash, Fault, files, snaps
  <2> QED
    BY <2>1, <2>2, <2>3
<1>3. CASE Edit
  <2>1. TypeOK'
    BY <1>3, BoundsAssumption DEF Edit, PreparingReview, files, snaps, locals
  <2>2. Positions'
    BY <1>3 DEF Edit, files, snaps, locals
  <2>3. Claims'
    BY <1>3 DEF Edit, files, snaps, locals
  <2> QED
    BY <2>1, <2>2, <2>3
<1> QED
  BY <1>1, <1>2, <1>3

\* Every step of the system, and a step that changes nothing.
LEMMA InductiveNext ==
  Inductive /\ [Next]_vars => Inductive'
<1> SUFFICES ASSUME Inductive, [Next]_vars
             PROVE  Inductive'
  OBVIOUS
<1>1. CASE Commands
  BY <1>1, CommandsInductive
<1>2. CASE Step
  <2>1. \/ CommandStep \/ ResumeStep \/ CallStep \/ ProbeStep
        \/ StopStep \/ FailClosedStep \/ ResultStep \/ ReviewStep
    BY <1>2 DEF Step
  <2> QED
    BY <2>1, CommandStepInductive, ResumeStepInductive, CallStepInductive,
       ProbeStepInductive, StopStepInductive, FailClosedStepInductive,
       ResultStepInductive, ReviewStepInductive
<1>3. CASE WorkerEdits \/ Crash \/ Edit
  BY <1>3, EnvironmentInductive
<1>4. CASE UNCHANGED vars
  <2>1. TypeOK'
    BY <1>4 DEF Inductive, TypeOK, FilesType, RepositoryType, LocalsType,
       CountersType, vars, files, snaps, locals, budget
  <2>2. Positions'
    BY <1>4 DEF Inductive, Positions, LocalsSet, FlagsCleared, StopOnDisk,
       RunningNotTerminal, CallDebt, vars, files, snaps, locals, budget
  <2>3. Claims'
    BY <1>4 DEF Inductive, Claims, TerminalNotResumable,
       WaitingDecisionHasQuestion, vars, files
  <2> QED
    BY <2>1, <2>2, <2>3 DEF Inductive
<1> QED
  BY <1>1, <1>2, <1>3, <1>4 DEF Next

-----------------------------------------------------------------------------
(* The theorems *)

\* The inductive invariant holds in every reachable state.
THEOREM InductiveInvariant == Spec => []Inductive
BY InductiveInit, InductiveNext, PTL DEF Spec

\* The state directory, the working tree and the locals of the command keep
\* their types, for any number of fixes, probes, edits and faults.
THEOREM TypeCorrect == Spec => []TypeOK
<1>1. Inductive => TypeOK
  BY DEF Inductive
<1> QED
  BY <1>1, InductiveInvariant, PTL

\* A task that asked Sol something, or that is complete, leaves no stop for
\* --resume, whatever crashes and failed writes came before
\* (failClosedStopped, handleWorkerResult, handleReviewResult).
THEOREM TerminalSafe == Spec => []TerminalNotResumable
<1>1. Inductive => TerminalNotResumable
  BY DEF Inductive, Claims
<1> QED
  BY <1>1, InductiveInvariant, PTL

\* A task that waits for a decision has its pending question, so that
\* --decision is not refused (handleWorkerResult, ExecuteDecision).
THEOREM DecisionHasQuestion == Spec => []WaitingDecisionHasQuestion
<1>1. Inductive => WaitingDecisionHasQuestion
  BY DEF Inductive, Claims
<1> QED
  BY <1>1, InductiveInvariant, PTL

\* When a command ends, each call the statistics counted is in the call log
\* exactly once (runModel, saveRateLimitedState, recoverTransient).
THEOREM CallsRecorded == Spec => []CallsRecordedOnce
<1>1. Inductive => CallsRecordedOnce
  BY DEF Inductive, Positions, CallDebt, CallsRecordedOnce
<1> QED
  BY <1>1, InductiveInvariant, PTL

=============================================================================
