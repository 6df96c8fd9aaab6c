------------------------------ MODULE Workflow ------------------------------
(***************************************************************************)
(* One task of glm-worker: the worker, the independent reviewer, the      *)
(* automatic fixes, the stops that --resume continues, and the state      *)
(* directory all commands of one repository share.                        *)
(*                                                                         *)
(* Commands run one at a time: the process lock of the repository is      *)
(* taken before any of them (internal/app/app.go).  A step of this module *)
(* is what one command does between two points where a crash, an edit of  *)
(* the repository by somebody else, or an answer of a model can come in.  *)
(***************************************************************************)
EXTENDS Integers, FiniteSets

CONSTANTS
    Codes,             \* HEAD, index and worktree without the parent metadata
    CriticalCodes,     \* those whose changes IsCriticalPath protects
    TaskContents,      \* contents of the ACTIVE task file
    MetadataTracked,   \* whether Git tracks the plan and the task file
    MaxAutoFixRounds,  \* config.MaxAutoFixRounds
    MaxProbes,         \* maxTransientProbes
    MaxEdits,          \* bound: changes of the repository by others
    MaxFaults,         \* bound: crashes and failed reads or writes
    Nothing            \* an absent file or an unset local variable

ASSUME CodesAssumption == CriticalCodes \subseteq Codes
ASSUME TrackedAssumption == MetadataTracked \in BOOLEAN
ASSUME BoundsAssumption == /\ MaxAutoFixRounds \in Nat
                           /\ MaxProbes \in Nat \ {0}
                           /\ MaxEdits \in Nat
                           /\ MaxFaults \in Nat

Risks == {"LOW", "HIGH"}

\* IMPLEMENTATION_PLAN.md is missing, has an ACTIVE section that names no
\* single valid task file, or names one; the task file is missing or regular.
Plans == {"absent", "broken", "wired"}
ParentStates == [plan: Plans, task: TaskContents \cup {Nothing}]
Repo == [code: Codes, parents: ParentStates]

Checkpoint == [stage: {"worker", "reviewer", "auto-fix"},
               reportOnly: BOOLEAN, correction: BOOLEAN, reemit: BOOLEAN,
               autoFixes: 0 .. MaxAutoFixRounds,
               workerRisk: Risks, risk: Risks \cup {"unset"},
               rateLimited: BOOLEAN, unavailable: BOOLEAN,
               stopParents: ParentStates \cup {Nothing}]

WorkerResults == [status: {"IMPLEMENTED"}, risk: Risks]
                    \cup [status: {"NEEDS_SOL_DECISION"}, risk: {"HIGH"}]
ReviewerResults == [status: {"PASS", "NEEDS_SOL_REVIEW"}, packetOnly: {FALSE}]
                      \cup [status: {"FIX_REQUIRED"}, packetOnly: BOOLEAN]

\* An absent file is none of the values a file can hold.
ASSUME NothingAssumption == Nothing \notin Checkpoint \cup Repo \cup ParentStates

Statuses == {"none", "active", "waiting-decision", "waiting-sol-review",
             "rate-limited", "provider-unavailable", "complete"}

\* Where the running command is, and "idle" when none runs.
Labels == {"idle", "new-status", "new-activate", "new-forget", "decide", "ensure",
           "report-start", "begin", "call", "probe",
           "stop-status", "stop-report",
           "resume-gate", "resume-check", "restore", "restore-status",
           "fc-clear", "fc-status",
           "worker-result", "await", "review-prep", "review-risk",
           "review-active", "review-start", "review-end", "review-floor",
           "record-review", "review-result", "report-end",
           "reset-status", "reset-decision", "reset-rest"}

VARIABLES
    \* the state directory
    taskID, status, pending, lastDecision, lastReview, active, ckpt,
    workerEnd, reviewStart, reportStart,
    \* the working tree of the repository
    repo,
    \* the running command: its position and its local variables
    pc, cp, prev, guard, result, probes, resuming,
    \* the calls of this process counted in the statistics and not in the log
    unrecorded,
    \* what others did: counts that bound it, and the edits between the snapshot
    \* of the worker's end and the start of its review, which nothing reads
    edits, faults, moved

files  == <<taskID, status, pending, lastDecision, lastReview, active>>
snaps  == <<workerEnd, reviewStart, reportStart>>
locals == <<cp, prev, guard, result, probes, resuming>>
budget == <<edits, faults, moved>>
vars   == <<files, ckpt, snaps, repo, pc, locals, unrecorded, budget>>

-----------------------------------------------------------------------------
(* Helpers *)

Stopped(c) == c # Nothing /\ (c.rateLimited \/ c.unavailable)
StopStatus(c) == IF c.unavailable THEN "provider-unavailable" ELSE "rate-limited"

IsReviewer(c) == c.stage = "reviewer"
ReadOnly(c)   == IsReviewer(c) \/ c.reportOnly

WorkerCheckpoint ==
    [stage |-> "worker", reportOnly |-> FALSE, correction |-> FALSE,
     reemit |-> FALSE, autoFixes |-> 0, workerRisk |-> "LOW", risk |-> "unset",
     rateLimited |-> FALSE, unavailable |-> FALSE, stopParents |-> Nothing]

ReviewCheckpoint(autoFixes, workerRisk, risk) ==
    [WorkerCheckpoint EXCEPT !.stage = "reviewer", !.autoFixes = autoFixes,
                             !.workerRisk = workerRisk, !.risk = risk]

\* The re-emission of a PASS on the HIGH path stores no effective risk.
ReemitCheckpoint(c) ==
    [ReviewCheckpoint(c.autoFixes, c.workerRisk, "unset") EXCEPT !.reemit = TRUE]

\* Variant: one automatic fix counts as two.
AutoFixCheckpointSkips(c, packetOnly) ==
    [WorkerCheckpoint EXCEPT !.stage = "auto-fix", !.autoFixes = c.autoFixes + 2,
                             !.reportOnly = packetOnly]

AutoFixCheckpoint(c, packetOnly) ==
    [WorkerCheckpoint EXCEPT !.stage = "auto-fix", !.autoFixes = c.autoFixes + 1,
                             !.reportOnly = packetOnly]

\* Variant: the stop of an outage that it replaces stays marked.
RateLimitStopKeepsOutage(c) ==
    [c EXCEPT !.rateLimited = TRUE, !.stopParents = repo.parents]

\* Both stops record the parent metadata as it is when the stop is saved.
RateLimitStop(c) ==
    [c EXCEPT !.rateLimited = TRUE, !.unavailable = FALSE,
              !.stopParents = repo.parents]
UnavailableStop(c) ==
    [c EXCEPT !.unavailable = TRUE, !.rateLimited = FALSE,
              !.stopParents = repo.parents]

\* Variants: only the older stop is cleared; a correction is not marked.
ClearedRateLimit(c) == [c EXCEPT !.rateLimited = FALSE]
CorrectedAgain(c)   == c

\* The stop a resume puts back, the call it makes, the call as it is saved, and
\* the one repeated correction of a result.
Restored(c)  == [c EXCEPT !.stopParents = repo.parents]
Cleared(c)   == [c EXCEPT !.rateLimited = FALSE, !.unavailable = FALSE]
Saved(c)     == IF IsReviewer(c) THEN [c EXCEPT !.stopParents = Nothing] ELSE c
Corrected(c) == [c EXCEPT !.correction = TRUE]

\* What resolving the ACTIVE task of the plan gives.
ResolvedTask ==
    CASE repo.parents.plan = "absent" -> "none"
      [] repo.parents.plan = "wired" /\ repo.parents.task # Nothing -> "set"
      [] OTHER -> "unresolvable"

\* A task already fixed in the state directory is never resolved again.
ActiveTask == IF active = "unset" THEN ResolvedTask ELSE active

\* A worker call is refused when the metadata it must keep is already missing.
GuardRefuses(c) ==
    /\ ~IsReviewer(c)
    /\ IF repo.parents.plan = "absent"
       THEN MetadataTracked
       ELSE /\ repo.parents.task = Nothing
            /\ MetadataTracked \/ active = "set"

\* With no plan at the start, only the creation of a plan is a violation.
GuardViolated ==
    /\ guard # Nothing
    /\ IF guard.plan = "absent"
       THEN repo.parents.plan # "absent"
       ELSE repo.parents # guard

\* Variants: an answered decision, or an earlier review, is forgotten.
HighRiskWithoutDecision(workerRisk, autoFixes, selfProtected) ==
    workerRisk = "HIGH" \/ autoFixes > 0 \/ lastReview \/ selfProtected
HighRiskWithoutReview(workerRisk, autoFixes, selfProtected) ==
    workerRisk = "HIGH" \/ autoFixes > 0 \/ lastDecision \/ selfProtected

\* The risk the wrapper computes: selfProtected is the outcome of classifying
\* the changed paths, where a failed classification counts as a hit.
HighRisk(workerRisk, autoFixes, selfProtected) ==
    workerRisk = "HIGH" \/ autoFixes > 0 \/ lastDecision \/ lastReview
                        \/ selfProtected

\* Variant: a failed classification counts as no hit, and so does a hit.
SelfProtectionIgnored == {FALSE}

SelfProtection == IF repo.code \in CriticalCodes THEN {TRUE} ELSE BOOLEAN

\* Variants: the code, or what the metadata was at the stop, is not compared.
AcceptableAnyCode ==
    /\ cp.stopParents = reviewStart.parents
    /\ cp.stopParents.plan # "absent" => repo.parents.plan # "absent"
    /\ cp.stopParents.task # Nothing => repo.parents.task # Nothing
AcceptableAnyMetadata ==
    /\ repo.code = reviewStart.code
    /\ cp.stopParents.plan # "absent" => repo.parents.plan # "absent"
    /\ cp.stopParents.task # Nothing => repo.parents.task # Nothing

\* The change since review start touches only parent metadata, and all of it
\* was made after the stop was saved; a removed file is never accepted.
AcceptableParentDelta ==
    /\ repo.code = reviewStart.code
    /\ cp.stopParents = reviewStart.parents
    /\ cp.stopParents.plan # "absent" => repo.parents.plan # "absent"
    /\ cp.stopParents.task # Nothing => repo.parents.task # Nothing

(* How a command leaves its current step.  Leaving runModel with a plain   *)
(* error ends the command, except that --resume first restores the stop.   *)
Leave(label, kept, still) ==
    /\ pc' = label
    /\ prev' = kept
    /\ resuming' = still
    /\ cp' = Nothing /\ guard' = Nothing /\ result' = Nothing /\ probes' = 0

\* Variant: failing closed leaves the checkpoint behind.
FailClosedKeepsStop ==
    Leave("fc-status", IF resuming THEN prev ELSE Nothing, resuming)

End        == Leave("idle", Nothing, FALSE)
Failed     == IF resuming THEN Leave("restore", prev, FALSE) ELSE End
FailClosed == Leave("fc-clear", IF resuming THEN prev ELSE Nothing, resuming)

Goto(label) == pc' = label /\ UNCHANGED locals

\* runModel with the given checkpoint.
Call(c) == /\ pc' = "begin"
           /\ cp' = c
           /\ guard' = Nothing /\ result' = Nothing /\ probes' = 0

CallRecorded == unrecorded' = unrecorded - 1
Fault        == faults < MaxFaults /\ faults' = faults + 1 /\ UNCHANGED <<edits, moved>>
InFlight     == unrecorded > 0

-----------------------------------------------------------------------------
(* Starting a command *)

Init ==
    /\ taskID = FALSE /\ status = "none" /\ pending = FALSE
    /\ lastDecision = FALSE /\ lastReview = FALSE /\ active = "unset"
    /\ ckpt = Nothing
    /\ workerEnd = Nothing /\ reviewStart = Nothing /\ reportStart = Nothing
    /\ repo \in Repo
    /\ pc = "idle"
    /\ cp = Nothing /\ prev = Nothing /\ guard = Nothing /\ result = Nothing
    /\ probes = 0 /\ resuming = FALSE
    /\ unrecorded = 0
    /\ edits = 0 /\ faults = 0 /\ moved = 0

\* A new task is refused while a decision is pending or a stop can be resumed.
\* StartNewTask first removes the identity of the previous task...
StartNewTask ==
    /\ pc = "idle"
    /\ ~pending
    /\ ~Stopped(ckpt)
    /\ taskID' = FALSE
    /\ pc' = "new-status"
    /\ UNCHANGED <<status, pending, lastDecision, lastReview, active, ckpt, snaps,
                   repo, locals, unrecorded, budget>>

\* ... then its status and its snapshots.
RemovePreviousTask ==
    /\ pc = "new-status"
    /\ status' = "none"
    /\ workerEnd' = Nothing /\ reviewStart' = Nothing /\ reportStart' = Nothing
    /\ Goto("new-activate")
    /\ UNCHANGED <<taskID, pending, lastDecision, lastReview, active, ckpt, repo,
                   unrecorded, budget>>

ActivateNewTask ==
    /\ pc = "new-activate"
    /\ taskID' = TRUE /\ status' = "active"
    /\ pc' = "new-forget"
    /\ UNCHANGED <<pending, lastDecision, lastReview, active, ckpt, snaps, repo,
                   locals, unrecorded, budget>>

\* The answers and the ACTIVE task of the previous task are forgotten.
ForgetPreviousTask ==
    /\ pc = "new-forget"
    /\ lastDecision' = FALSE /\ lastReview' = FALSE /\ active' = "unset"
    /\ pc' = "ensure" /\ cp' = WorkerCheckpoint
    /\ UNCHANGED <<taskID, status, pending, ckpt, snaps, repo,
                   prev, guard, result, probes, resuming, unrecorded, budget>>

StartDecision ==
    /\ pc = "idle"
    /\ status = "waiting-decision"
    /\ pending
    /\ lastDecision' = TRUE
    /\ pc' = "decide"
    /\ UNCHANGED <<taskID, status, pending, lastReview, active, ckpt, snaps,
                   repo, locals, unrecorded, budget>>

ActivateDecision ==
    /\ pc = "decide"
    /\ status' = "active"
    /\ pc' = "ensure" /\ cp' = WorkerCheckpoint
    /\ UNCHANGED <<taskID, pending, lastDecision, lastReview, active, ckpt,
                   snaps, repo, prev, guard, result, probes, resuming,
                   unrecorded, budget>>

StartExplicitFix ==
    /\ pc = "idle"
    /\ ~pending
    /\ status = "waiting-sol-review"
    /\ status' = "active"
    /\ pc' = "ensure" /\ cp' = WorkerCheckpoint
    /\ UNCHANGED <<taskID, pending, lastDecision, lastReview, active, ckpt,
                   snaps, repo, prev, guard, result, probes, resuming,
                   unrecorded, budget>>

\* The ACTIVE task is fixed before the prompt of a worker call is built.
EnsureActiveTask ==
    /\ pc = "ensure"
    /\ IF ActiveTask = "unresolvable"
       THEN FailClosed /\ UNCHANGED active
       ELSE /\ active' = ActiveTask
            /\ Goto(IF cp.reportOnly THEN "report-start" ELSE "begin")
    /\ UNCHANGED <<taskID, status, pending, lastDecision, lastReview, ckpt,
                   snaps, repo, unrecorded, budget>>

-----------------------------------------------------------------------------
(* --resume *)

\* The flags of the stop stay on the checkpoint until the gates are passed.
StartResume ==
    /\ pc = "idle"
    /\ Stopped(ckpt)
    /\ status' = "active"
    /\ cp' = ckpt /\ prev' = ckpt
    /\ pc' = "resume-gate"
    /\ UNCHANGED <<taskID, pending, lastDecision, lastReview, active, ckpt,
                   snaps, repo, guard, result, probes, resuming, unrecorded, budget>>

\* The flags are cleared and the saved call is made again.
ResumeCall ==
    /\ pc' = "begin"
    /\ cp' = Cleared(cp)
    /\ resuming' = TRUE
    /\ probes' = 0
    /\ UNCHANGED <<prev, guard, result>>

AfterProbeGate ==
    IF IsReviewer(cp) THEN /\ pc' = "resume-check"
                           /\ probes' = 0
                           /\ UNCHANGED <<cp, prev, guard, result, resuming>>
                      ELSE ResumeCall

\* A report-only call needs its baseline; a provider stop needs a probe first.
ResumeGate ==
    /\ pc = "resume-gate"
    /\ IF cp.reportOnly /\ reportStart = Nothing THEN FailClosed
       ELSE IF cp.unavailable THEN Goto("probe") ELSE AfterProbeGate
    /\ UNCHANGED <<files, ckpt, snaps, repo, unrecorded, budget>>

\* The repository is compared with what the stopped reviewer was given.  An
\* accepted update of the parent metadata becomes the new baseline.
VerifyReviewResume ==
    /\ pc = "resume-check"
    /\ \/ repo = reviewStart /\ ResumeCall /\ UNCHANGED reviewStart
       \/ /\ reviewStart # Nothing /\ repo # reviewStart /\ AcceptableParentDelta
          /\ reviewStart' = repo
          /\ ResumeCall
       \/ /\ reviewStart = Nothing \/ (repo # reviewStart /\ ~AcceptableParentDelta)
          /\ FailClosed
          /\ UNCHANGED reviewStart
    /\ UNCHANGED <<files, ckpt, workerEnd, reportStart, repo, unrecorded, budget>>

\* The saved call of a resume failed with a plain error: the stop it resumed is
\* put back unless another stop is already saved.
RestoreStop ==
    /\ pc = "restore"
    /\ ckpt' = IF Stopped(ckpt) THEN ckpt
               ELSE Restored(prev)
    /\ Goto("restore-status")
    /\ UNCHANGED <<files, snaps, repo, unrecorded, budget>>

RestoreStopStatus ==
    /\ pc = "restore-status"
    /\ status' = StopStatus(ckpt)
    /\ End
    /\ UNCHANGED <<taskID, pending, lastDecision, lastReview, active, ckpt,
                   snaps, repo, unrecorded, budget>>

-----------------------------------------------------------------------------
(* One model call *)

\* The checkpoint is saved before the call, and a review drops the metadata
\* state of an earlier stop from it.  A repeated call of a recovery
\* (probes > 0) saves nothing.
BeginCall ==
    /\ pc = "begin"
    /\ ~GuardRefuses(cp)
    /\ IsReviewer(cp) \/ taskID
    /\ cp' = IF probes = 0 THEN Saved(cp) ELSE cp
    /\ ckpt' = IF probes = 0 THEN cp' ELSE ckpt
    /\ guard' = IF IsReviewer(cp) THEN Nothing ELSE repo.parents
    /\ unrecorded' = unrecorded + 1
    /\ pc' = "call"
    /\ UNCHANGED <<files, snaps, repo, prev, result, probes, resuming,
                   budget>>

BeginRefused ==
    /\ pc = "begin"
    /\ IsReviewer(cp) \/ taskID
    /\ GuardRefuses(cp)
    /\ FailClosed
    /\ UNCHANGED <<files, ckpt, snaps, repo, unrecorded, budget>>

\* No artifact directory without a task id, or the checkpoint is not saved.
BeginFails ==
    /\ pc = "begin"
    /\ \/ ~IsReviewer(cp) /\ ~taskID /\ UNCHANGED budget
       \/ probes = 0 /\ Fault
    /\ Failed
    /\ UNCHANGED <<files, ckpt, snaps, repo, unrecorded>>

\* The agent changes the repository while it works.
WorkerEdits ==
    /\ pc = "call"
    /\ ~ReadOnly(cp)
    /\ \E c \in Codes \ {repo.code} : repo' = [repo EXCEPT !.code = c]
    /\ UNCHANGED <<files, ckpt, snaps, pc, locals, unrecorded, budget>>

\* The metadata differs after the call, or cannot be read again.
CallViolatesGuard ==
    /\ pc = "call"
    /\ \/ GuardViolated /\ UNCHANGED budget
       \/ guard # Nothing /\ Fault
    /\ CallRecorded
    /\ FailClosed
    /\ UNCHANGED <<files, ckpt, snaps, repo>>

\* The checkpoint is removed before the result is read.
CallSucceeds ==
    /\ pc = "call"
    /\ ~GuardViolated
    /\ taskID
    /\ \E r \in IF IsReviewer(cp) THEN ReviewerResults ELSE WorkerResults :
          result' = r
    /\ CallRecorded
    /\ ckpt' = Nothing
    /\ pc' = IF IsReviewer(cp) THEN "review-end"
             ELSE IF cp.reportOnly THEN "report-end" ELSE "worker-result"
    /\ prev' = IF IsReviewer(cp) THEN prev ELSE Nothing
    /\ resuming' = FALSE /\ guard' = Nothing /\ probes' = 0
    /\ UNCHANGED <<files, snaps, repo, cp, budget>>

\* A result that breaks a constraint of its contract is asked for once more.
CallBreaksContract ==
    /\ pc = "call"
    /\ ~GuardViolated
    /\ taskID
    /\ CallRecorded
    /\ ckpt' = Nothing
    /\ \/ ~cp.correction /\ Call(Corrected(cp))
                         /\ UNCHANGED <<prev, resuming>>
       \/ Failed
    /\ UNCHANGED <<files, snaps, repo, budget>>

\* Authentication, configuration, a broken session, no structured output.
CallFails ==
    /\ pc = "call"
    /\ ~GuardViolated
    /\ CallRecorded
    /\ ckpt' = Nothing
    /\ Failed
    /\ UNCHANGED <<files, snaps, repo, budget>>

\* The artifact directory cannot be secured: the checkpoint stays.
CallStateError ==
    /\ pc = "call"
    /\ ~GuardViolated
    /\ \/ ~taskID /\ UNCHANGED budget
       \/ Fault
    /\ CallRecorded
    /\ Failed
    /\ UNCHANGED <<files, ckpt, snaps, repo>>

\* The 5h limit of the provider.  The call is recorded after the stop is saved.
CallRateLimited ==
    /\ pc = "call"
    /\ ~GuardViolated
    /\ ckpt' = RateLimitStop(cp)
    /\ Goto("stop-status")
    /\ UNCHANGED <<files, snaps, repo, unrecorded, budget>>

\* An outage of the provider: the call is recorded and the recovery begins.
CallTransient ==
    /\ pc = "call"
    /\ ~GuardViolated
    /\ CallRecorded
    /\ pc' = "probe" /\ guard' = Nothing
    /\ UNCHANGED <<files, ckpt, snaps, repo, cp, prev, result, probes,
                   resuming, budget>>

-----------------------------------------------------------------------------
(* Recovery from an outage, in a call or before a resumed one *)

\* Only a checkpoint whose provider stop is not yet cleared is at the gate.
AtGate == cp.unavailable

\* A transient failure of the probe, or an answer that breaks its contract.
ProbeContinues ==
    /\ pc = "probe"
    /\ probes < MaxProbes
    /\ probes' = probes + 1
    /\ UNCHANGED <<files, ckpt, snaps, repo, pc, cp, prev, guard, result,
                   resuming, unrecorded, budget>>

ProbeSucceeds ==
    /\ pc = "probe"
    /\ probes < MaxProbes
    /\ IF AtGate
       THEN AfterProbeGate
       ELSE /\ probes' = probes + 1
            /\ pc' = "begin"
            /\ UNCHANGED <<cp, prev, guard, result, resuming>>
    /\ UNCHANGED <<files, ckpt, snaps, repo, unrecorded, budget>>

ProbeRateLimited ==
    /\ pc = "probe"
    /\ probes < MaxProbes
    /\ ckpt' = RateLimitStop(cp)
    /\ pc' = "stop-status" /\ probes' = probes + 1
    /\ UNCHANGED <<files, snaps, repo, cp, prev, guard, result, resuming,
                   unrecorded, budget>>

\* At the gate a fatal answer removes the checkpoint; in a call the artifact
\* directory is secured first, and when it cannot be the checkpoint stays.
ProbeFatal ==
    /\ pc = "probe"
    /\ probes < MaxProbes
    /\ \/ (AtGate \/ taskID) /\ ckpt' = Nothing /\ UNCHANGED budget
       \/ ~AtGate /\ ~taskID /\ UNCHANGED <<ckpt, budget>>
       \/ ~AtGate /\ Fault /\ UNCHANGED ckpt
    /\ Failed
    /\ UNCHANGED <<files, snaps, repo, unrecorded>>

\* The probes are used up, or the deadline passed first: the wait can run over
\* it at any round, but the first probe of the gate comes without a wait.
RecoveryExhausted ==
    /\ pc = "probe"
    /\ ~AtGate \/ probes > 0
    /\ ckpt' = UnavailableStop(cp)
    /\ Goto("stop-status")
    /\ UNCHANGED <<files, snaps, repo, unrecorded, budget>>

-----------------------------------------------------------------------------
(* Saving a stop: checkpoint, then status, then the report *)

InRecovery == ckpt.unavailable \/ probes > 0

SaveStopStatus ==
    /\ pc = "stop-status"
    /\ status' = StopStatus(ckpt)
    /\ Goto("stop-report")
    /\ UNCHANGED <<taskID, pending, lastDecision, lastReview, active, ckpt,
                   snaps, repo, unrecorded, budget>>

ReportStop ==
    /\ pc = "stop-report"
    /\ taskID \/ ckpt.unavailable
    /\ IF InFlight THEN CallRecorded ELSE UNCHANGED unrecorded
    /\ End
    /\ UNCHANGED <<files, ckpt, snaps, repo, budget>>

\* A fatal end removes the saved stop within a recovery, and not when it is one
\* of a call whose artifact directory cannot be secured either.
StopKept == ~InRecovery \/ (~AtGate /\ ~taskID)

\* Variant: the call that met the limit is not recorded.
StopFailsUnrecorded ==
    /\ \/ pc = "stop-status" /\ Fault
       \/ pc = "stop-report" /\ ~taskID /\ ~ckpt.unavailable /\ UNCHANGED budget
    /\ ckpt' = IF StopKept THEN ckpt ELSE Nothing
    /\ Failed
    /\ UNCHANGED <<files, snaps, repo, unrecorded>>

\* The status cannot be written, or the task has no id to report: within a
\* recovery the error counts as fatal and may take the saved stop with it.
StopFails ==
    /\ \/ pc = "stop-status" /\ Fault
       \/ pc = "stop-report" /\ ~taskID /\ ~ckpt.unavailable /\ UNCHANGED budget
    /\ IF InFlight THEN CallRecorded ELSE UNCHANGED unrecorded
    /\ ckpt' = IF StopKept THEN ckpt ELSE Nothing
    /\ Failed
    /\ UNCHANGED <<files, snaps, repo>>

-----------------------------------------------------------------------------
(* Failing closed: the checkpoint goes first, then Sol is asked *)

FailClosedClear ==
    /\ pc = "fc-clear"
    /\ ckpt' = Nothing
    /\ Goto("fc-status")
    /\ UNCHANGED <<files, snaps, repo, unrecorded, budget>>

FailClosedStatus ==
    /\ pc = "fc-status"
    /\ status' = "waiting-sol-review"
    /\ End
    /\ UNCHANGED <<taskID, pending, lastDecision, lastReview, active, ckpt,
                   snaps, repo, unrecorded, budget>>

FailClosedFails ==
    /\ pc \in {"fc-clear", "fc-status"}
    /\ Fault
    /\ Failed
    /\ UNCHANGED <<files, ckpt, snaps, repo, unrecorded>>

-----------------------------------------------------------------------------
(* Results of the worker *)

WorkerAsksSol ==
    /\ pc = "worker-result"
    /\ result.status = "NEEDS_SOL_DECISION"
    /\ pending' = TRUE
    /\ Goto("await")
    /\ UNCHANGED <<taskID, status, lastDecision, lastReview, active, ckpt,
                   snaps, repo, unrecorded, budget>>

AwaitDecision ==
    /\ pc = "await"
    /\ status' = "waiting-decision"
    /\ End
    /\ UNCHANGED <<taskID, pending, lastDecision, lastReview, active, ckpt,
                   snaps, repo, unrecorded, budget>>

WorkerImplemented ==
    /\ pc = "worker-result"
    /\ result.status = "IMPLEMENTED"
    /\ pending' = FALSE /\ status' = "active"
    /\ Goto("review-prep")
    /\ UNCHANGED <<taskID, lastDecision, lastReview, active, ckpt, snaps, repo,
                   unrecorded, budget>>

-----------------------------------------------------------------------------
(* The review *)

\* The state the worker left is saved first; the changed paths its risk depends
\* on are listed afterwards, and the repository is not locked in between.
CaptureWorkerEnd ==
    /\ pc = "review-prep"
    /\ workerEnd' = repo
    /\ moved' = 0
    /\ Goto("review-risk")
    /\ UNCHANGED <<files, ckpt, reviewStart, reportStart, repo, unrecorded,
                   edits, faults>>

ComputeEffectiveRisk ==
    /\ pc = "review-risk"
    /\ \E sp \in SelfProtection :
          LET high == HighRisk(result.risk, cp.autoFixes, sp)
          IN  cp' = ReviewCheckpoint(cp.autoFixes, result.risk,
                                     IF high THEN "HIGH" ELSE "LOW")
    /\ pc' = "review-active" /\ result' = Nothing
    /\ UNCHANGED <<files, ckpt, snaps, repo, prev, guard, probes, resuming,
                   unrecorded, budget>>

\* The reviewer's prompt names the ACTIVE task.
EnsureReviewTask ==
    /\ pc = "review-active"
    /\ IF ActiveTask = "unresolvable"
       THEN FailClosed /\ UNCHANGED active
       ELSE active' = ActiveTask /\ Goto("review-start")
    /\ UNCHANGED <<taskID, status, pending, lastDecision, lastReview, ckpt,
                   snaps, repo, unrecorded, budget>>

VerifyReviewStart ==
    /\ pc = "review-start"
    /\ reviewStart' = repo
    /\ IF repo = workerEnd THEN Goto("begin") ELSE FailClosed
    /\ UNCHANGED <<files, ckpt, workerEnd, reportStart, repo, unrecorded, budget>>

\* Only NEEDS_SOL_REVIEW is taken from a re-emission.
ForcedReview == [status |-> "NEEDS_SOL_REVIEW", packetOnly |-> FALSE]

AdoptReview(r) ==
    /\ result' = r
    /\ pc' = "record-review" /\ prev' = Nothing
    /\ UNCHANGED <<cp, guard, probes, resuming>>

\* A resumed review (prev is set) keeps a saved HIGH and computes a saved LOW
\* again.  A PASS on the HIGH path is sent back to the reviewer.
EffectiveHigh(selfProtected) ==
    \/ cp.risk = "HIGH"
    \/ prev # Nothing /\ HighRisk(cp.workerRisk, cp.autoFixes, selfProtected)

VerifyReviewEnd ==
    /\ pc = "review-end"
    /\ IF repo = reviewStart THEN Goto("review-floor") ELSE FailClosed
    /\ UNCHANGED <<files, ckpt, snaps, repo, unrecorded, budget>>

EnforceRiskFloor ==
    /\ pc = "review-floor"
    /\ IF cp.reemit
       THEN AdoptReview(IF result.status = "NEEDS_SOL_REVIEW"
                        THEN result ELSE ForcedReview)
       ELSE \E sp \in SelfProtection :
               IF EffectiveHigh(sp) /\ result.status = "PASS"
               THEN Call(ReemitCheckpoint(cp)) /\ prev' = Nothing
                                               /\ UNCHANGED resuming
               ELSE AdoptReview(result)
    /\ UNCHANGED <<files, ckpt, snaps, repo, unrecorded, budget>>

RecordReview ==
    /\ pc = "record-review"
    /\ lastReview' = TRUE
    /\ Goto("review-result")
    /\ UNCHANGED <<taskID, status, pending, lastDecision, active, ckpt, snaps,
                   repo, unrecorded, budget>>

Finish(s) ==
    /\ status' = s
    /\ End
    /\ UNCHANGED <<taskID, pending, lastDecision, lastReview, active, ckpt,
                   snaps, repo, unrecorded, budget>>

ReviewPasses ==
    /\ pc = "review-result"
    /\ result.status = "PASS"
    /\ Finish("complete")

ReviewNeedsSol ==
    /\ pc = "review-result"
    /\ \/ result.status = "NEEDS_SOL_REVIEW"
       \/ result.status = "FIX_REQUIRED" /\ cp.autoFixes >= MaxAutoFixRounds
    /\ Finish("waiting-sol-review")

\* A fix of the packet alone is a report-only call of a read-only worker.
AutoFix ==
    /\ pc = "review-result"
    /\ result.status = "FIX_REQUIRED"
    /\ cp.autoFixes < MaxAutoFixRounds
    /\ cp' = AutoFixCheckpoint(cp, result.packetOnly)
    /\ pc' = "ensure" /\ result' = Nothing
    /\ UNCHANGED <<files, ckpt, snaps, repo, prev, guard, probes, resuming,
                   unrecorded, budget>>

SaveReportStart ==
    /\ pc = "report-start"
    /\ reportStart' = repo
    /\ Goto("begin")
    /\ UNCHANGED <<files, ckpt, workerEnd, reviewStart, repo, unrecorded, budget>>

\* Variant: only the code is compared.
VerifyReportEndCode ==
    /\ pc = "report-end"
    /\ IF repo.code = reportStart.code THEN Goto("worker-result") ELSE FailClosed
    /\ UNCHANGED <<files, ckpt, snaps, repo, unrecorded, budget>>

VerifyReportEnd ==
    /\ pc = "report-end"
    /\ IF repo = reportStart THEN Goto("worker-result") ELSE FailClosed
    /\ UNCHANGED <<files, ckpt, snaps, repo, unrecorded, budget>>

\* A snapshot or the parent metadata cannot be read or saved.
CaptureFails ==
    /\ \/ pc \in {"resume-check", "review-prep", "review-start", "review-end",
                  "report-start", "report-end"}
       \/ pc \in {"ensure", "review-active"} /\ active = "unset"
       \/ pc = "resume-gate" /\ cp.reportOnly
       \/ pc = "begin" /\ ~IsReviewer(cp) /\ taskID
    /\ Fault
    /\ FailClosed
    /\ UNCHANGED <<files, ckpt, snaps, repo, unrecorded>>

-----------------------------------------------------------------------------
(* --reset removes the files of the task one by one *)

StartReset ==
    /\ pc = "idle"
    /\ taskID' = FALSE
    /\ pc' = "reset-status"
    /\ UNCHANGED <<status, pending, lastDecision, lastReview, active, ckpt, snaps,
                   repo, locals, unrecorded, budget>>

\* Variant: the status outlives the question it waits for.
ResetStatusKept ==
    /\ pc = "reset-status"
    /\ active' = "unset"
    /\ Goto("reset-decision")
    /\ UNCHANGED <<taskID, status, pending, lastDecision, lastReview, ckpt, snaps,
                   repo, unrecorded, budget>>

ResetStatus ==
    /\ pc = "reset-status"
    /\ status' = "none" /\ active' = "unset"
    /\ Goto("reset-decision")
    /\ UNCHANGED <<taskID, pending, lastDecision, lastReview, ckpt, snaps, repo,
                   unrecorded, budget>>

ResetDecision ==
    /\ pc = "reset-decision"
    /\ lastDecision' = FALSE /\ pending' = FALSE
    /\ Goto("reset-rest")
    /\ UNCHANGED <<taskID, status, lastReview, active, ckpt, snaps, repo,
                   unrecorded, budget>>

ResetRest ==
    /\ pc = "reset-rest"
    /\ lastReview' = FALSE
    /\ ckpt' = Nothing
    /\ workerEnd' = Nothing /\ reviewStart' = Nothing /\ reportStart' = Nothing
    /\ End
    /\ UNCHANGED <<taskID, status, pending, lastDecision, active, repo,
                   unrecorded, budget>>

-----------------------------------------------------------------------------
(* The environment *)

\* The process dies; the operating system releases its lock.
Crash ==
    /\ pc # "idle"
    /\ Fault
    /\ unrecorded' = 0
    /\ End
    /\ UNCHANGED <<files, ckpt, snaps, repo>>

PreparingReview == pc \in {"review-risk", "review-active", "review-start"}

\* The parent agent, the user or a misbehaving model changes the repository.
Edit ==
    /\ edits < MaxEdits
    /\ \E r \in Repo \ {repo} : repo' = r
    /\ edits' = edits + 1
    /\ moved' = IF PreparingReview THEN moved + 1 ELSE moved
    /\ UNCHANGED <<files, ckpt, snaps, pc, locals, unrecorded, faults>>

-----------------------------------------------------------------------------

Commands == \/ StartNewTask \/ StartDecision \/ StartExplicitFix
            \/ StartResume \/ StartReset

ResumeStep == ResumeGate \/ VerifyReviewResume \/ RestoreStop \/ RestoreStopStatus
CallStep == \/ BeginCall \/ BeginRefused \/ BeginFails
            \/ CallViolatesGuard \/ CallSucceeds \/ CallBreaksContract
            \/ CallFails \/ CallStateError \/ CallRateLimited \/ CallTransient
ProbeStep == \/ ProbeContinues \/ ProbeSucceeds \/ ProbeRateLimited
             \/ ProbeFatal \/ RecoveryExhausted
StopStep == SaveStopStatus \/ ReportStop \/ StopFails
FailClosedStep == FailClosedClear \/ FailClosedStatus \/ FailClosedFails
ResultStep == WorkerAsksSol \/ AwaitDecision \/ WorkerImplemented
ReviewStep == \/ CaptureWorkerEnd \/ ComputeEffectiveRisk \/ EnsureReviewTask
              \/ VerifyReviewStart \/ VerifyReviewEnd \/ EnforceRiskFloor
              \/ RecordReview \/ ReviewPasses \/ ReviewNeedsSol \/ AutoFix
              \/ SaveReportStart \/ VerifyReportEnd \/ CaptureFails
CommandStep == \/ RemovePreviousTask \/ ActivateNewTask \/ ForgetPreviousTask
               \/ ActivateDecision \/ EnsureActiveTask
               \/ ResetStatus \/ ResetDecision \/ ResetRest

\* What the running command does, and what is done to it.
Step == \/ CommandStep \/ ResumeStep \/ CallStep \/ ProbeStep \/ StopStep
        \/ FailClosedStep \/ ResultStep \/ ReviewStep
Next == Commands \/ Step \/ WorkerEdits \/ Crash \/ Edit

Spec == Init /\ [][Next]_vars

\* The process is scheduled.  Nothing ends a call or a probe that does not answer:
\* both wait for a child process without a time limit.
Awaiting == pc \in {"call", "probe"}
FairSpec == Spec /\ WF_vars(Step /\ ~Awaiting)

-----------------------------------------------------------------------------
(* Properties *)

FilesType ==
    /\ taskID \in BOOLEAN /\ status \in Statuses
    /\ pending \in BOOLEAN /\ lastDecision \in BOOLEAN /\ lastReview \in BOOLEAN
    /\ active \in {"unset", "none", "set"}
    /\ ckpt \in Checkpoint \cup {Nothing}

RepositoryType ==
    /\ workerEnd \in Repo \cup {Nothing}
    /\ reviewStart \in Repo \cup {Nothing}
    /\ reportStart \in Repo \cup {Nothing}
    /\ repo \in Repo

LocalsType ==
    /\ pc \in Labels
    /\ cp \in Checkpoint \cup {Nothing} /\ prev \in Checkpoint \cup {Nothing}
    /\ guard \in ParentStates \cup {Nothing}
    /\ result \in WorkerResults \cup ReviewerResults \cup {Nothing}
    /\ probes \in 0 .. MaxProbes /\ resuming \in BOOLEAN

CountersType ==
    /\ unrecorded \in Int /\ moved \in Nat
    /\ edits \in 0 .. MaxEdits /\ faults \in 0 .. MaxFaults

\* Every variable has its type.
TypeOK == FilesType /\ RepositoryType /\ LocalsType /\ CountersType

\* A task that asked Sol something, or that is complete, cannot be continued by
\* --resume: on every path that writes such a status the checkpoint of the stop
\* is gone first, whatever call, resume, reset or crash came before
\* (failClosedStopped, runModel, handleReviewResult, handleWorkerResult).
Terminal == {"waiting-decision", "waiting-sol-review", "complete"}
TerminalNotResumable == status \in Terminal => ~Stopped(ckpt)

\* A task that waits for a decision has the pending question --decision asks
\* for; the marker is written before the status and removed after it.
WaitingDecisionHasQuestion == status = "waiting-decision" => pending

\* Between commands, and as long as nothing failed, the status names the stop
\* the checkpoint holds: what --status and --watch show is what --resume finds,
\* through stops in calls, in recoveries, at the probe gate and in a resume.
StoppedStatusCoherent ==
    (pc = "idle" /\ faults = 0) =>
        /\ status = "rate-limited" <=> ckpt # Nothing /\ ckpt.rateLimited
        /\ status = "provider-unavailable" <=> ckpt # Nothing /\ ckpt.unavailable

\* Every call the statistics count is in the call log exactly once when the
\* command ends, in every ending of a call, a recovery or a stop; a recovery's
\* fatal end records nothing twice and a probe's stop records no call.
CallsRecordedOnce == pc = "idle" => unrecorded = 0

\* What a LOW of the wrapper is worth: Sol decided nothing, and code that touches
\* critical paths was changed away from and back to while its review was prepared.
NotHighRisk == /\ ~lastDecision
               /\ workerEnd # Nothing
               /\ workerEnd.code \in CriticalCodes => moved >= 2

\* A task that took a decision of Sol is never completed by a reviewer's PASS
\* alone; nor is one whose last worker left changes of critical paths, unless
\* others changed the repository at least twice between the snapshot of the
\* worker's end and the one that starts the review.  The listing of the paths is
\* a read between the two (reviewUntilStable): one edit never hides them, and
\* what is found is kept through stops, re-emissions and resumes.
NoHighRiskCompletion ==
    status = "complete" => NotHighRisk

\* README.md:180: the wrapper's own classification of changed paths does not let
\* a reviewer's PASS complete changes of critical paths.
CriticalChangesGoToSol ==
    status = "complete" => workerEnd.code \notin CriticalCodes

\* A verdict is used only when it is about the code the last worker left:
\* whatever was edited before, during or between the stops of a review, the
\* review goes on from its end only while the code is workerEnd's.
VerdictIsForWorkersCode ==
    [][pc = "review-end" /\ pc' = "review-floor"
          => workerEnd # Nothing /\ repo.code = workerEnd.code]_vars

\* Every command ends, unless it waits for ever for an answer to one call or
\* recovery: calls are corrected once, recoveries are bounded and automatic fixes
\* are counted, so that no sequence of answers keeps a command going.
CommandTerminates == pc # "idle" ~> (pc = "idle" \/ []Awaiting)

\* Why the two invariants above hold, step by step: where the locals of the
\* command are set, which positions have no stop on disk, that no running
\* command shows a terminal status, and which call is not yet recorded.
Calling == {"ensure", "report-start", "begin", "call", "probe", "stop-status",
            "stop-report", "resume-gate", "resume-check"}
WorkerDone == {"report-end", "worker-result", "await", "review-prep", "review-risk"}
ReviewReady == {"review-active", "review-start"}
ReviewDone == {"review-end", "review-floor", "record-review", "review-result"}

LocalsSet ==
    /\ pc \in Calling \cup WorkerDone \cup ReviewReady \cup ReviewDone
          => cp \in Checkpoint
    /\ pc \in WorkerDone => result \in WorkerResults
    /\ pc \in ReviewDone => result \in ReviewerResults

\* The flags of a stop are on the local checkpoint only before the gates of a
\* resume are passed, which is also what tells the two recoveries apart, and the
\* resumed call is over when its result is read.
FlagsCleared ==
    /\ pc \in {"ensure", "report-start", "begin", "call"} \cup ReviewReady
          => ~Stopped(cp)
    /\ pc = "probe" => IF cp.unavailable THEN Stopped(prev) ELSE ~Stopped(cp)
    /\ pc \in {"restore", "resume-gate", "resume-check"} \/ resuming
          => Stopped(prev)
    /\ pc \in ReviewDone => ~resuming

StopOnDisk ==
    /\ pc \in {"stop-status", "stop-report", "restore-status"} => Stopped(ckpt)
    /\ pc \in WorkerDone \cup ReviewReady \cup ReviewDone
                \cup {"fc-status", "new-status"} => ~Stopped(ckpt)

RunningNotTerminal ==
    /\ pc \notin {"idle", "decide", "new-status", "reset-status"}
          => status \notin Terminal
    /\ pc = "await" => pending

CallDebt ==
    /\ pc = "call" => unrecorded = 1
    /\ pc \in {"stop-status", "stop-report"} => unrecorded \in {0, 1}
    /\ pc \notin {"call", "stop-status", "stop-report"} => unrecorded = 0

\* The inductive invariant of the safety proofs (WorkflowProofs).
Positions == LocalsSet /\ FlagsCleared /\ StopOnDisk /\ RunningNotTerminal /\ CallDebt
Claims    == TerminalNotResumable /\ WaitingDecisionHasQuestion
Inductive == TypeOK /\ Positions /\ Claims

\* Why a verdict is for the worker's code and a PASS is never of high risk: what
\* the snapshots and the saved risk of a review say, wherever its checkpoint is.
\* The checkpoint of a stop being resumed is kept until the call is over.
ReviewFounded(c) ==
    IsReviewer(c) => /\ workerEnd # Nothing /\ reviewStart # Nothing
                     /\ reviewStart.code = workerEnd.code
                     /\ c.risk = "unset" => c.reemit
                     /\ c.risk = "LOW" => NotHighRisk

\* Before the start of the review is compared: critical code that was listed as
\* LOW was changed before the listing and, if it is there again, after it.
LowSoFar ==
    /\ ~lastDecision
    /\ workerEnd.code \in CriticalCodes =>
          moved >= 2 \/ (moved = 1 /\ repo # workerEnd)

PrevKept ==
    prev # Nothing => pc \in {"resume-gate", "resume-check", "begin", "call",
                              "probe", "stop-status", "stop-report", "restore",
                              "restore-status", "review-end", "review-floor",
                              "fc-clear", "fc-status"}

ReviewFoundations ==
    /\ PrevKept
    /\ Stopped(ckpt) => ReviewFounded(ckpt)
    /\ prev # Nothing => ReviewFounded(prev)
    /\ pc \in {"resume-gate", "resume-check", "begin", "call", "probe",
               "stop-status", "stop-report", "review-end", "review-floor"}
          => ReviewFounded(cp)
    /\ pc \in {"ensure", "report-start"} => ~IsReviewer(cp)
    /\ pc \in {"review-end", "review-floor"} => IsReviewer(cp)
    /\ PreparingReview => workerEnd # Nothing
    /\ pc = "review-risk" => moved >= 1 \/ repo = workerEnd
    /\ pc \in ReviewReady =>
          /\ IsReviewer(cp) /\ cp.risk # "unset"
          /\ cp.risk = "LOW" => LowSoFar
    /\ pc \in {"record-review", "review-result"} /\ result.status = "PASS"
          => NotHighRisk
    /\ status = "complete" => NotHighRisk

\* What EVAL.md and the refusal of ExecuteNewTask promise of a pending decision:
\* between commands it can be answered by --decision or is part of a stopped
\* task that --resume continues.
PendingDecisionAnswerable ==
    (pc = "idle" /\ faults = 0 /\ pending)
        => status = "waiting-decision" \/ Stopped(ckpt)

=============================================================================
