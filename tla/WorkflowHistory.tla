-------------------------- MODULE WorkflowHistory --------------------------
(***************************************************************************)
(* Workflow with the facts its own state does not keep: what the first    *)
(* stop of a call looked like, whether the probe gate stopped again since, *)
(* which baseline a report-only call began with and whether Sol ordered a *)
(* fix.  The history variables only observe; they guard no action.        *)
(***************************************************************************)
EXTENDS Workflow

VARIABLES
    stoppedWith,   \* the parent metadata when the stop of a call was saved
    restopped,     \* the probe gate of a --resume saved the stop again
    reportBase,    \* the repository the report-only fix first began with
    fixed          \* an explicit fix of this task, and whether a review preceded

history == <<stoppedWith, restopped, reportBase, fixed>>
hvars   == <<vars, history>>

NewStop     == Stopped(ckpt') /\ ~Stopped(ckpt)
GateRestops == pc = "probe" /\ AtGate /\ pc' = "stop-status"

Observe ==
    /\ stoppedWith' = IF NewStop THEN repo.parents ELSE stoppedWith
    /\ restopped' = (GateRestops \/ (restopped /\ ~NewStop))
    /\ reportBase' = CASE pc = "review-result" /\ pc' = "ensure" -> Nothing
                       [] reportBase = Nothing /\ pc = "report-start" /\ pc' = "begin"
                            -> repo
                       [] OTHER -> reportBase
    /\ fixed' = CASE pc' = "new-activate" -> "no"
                  [] pc = "idle" /\ pc' = "ensure" ->
                        IF lastReview THEN "reviewed" ELSE "unreviewed"
                  [] OTHER -> fixed

HInit == /\ Init
         /\ stoppedWith = Nothing /\ restopped = FALSE
         /\ reportBase = Nothing /\ fixed = "no"
HNext == Next /\ Observe
HSpec == HInit /\ [][HNext]_hvars

-----------------------------------------------------------------------------

\* Since the reviewer was given its baseline, nothing but parent metadata
\* changed, all of it after the call had stopped, and nothing was removed.
OnlyParentUpdateWhileStopped ==
    /\ reviewStart # Nothing
    /\ repo.code = reviewStart.code
    /\ stoppedWith = reviewStart.parents
    /\ stoppedWith.plan # "absent" => repo.parents.plan # "absent"
    /\ stoppedWith.task # Nothing => repo.parents.task # Nothing

Refused  == pc = "resume-check" /\ pc' = "fc-clear" /\ faults' = faults
Rebased  == pc = "resume-check" /\ reviewStart' # reviewStart

\* EVAL.md (parent metadata) and verifyReviewResumeSnapshot: an update of the
\* parent metadata made while the task was stopped does not keep the review from
\* being resumed.
ParentUpdatesApproved == [][Refused => ~OnlyParentUpdateWhileStopped]_hvars

\* EVAL.md (parent metadata) and acceptReviewResumeParentDelta: a change of the
\* metadata made during the reviewer's call is never approved as an update made
\* while stopped.
CallChangesRefused == [][Rebased => stoppedWith = reviewStart.parents]_hvars

\* The two rules hold together as long as the probe gate has not saved the stop
\* a second time: exactly the parent's own updates move the review's baseline.
FirstResumeDecidesExactly ==
    [][~restopped => /\ Refused => ~OnlyParentUpdateWhileStopped
                     /\ Rebased => stoppedWith = reviewStart.parents]_hvars

\* A report-only result is used only for the repository that fix began with,
\* across stops and resumes of that call: no resume takes a new baseline
\* (gateReportOnlyResumeSnapshot, verifyReportOnlyEndSnapshot).
ReportOnlyLeavesRepository ==
    [][pc = "report-end" /\ pc' = "worker-result" => repo = reportBase]_hvars

\* A fix Sol orders after a review is never completed by the reviewer alone:
\* the record of the earlier review keeps the risk high through the stops,
\* resumes and failures of the fix (computeEffectiveRisk).
ReviewedFixNeedsSol == status = "complete" => fixed # "reviewed"

\* EVAL.md:47, EVAL.md:51 and README.md:269: the review after an explicit fix is
\* made by the reviewer for high risk (reviewerModel chooses it by the saved risk).
FixReviewedAsHighRisk ==
    pc = "call" /\ IsReviewer(cp) /\ ~cp.reemit /\ fixed # "no" => cp.risk = "HIGH"

=============================================================================
