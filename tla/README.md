# Verification of glm-worker

This directory holds TLA+ specifications of `glm-worker` and of the tools around it, the TLC
configurations that check them on small instances, and TLAPS proofs of what matters most for every
value of the constants. Paths such as `workflow.go:876` are below `src/glm-worker/internal/`
unless they begin with `src/`.

    tlc -workers 2 -config WorkflowFaults.cfg MCWorkflow
    tlapm WorkflowProofs.tla

`PROJECT.json` lists the runs with the module and configuration of each, the source lines every
definition stands for, for every property a change of the code it would catch, and the hazards the
properties are for.

## 1. The system

Codex (called *Sol* in the code) gives an implementation task to `glm-worker`. It calls a worker
model, which edits the repository; a separate reviewer model judges the result; `glm-worker` lets
the worker fix what the reviewer objects to, and stops for Sol when a decision or a look of Sol's
own is due. Every command is one short-lived process; what a task remembers between commands is a
directory of small files. Provider outages and usage limits stop a command in the middle of a call,
and `--resume` continues that same call, hours later, in a repository that may have changed.

### Components

| Component | State | Operations | Interacts with |
|---|---|---|---|
| Task workflow (`workflow/workflow.go`) | locals of one command | new task, `--decision`, `--fix`, `--resume`, `--reset`; the model call with its one correction; review, risk floor, automatic fixes; failing closed | all below |
| State store (`state/store.go`) | `task.id`, `task.status`, `pending-decision`, `last-*`, session ids and ready markers | start a task, reset, set a status, sessions | every command; the observers |
| Resume checkpoint (`state/resume.go`) | one JSON file: the call, its flags and counters | save, load, clear | workflow |
| Snapshots (`state/snapshot.go`) | worker-end, review-start, report-only-start | capture, save, compare | workflow, Git |
| ACTIVE task (`workflow/activetask.go`) | `active-task` | resolve once, fix for the task | plan of the parent |
| Parent metadata guard (`workflow/planfile.go`) | the parent files before a call | capture, compare, refuse | each worker call |
| Self-protection (`workflow/selfprotection.go`) | none | does a change touch critical paths | risk of a review |
| Packet contract (`packet/`) | none | validate the results of both roles | each call |
| Provider recovery (`workflow.go`, `runner/transient.go`, `zai_limit.go`, `probe.go`) | probe count, deadline | classify a failure, back off, probe, give up | calls and resumes |
| Runner and sessions (`runner/`) | session ids, ready markers, isolation policy | run the CLI, create or resume a session | workflow, store |
| Repository lock (`app/lock*.go`) | `lock` file and its flock | take, give up, probe | every process |
| Watch (`app/watch.go`, `state/events.go`) | position in the event log | follow a task | store, event log; takes no lock |
| Statistics, telemetry, task artifacts | counters, call log, a directory | count a call, log its end | workflow |
| Reports, A/B evaluation (`app/`, `abeval/`) | none | print recorded data | files |
| Automatic-resume verification (`autoresume/`) | none | compare two external records | read only |
| Repository search (`reposearch/`) | cache keyed by a fingerprint | build, load, retry | the changing repository |
| Settings merge (`src/tools/merge-json/`) | settings file and sidecar of baselines | merge, restore, roll back | installer, user edits |
| Installer (`src/install.sh`) | managed files and the list of them | install, remove what is no longer managed | settings merge |

### What is hard, and what makes each component correct

* **Workflow and checkpoint.** The checkpoint, the status and the decision marker are separate
  files; a crash or a failed write can come between any two. The same call can be stopped several
  times, by a usage limit, by an outage, inside a recovery or by the probe gate of a resume.
  Correct: what is on disk between commands fits together; a finished task cannot be resumed; every
  counted call is logged once; no command goes on for ever.
* **Review.** The agent, Sol and others change the repository before, during and between the stops
  of a review. Correct: a verdict is adopted only for the code the worker left; whatever called for
  the high-risk path still does after stops, re-emissions, fixes and resumes; of the parent's
  metadata exactly the updates made while the task was stopped are accepted.
* **Lock and watch.** Correct: one command at a time, whoever dies; a watch ends, and shows what was
  written before the end.
* **Runner, sessions and recovery.** A session is an id on disk, a marker beside it and a session at
  the CLI; an outage, a limit, an update of the program or a death can come between any two of the
  files. Correct: the CLI is asked to resume only what it has and what belongs to this task and
  policy; a role keeps the session it began through stops; a recovery ends, and not before its
  probes or its time are over.
* **Settings merge.** Two files written one after the other, a rollback that can fail itself, and
  a user who edits both the settings and the override. Correct: what an override hid comes back (not
  after a kill, section 5); an install that fails has changed nothing; worker and settings agree.
* **Repository search.** Nothing locks the tree that is read, and searches share a cache. Correct: an
  answer is the text of one state of the repository; the cache holds what its fingerprint names.
* **Round log.** Best-effort records, lost, torn or incomplete. Correct: the report compares no two
  rounds across a loss it can know of, and calls nothing unchanged that changed (with the exceptions
  of section 5).
* **Installer**: planned, see section 2.

## 2. Plan

In order of importance to the system; those marked + are done.

| | Module | Content | Properties |
|---|---|---|---|
| + | `Workflow`, `WorkflowHistory` | one task and all commands on it | section 4 |
| + | `WorkflowProofs`, `WorkflowReviewProofs`, `WorkflowHistoryProofs` | inductive invariants | section 6 |
| + | `Observers`, `ObserversProofs` | lock, probe of `--status`, `--watch` beside commands | section 4 |
| + | `EnvLayers`, `MergeSettings`, `MergeSettingsProofs` | the settings merge as a transaction over two files, and the three layers it implements | sections 4 and 6 |
| + | `Provider`, `ProviderProofs` | sessions, isolation policy, reading of a failed call, recovery with time and deadline | sections 4 and 6 |
| + | `RepoSearch`, `RepoSearchProofs` | fingerprint, build, fingerprint, save, against a changing repository | sections 4 and 6 |
| + | `Rounds`, `RoundsProofs` | the round log and the convergence report | sections 4 and 6 |
| | `TaskLifecycle` | what a caller of `glm-worker` is promised: statuses and which commands each allows. `Workflow` is to implement it, as a property of the run with faults and then as a theorem | refinement |
| | `Installer` | managed files and their list, replaced last | nothing installed is forgotten; nothing of the user's is removed |
| | pure predicates | packet validation, automatic-resume verification | agreement with a reference definition over bounded inputs |

`Workflow` and `Provider` divide a model call between them: `Workflow` keeps what the answers say and
lets a call end in every way the runner can report; `Provider` keeps the session, the time and the
order in which a failure is read, and leaves out what the answers say. Both have the stop and the
gate of a resume. Theorem planned: the refinement of `TaskLifecycle`.

## 3. How the model corresponds to the code

### `Workflow`

The state directory is `taskID`, `status`, `pending` (the decision marker), `lastDecision`,
`lastReview`, `active` (the fixed ACTIVE task), `ckpt` and the three snapshots `workerEnd`,
`reviewStart`, `reportStart`. The repository is `repo`: one value for HEAD, index and worktree
(`code`, all that a snapshot compares) and the parent's metadata (the state of the plan and of the
ACTIVE task file). `pc` says where the running command is and is `"idle"` between commands; `cp`,
`prev`, `guard`, `result`, `probes` and `resuming` are its local variables: the checkpoint of the
call, the copy `ExecuteResume` keeps to restore, the parent files captured before the call, the
packet, the probes of a recovery, and whether the call is one being resumed. `unrecorded` counts
calls that are counted and not yet logged; `moved` counts the edits by others since the snapshot of
the worker's end while its review is prepared, and no action reads it.

An action is what a command does between two points at which something else can come in: the
process may die, somebody may edit the repository, a model or a probe answers. Commands do not
overlap, for each takes the lock first; `ObserversProofs` proves that it does what it is taken for.

Nobody locks the repository, so the preparation of a review (`reviewUntilStable`) is one action per
read of it: the snapshot of the worker's end (`CaptureWorkerEnd`, `workflow.go:504`), the listing of
the changed paths that decides the risk (`ComputeEffectiveRisk`, 515), the ACTIVE task
(`EnsureReviewTask`, 518) and the comparison with the first snapshot (`VerifyReviewStart`, 548). After
the review, the comparison (`VerifyReviewEnd`) and the floor, which lists the paths again when the
review was resumed (`EnforceRiskFloor`), are two actions for the same reason.

| Part | Actions | Code |
|---|---|---|
| Commands | `StartNewTask`, `RemovePreviousTask`, `ActivateNewTask`, `ForgetPreviousTask`, `StartDecision`, `StartExplicitFix`, `StartResume`, `StartReset`, `ResetStatus`, ... | `ExecuteNewTask` .. `ExecuteResume`, `StartNewTask`, `Reset` |
| Before a call | `EnsureActiveTask`, `SaveReportStart`, `BeginCall`, `BeginRefused`, `BeginFails` | `ensureActiveTaskPath`, `runModel` |
| The call | `WorkerEdits`, `CallSucceeds`, `CallBreaksContract`, `CallViolatesGuard`, `CallRateLimited`, `CallTransient`, `CallFails`, `CallStateError` | `runModel`, `planfile.go` |
| Recovery and probe gate | `ProbeContinues`, `ProbeSucceeds`, `ProbeRateLimited`, `ProbeFatal`, `RecoveryExhausted` | `recoveryLoop`, `gateResumeOnProbe` |
| A stop | `SaveStopStatus`, `ReportStop`, `StopFails` | `persistRateLimitedStop`, `persistProviderUnavailableStop` |
| A resume | `ResumeGate`, `VerifyReviewResume`, `RestoreStop`, `RestoreStopStatus` | `ExecuteResume`, `verifyReviewResumeSnapshot`, `acceptReviewResumeParentDelta` |
| Failing closed | `FailClosedClear`, `FailClosedStatus`, `FailClosedFails` | `failClosedStopped` and its like |
| Results | `WorkerAsksSol`, `AwaitDecision`, `WorkerImplemented`, `VerifyReportEnd` | `handleWorkerResult` |
| The review | `CaptureWorkerEnd`, `ComputeEffectiveRisk`, `EnsureReviewTask`, `VerifyReviewStart`, `VerifyReviewEnd`, `EnforceRiskFloor`, `RecordReview`, `ReviewPasses`, `ReviewNeedsSol`, `AutoFix` | `reviewUntilStable`, `enforceRiskFloor`, `handleReviewResult` |
| Environment | `Edit`, `Crash`, `CaptureFails` | |

Abstractions, each kept because no property tells the difference:

* A failed write of the state directory ends a command where a crash at that point would; it is
  modelled as that crash. The exceptions have actions of their own: a stop that cannot be saved, a
  failed ending of fail-closed, the restores of a resume, and an artifact directory that cannot be
  secured, which ends a call or a recovery before the checkpoint is removed (`workflow.go:970`).
* The paths that protect themselves are a set of codes, `CriticalCodes`; classification may also
  fail, which raises the risk for any code.
* The plan is missing, without a single valid task, or wired to one; the task file is missing or
  has one of `TaskContents`.
* Prompts, efforts and models follow from the checkpoint and appear only where a rule does
  (`reviewerModel` chooses by the saved risk).
* Telemetry is best effort in the code; logging a call is modelled as succeeding.

### `WorkflowHistory`

`Workflow` with variables that only observe: what the parent metadata was when a call was first
stopped, whether the probe gate saved that stop again, the baseline a report-only fix began with,
whether Sol ordered a fix and a review had come before. Properties of several commands need them.

### `Observers`

Commands, `--status` and `--watch` processes around one state directory, at the grain of single
file operations, because a watch and a probe take no lock. A command is reduced to what others can
see: it opens and locks the file, removes `task.id` then `task.status`, writes them in that order,
appends events, sets a status, gives up the flock or dies. The lock file has inodes (`Files`), so
that replacing the file would be visible. The watch reads the id and the status separately, drains
before its first look and after every later one, as `watchTaskEvents` does. `ended` is a history
variable: the length of each log when the status last left `active`. The events of a call that ended
with an error, after which the status stays `active`, are part of the log.

### `EnvLayers` and `MergeSettings`

`EnvLayers` says what the settings merge promises, without files: the user's env `own`, the env
`shown` to Claude, the keys `owned` by the override. `Install` merges the fragment into `own` and
lays the override on top; an edit of an owned key is shown until the next install and does not
reach `own`. Only an install that is killed, or whose rollback fails, may be `Torn`.

`MergeSettings` is `src/tools/merge-json/main.go`: `target` and `sidecar` are the two files,
`override` the user's file, `phase`, `todo`, `new`, `restore` the locals of `mergeFilesWithWriter` and
`commitTransaction`. `Begin` plans both contents (`Planned`), `Write` renames one file in the order
of the code, `WriteFails` turns to the rollback, `Undo` and `UndoFails` are `rollbackFiles`, `Crash`
kills the install between two renames. `ChildEnv` is the other reader of the same override: the
environment `buildChildEnv` gives a worker.

The model keeps the env; keys outside it are merged in the same way and no override is about them.
A missing file is an empty one. Nobody edits the files while an install runs, which takes
milliseconds: the code reads both at its start and would overwrite such an edit. The three keys
the runner always sets itself are none of `Keys`.

### `Provider`

`id`, `ready` and `policy` are the session files of the store, `sessions` what the external CLI has,
`origin` (history) the task and policy each id was made for, `kept` (history) the session each role
began. `pc` follows `runner.Run` and `recoveryLoop` at the grain of one file operation, one call, one
wait, one probe:

| Part | Actions | Code |
|---|---|---|
| Commands | `NewTask`, `ActivateTask`, `StartCall`, `ResumeTask` | `StartNewTask`, `runModel`, `ExecuteResume` |
| Session | `ResetSessionsForPolicy`, `Remove`, `KnownSession`, `NewSession`, `MarkPolicy`, `PrepareFails` | `store.go:200-249`, `runner.go` |
| The call | `Served`, `Refused`, `Succeed`, `StopAtLimit`, `GuardStops`, `TransientCall`, `TransientAgain`, `FailCall` | `runModel`, `RunOutcome` = the error order of `Run`, `MergedSignal` = `zai_limit.go`, `transient.go` |
| Recovery | `ProbeAtOnce`, `Sleep`, `GiveUp`, `StopUnavailable`, `ProbeFails`, `ProbeSucceeds`, `ProbeAtLimit`, `ProbeFatal` | `recoveryLoop`, `backoffWait`, `probe.go` |
| Environment | `Update`, `Crash` | |

The CLI is external: it refuses to open an id it has and to resume one it has not. Time is counted in
units of five minutes, so the schedule of the code is 1, 3, 9, 18 and the deadline 36; a wait is
jittered (`\E jitter`), cut to the time left and may wake up late, and the deadline counts the time of
the resumed call too, as the code does. Versions of the isolation policy only go up. A ready marker
that cannot be written is not modelled.

### `RepoSearch`

One action per read: the fingerprint is three Git commands and a hash of each new file (`PrintIndex`,
`PrintDiff`, `PrintList`, `PrintHash`), the index one `ReadFile` per listed file, an answer one
`Snippet` per result; `Load` and `Entry` are the cache, shared by all searches; `StartOver` and `Race`
are `attemptSearch`'s two ends. `Edit`, `Stage` and `Spoil` (a cache file that cannot be read) come
between any two of them. A file's content is a number, so that "which state was this" can be asked.

No command of this commit calls the package: it is modelled as a library. Every edit gives a content
the file never had; files that did not exist at first are not deleted again; `ls-files` and `diff`
each see one state; `assume-unchanged` and `skip-worktree` are left out; a query matches every text,
and the lines of the results are read in the order of the paths;
the byte limit goes the way of the file limit; Git's index rests while a search runs
(`StageAnytime = FALSE`), which section 5 comes back to.

### `Rounds`

The workflow's side writes: `StartTask` the baseline, `WorkerEnds` the snapshot, `RecordRound` the
record with the listed files and their digests, `Review` the reviewer's call of the telemetry.
`Lost`, `CutShort` and an unlisted file are its failures, each of which the code lets pass; `Change`
edits a file, also between the snapshot and the list. `log` is what a report finds; `done` (history)
is every boundary that was passed. The report is a set of operators on `log`. A record is known by its
place in the log (`RecordPlaces`), so that what comes before it (`Before`, `Previous`) and the calls in
the window between two records are intervals of places rather than filtered copies: `Mismatch`,
`GapByCalls`, `Gap` find missing records, `NormalizeRoundContent`, `RoundSemanticDigest` and
`ChangedPaths` the meaning of a content, and `CompareRoundRecords` the class of a round.

A content is a sequence of lines and a line one of five kinds, taken after trimming: text, blank,
comment, directive (a comment with the form the code keeps) and hint (a comment a tool reads without
that form). What a content is and what the code sees of it are two constants: `Inside` gives the lines
that begin inside a string, whatever they look like, and `Guarded` the contents in which the code finds
one of its signs of such strings. The normal form (`NormalizeRoundContent`, `RoundSemanticDigest`) is
worked out from the looks of the lines and `Guarded`; the meaning (`Sense`) from `Inside` and the
kinds. Where the two can differ, because a string has no sign or a comment is a hint, a content is not
`Recognised`: `ClassesAreTrue` claims nothing of its changes, and two refuted runs show what the code
says of them. A boundary has the snapshot (`repo`) and the files as they were listed afterwards
(`listed`): `same-snapshot` is a claim about the first, the classes by paths one about the second.
Verification rounds, costs and printing are left out. A mode change, or a file replaced by a link with
the same text, has the digest of no change and may be hidden by `comment-format-only`; it is outside
the model.

## 4. Runs

| Run | Instance | Shows |
|---|---|---|
| `WorkflowFaults` | two codes (one critical), tracked metadata, one crash or failure anywhere, weak fairness of the process | `TypeOK`; `TerminalNotResumable`; `WaitingDecisionHasQuestion`; `CallsRecordedOnce`; the invariant of the proofs, `Inductive`; `CommandTerminates` |
| `WorkflowEdits` | untracked metadata, two codes (one critical), no task file, two edits by others at any moment, the agent's edits free | `StoppedStatusCoherent`; `NoHighRiskCompletion` and its invariant `ReviewFoundations`; `VerdictIsForWorkersCode` |
| `WorkflowHistory` | one code, one edit | `FirstResumeDecidesExactly`; `ReportOnlyLeavesRepository`; `ReviewedFixNeedsSol` |
| `Observers` | two commands, one `--status`, one `--watch`, two tasks of up to two events, one death | `ObserversType`; `OneCommandRuns`; `FollowedToTheEnd`; `WatchEnds` |
| `MergeSettings` | two keys with two values (one empty), three edits, one failing write, one failing rollback, one kill | `MergeType`; `RerunChangesNothing`; `WorkerFollowsSettings`; `FailureChangesNothing`; the refinement `KeepsLayers` |
| `Provider` | the code's schedule and deadline, two tasks, three calls, an update, one death or failing operation | `ProviderType`; `ResumesOwnSession`; `SessionSurvivesStop`; `GivesUpOnlyExhausted`; `CallEnds` |
| `RepoSearch` | two searches with different options, two files (one new), two edits | `SearchType`; `AnswerOfOneState`; `CacheTellsTruth`; `RaceTakesTwoEdits` |
| `Rounds` | four boundaries, a source file (with strings the code recognises and others) and a document, two changes, one loss | `RoundsType`; `LossesShow`; `ClassesAreTrue` |
| `PendingDecision`, `CallChanges`, `ExplicitFix`, `OriginalComesBack` | the smallest instances that show it | the first four divergences of section 5 |

Five more configurations refute one property each and are not listed as runs in `PROJECT.json`:
`WatchMissesEvents`, `CriticalCompletes`, `StringsNormalized`, `ToolsLines`, `ReviewedNotListed`.

### Bounds, and why they are enough

* `MaxAutoFixRounds = 1`: the limit is reached after one fix, so both sides of the comparison and
  the non-converged ending occur.
* `MaxProbes` 1 or 2: a recovery that goes on, one that succeeds and one that gives up. One suffices
  where only the number of *stops* matters.
* `MaxFaults` 1: every command is checked in every state one fault can leave. The safety properties of
  the run with faults are also proved for any number of them; `CommandTerminates` is not.
* `MaxEdits` 0 to 3: edits by others. The agent's edits during its own call are not bounded. Two
  edits change something and put it back: `WorkflowEdits` has them at any moment, so that
  `NoHighRiskCompletion` is checked with none, one and both of them around the listing of the paths.
  Three change metadata once more after it was put back (`CallChanges`). `WorkflowFaults` has none,
  for its question is what one fault leaves.
* Two codes tell "changed" from "unchanged" and "critical" from "not"; where criticality is not the
  question one code is enough. One content of the task file, with absence, is two states of it. In
  `WorkflowEdits` there is no task file, so that a task runs without an ACTIVE task and the parent's
  metadata is the plan alone: two edits of code and metadata at any moment are what that run is for.
* `Observers`: two commands race for the lock; a third process, the probe, races with both. Two
  tasks let a watch be switched. Three inodes would let each process hold a file of its own.
* `MergeSettings`: one key the fragment sets and one it does not; three edits put an override in,
  change it and take it out with an install between. One failure of each kind in any write.
* `Provider`: the numbers of the code. `Delays` is nothing or 150 minutes: a call that takes no time,
  and one that leaves less than one wait to the deadline. Three commands are a call, a resume that
  stops at its gate and another.
* `RepoSearch`: two edits are what one search can survive and one more; a third file would only
  lengthen the reads. `Rounds`: four boundaries are two comparisons with a lost record between; the
  source file has seven contents, among them pairs that differ in a comment, a directive, a marked and
  an unmarked string. `ReviewedNotListed` needs four changes: one puts the
  file into both records, three change it, change it again for the listing and change it back.

The unbounded statements of the proved properties do not depend on any of this.

### Fairness

`FairSpec` is weak fairness of the steps a running command takes on its own: the operating system
runs the process. It is not assumed that a model call or a probe ends: both wait for a child process
without a time limit (`runner.go:268`, `probe.go:85`). `CommandTerminates` therefore says that a
command ends or waits for ever for one answer; an endless sequence of calls, corrections, probes and
fixes would violate it. No command is ever obliged to start, nobody to edit and nothing to fail.
`WatchEnds` needs only that a watch polls (`WF_vars(Following(w))`): a ticker and a local read. It
is stated for a status that left `active` for good, or a task that was replaced for good, and not for
their disjunction at every moment: the id and the status are read one after the other, and while new
tasks start without end each poll may read the id between two tasks and the status within one.

`Provider`'s `FairSpec` is weak fairness of `Run \/ Recover`, one action for the one process: the command
that runs goes on. Unlike in `Workflow` a call and a probe are taken to return, because `CallEnds` is
about the loop around them; what happens when they do not is `CommandTerminates`.

## 5. What was found

The first four are runs, whose counterexample shows each. The next five are configurations to be run
by hand (`tlc -config CriticalCompletes.cfg MCWorkflow`; `MCObservers` for `WatchMissesEvents`,
`MCRounds` for the last three), with a counterexample as well.

1. **`PendingDecision`**: after `--decision`, the status is `active` before the call and the marker of
   the question goes after it (`workflow.go:182`). If the call ends with an error in between,
   `--decision` refuses because nothing waits, and a new task refuses because a decision is
   pending, naming `--decision` as the way out. Only `--reset` remains.
2. **`CallChanges`**: `verifyReviewResumeSnapshot` tells the parent's updates during a stop from
   changes during the call by the metadata saved with the stop. The probe gate of a resume saves the
   stop again, with the metadata of that moment: a change made during the call can be accepted after
   it was put back and made again, and a legitimate update can be refused (`ParentUpdatesApproved`,
   refuted on the same instance). Until the gate stops a second time the two rules hold exactly
   (`FirstResumeDecidesExactly`, proved for every instance).
3. **`ExplicitFix`**: the documents send the review after an explicit fix to the reviewer for high
   risk; a task that stopped for Sol before its first review was recorded leaves no mark that raises
   the risk, and the fix is reviewed as the worker rates it.
4. **`OriginalComesBack`**: an install killed between its two renames has put the override into the
   settings and no baseline into the sidecar: the next install takes the override for the user's own
   value, which `src/README.md:86` promises back. `KeepsLayers` permits it: it lets an install that was
   killed, or could not roll back, be torn.
5. **`WatchMissesEvents`**: the first pass of a watch drains and then reads the status
   (`watch.go:62-66`), the opposite of the order the comment above it gives as the reason nothing is
   missed. A watch started as the task ends loses what was appended in between. Once a watch has
   seen its task active it loses nothing (`FollowedToTheEnd`).
6. **`CriticalCompletes`**: `src/README.md:180` promises that a change of a critical path is never
   completed by a reviewer's PASS. The paths are listed after the snapshot of the worker's end and
   before the comparison at the start of the review; critical code taken back for the listing and put
   back after it is rated LOW, and every snapshot agrees. It takes two edits by others in that window
   (`NoHighRiskCompletion`, proved).
7. **`StringsNormalized`**: `convergence.go:246` says that every content that may have a string over
   several lines is excluded from normalization. The signs it looks for miss the plain strings of Rust
   and PHP and `@$"` of C#: a changed line of such a string that looks like a comment gives
   `comment-format-only`.
8. **`ToolsLines`**: `convergence.go:306` says that no line that may mean something is dropped; a
   comment without the form of a directive that a tool reads, as `//export` of cgo, is.
9. **`ReviewedNotListed`**: a record is said to observe one state (`convergence.go:56`), but its files
   are read after its snapshot. Edited in between and put back before the review starts, they give
   the round of a reviewed change of code the class `comment-format-only`.

These have no configuration of their own. Each is a definition of a module that TLC refutes when it takes the
place of the properties of the configuration named:

| Definition | Configuration | What happens |
|---|---|---|
| `RefusedOnlyByCommand` (`Observers`) | `Observers.cfg` | `--status` takes the exclusive flock itself to see whether it is free; a command that starts in that moment is refused as if another one ran |
| `ContractNotRetried` (`Provider`) | `Provider.cfg` | the first call of a command is checked for a broken structured output before it is taken for an outage (`workflow.go:906`); the call a recovery resumes is not (`workflow.go:1170`) |
| `OutageWasAnswered` (`Provider`) | `Provider.cfg` | a failure before the CLI was started is read together with the output file of the call before, whose text may say "outage" |
| `WaitsEndInProbe` (`Provider`) | `Provider.cfg` | a wait that runs over the deadline is followed by no probe |
| `LimitHoldsWithCache` (`RepoSearch`) | `RepoSearch.cfg` with `Options <- MCLowered`, `Kinds <- MCKindsBinary` | a cached index passes a lowered limit by the files it holds, a rebuild is refused by all files listed |
| `AnswerOfOneState` (`RepoSearch`) | `RepoSearch.cfg` with `StageAnytime = TRUE` | a `git add` between the commands of a fingerprint moves a file from one part to the other |
| `AnswerOfOneState` (`RepoSearch`) | `RepoSearch.cfg` with `Kinds = <<"skip", "text", "skip">>` | a new file that is not read (too large, binary, a link) becomes a text and is skipped again between two fingerprints: all skipped files have one projection, on purpose (`fingerprint.go:106`) |
| `EveryLossShows` (`Rounds`) | `Rounds.cfg` | the lost record of a first review, or of one after an explicit fix, leaves no gap in the numbers the report compares |

Seen while modelling and not the subject of a run: a watch of a task whose command died can end with
`status=none`, read between the two removals of the next task; two `--status` processes can report each
other as a running worker. A worker call that the metadata guard stops leaves its session id without a
marker although the CLI has the session (`GuardStops`): the next call of the role opens an id that is
taken and fails once.

## 6. Proofs

All theorems hold for every value of the constants under the named assumptions of their module
(`CodesAssumption`, `TrackedAssumption`, `BoundsAssumption`, `NothingAssumption` in `Workflow`;
`NobodyAssumption`, `FilesAssumption`, `EventBoundAssumption` in `Observers`; `MarkersAssumption`, `FragmentAssumption`,
`EnvAssumption`, `BoundsAssumption` in `MergeSettings`; `RolesAssumption`, `NumbersAssumption` in
`Provider`; `SearchAssumption` in `RepoSearch`; `RoundsAssumption` in `Rounds`): any number of codes, edits,
faults, probes, fixes, keys, tasks, updates, searches, files and rounds. Each property is also checked
by a run, on a small instance. Two theorems on searches have one hypothesis more, `NothingReturns`, see
`RepoSearchProofs`.

**`WorkflowProofs`.** `TerminalNotResumable` is not inductive: failing closed writes a terminal status
in a step of its own and must know that the checkpoint was removed in an earlier one. `Inductive`
therefore says, besides the types, for every position of a command which locals are set
(`LocalsSet`), on which checkpoints the flags of a stop may be (`FlagsCleared`), where a stop is on
disk and where none can be (`StopOnDisk`), that no running command shows a terminal status
(`RunningNotTerminal`) and whether a call is still to be logged (`CallDebt`). The last is tied to the
first two: a stop in a recovery was counted by the call before it, a stop of the probe gate by none.
Each action is one lemma; actions that leave a call in the same way share the lemma of that way
(ending, failing, failing closed, calling). `InductiveInvariant` gives `TypeCorrect`, `TerminalSafe`,
`DecisionHasQuestion` and `CallsRecorded`.

**`WorkflowReviewProofs`.** `NoHighRiskCompletion` and `VerdictIsForWorkersCode` need what happened
before a review was stopped. `ReviewFoundations` carries it with the checkpoint: wherever a
reviewer's checkpoint is (on disk as a stop, local, or kept to be restored) its review-start snapshot
has the worker's code, and a saved risk `LOW` is worth `NotHighRisk`: no decision, and critical code only
if others edited the repository twice while the review was prepared. While it is prepared `LowSoFar`
keeps count: a LOW of critical code had an edit before the listing, and unless another follows the
comparison at the start fails. `FoundationsInvariant` is proved relative to `Inductive`; `NoHighRiskCompleted` and
`VerdictForWorkersCode` follow.

Its last part: `StoppedStatusCoherent` is about the moments between commands, its reasons about
the commands. `StopAgreement` adds that a checkpoint is marked with one stop at most, on disk and in
the copy a resume keeps (`OneStop`), and that while nothing failed a running task has its id and a
status names a stop only while that stop is reported (`Undisturbed`). The second is what rules out
the endings that remove a stop after its status was written: they need a fault or a lost id.
`StatusNamesStop` follows.

**`WorkflowHistoryProofs`.** Three invariants, each relative to the ones above; `HistoryObserves` carries
those over to `HSpec`. `ReviewedBefore` says what a recorded review does to everything after it: each
reviewer's checkpoint, wherever it is, is not of low risk, and no PASS gets past the end of a review.
Only a reset forgets the review, and it forgets the status first. `FixedIsReviewed` ties it to a fix
Sol ordered, for `ReviewedFixWaitsForSol`. `NoStopLeft` and `StopsKnown` say where no stop is on disk and
that the stop on disk has the metadata of the moment it was first saved, unless the gate saved it
again: `ParentUpdatesDecided`. `ReportBased` says that the baseline on disk is the fix's first one
wherever a report-only checkpoint is: `ReportLeavesRepository`.

**`ObserversProofs`.** `OneCommandRuns` says nothing of files. `Locking` adds that a process past its
open has the one lock file open and that whoever is past the flock owns it; two owners are one.
`OneCommand` follows for any number of processes. It is what `Workflow` assumes. `Watching` is the
invariant of the other half: a watch that runs follows a task, and a log is never shorter than it was
when the status last left `active` (`ended`). `WatchFollowsToTheEnd` follows, since only a last drain
ends such a watch; `ObserversTypeCorrect` takes both invariants.

**`MergeSettingsProofs`.** Everything rests on the order of the two writes: the sidecar is last, so that
until the last write the baselines are still those of the settings found. `Transaction` says which
contents the two files can have in the middle of a commit or a rollback; `MergeInvariant` adds that
after a success the plan of another install is what is there. `MergeKeepsLayers` is the refinement:
each step of the two files is a step of the layers or a stutter, where an install in progress counts
from its last write (`Settled`). The steps of an edit, of the last write and of a damaged install are
a lemma each. `RerunIsUnchanged`, `WorkerSeesSettings` and `FailedInstallChangesNothing` follow from the
invariant.

**`ProviderProofs`.** `SessionInvariant` says, for every point a death or a failure can come at: which
files are still to be removed once a removal began (`Removing`), that under the policy in force every
id is this task's and every marker belongs to a session the CLI has (`OwnFiles`), what the running call
knows (`Calling`), and that a session a role began is on file and marked (`Begun`). `ResumesOwn` and
`SurvivesStop` follow. `GiveUpIsExhaustion` needs no sessions but the numbers: waits are at most one
ahead of probes (`Waited`), so a schedule that has a wait for each probe, as the code's has
(`MaxProbes <= Len(Schedule)`), never runs out first. It is a theorem for every such schedule,
deadline and delay.

**`RepoSearchProofs`.** Three invariants. `TypeInvariant` adds to the types that a pass takes each file once
and none the options exclude (`OnceEach`): `SearchTypeCorrect`, in which the bound on the attempts is the
part that could fail. `RaceInvariant` counts: an attempt has as many changes of the repository behind it
as attempts went before, and while it has no more than that nothing moved since it began, so its
fingerprints agree (`Quiet`). A race needs one more: `RaceNeedsTwoEdits`, without further conditions.

`SearchInvariant` is why a search that reads file by file, without a lock, answers from one state. The
versions of a file only grow. For each file the index was read in a state not before the one the first
fingerprint saw and not after the one the next fingerprint will see (`Within`, `FileRead`), and what two
fingerprints say alike of the first and last state they say of those between (`Squeezed`). When the
fingerprint did not move, index, noted corpus and lines are therefore what it describes (`Unmoved`), and
so is what is written to the cache: `AnswerIsOneState` and `CacheIsTrue`. Neither property is inductive
without this: a cached index is only as true as the attempt that wrote it, and an attempt that takes it
only as good as the cache. `NothingReturns` is the hypothesis of both theorems: Git's index rests during a
search, and no new file goes from skipped to text and back to skipped. Without either, TLC finds the
mixed answers section 5 lists; the instance of the run satisfies both. The bounds of the run are in
neither.

**`RoundsProofs`.** The report compares neighbours in a log that has lost lines, so `RoundsInvariant` says of
each record what it tells of its boundary (`Truthful`), that records stand in the order of their
boundaries (`Ordered`), what a sequence number counts (`Counted`: the records before it until a line is
torn, then 1), where the logged calls stand among the records (`CallsPlaced`) and that the number of a
review is 1 or one more than the last (`Numbered`). `LossesAlwaysShow`: a record after a torn line has the
number 1, which continues none; and the call of a lost round stands in the window of the record before
it, under a number one greater, which the report takes for a gap. `ClassesAlwaysTrue`: equal snapshots
are equal files; otherwise both listings are complete, a file that is in neither is as committed
(`ListingsTell`), and recognised contents of one safe normal form mean the same
(`NormalFormKeepsSense`): a line inside a string is then in a guarded content, which has no normal form.
`RoundsAssumption` demands at least one boundary, and that the marks of a file that is unchanged, deleted
or unseen are contents of none.

Only model-checked: `CommandTerminates`, `WatchEnds` and `CallEnds` (liveness under fairness, out of this
prover's reach). Every other property of a passing run is a theorem. The invariants of `WorkflowProofs` and
of the foundations are also properties of a run; those of the other proof modules were checked by TLC on
the instances of the runs before they were proved and are not checked on every run.

## 7. Not modelled

* The installer: a shell script run once, by hand or by a hook; the hazard of a list replaced last is
  noted in `PROJECT.json`.
* Automatic-resume verification: a read-only comparison of two external records. A/B evaluation,
  timeline, session aging and coverage: arithmetic and printing over recorded data.
* Of `Workflow`: the listing of changed paths is itself two Git commands and a snapshot several, each
  taken as one read; so are the snapshot and the parent files of `VerifyReviewStart`
  (`workflow.go:1793`, 1799). The round log, whose record falls between `CaptureWorkerEnd` and
  `ComputeEffectiveRisk`, is in `Rounds`. A reset removes status and ACTIVE task in one step. A failed removal of the checkpoint inside a recovery is retried once by the code; a
  restore of a stop whose save fails; a review start whose parent files could not be read; checkpoints
  of older versions. Time is in `Provider`: here a recovery may give up at any round.
* Of `Observers`: the fallback without flock (`lock_other.go`), the PID in the lock file, a removed or
  pruned event log, a last line still being written. Appending and draining are single steps.
* Of `RepoSearch`: contents that return, and a moving index, in the run; section 5 has what happens then.
* Of `Provider`: a ready marker that cannot be written; a program that is downgraded after a death in
  the removal of its session files, where a stale marker could stay; calls and probes that never
  return.
* Of the packet contract the single fields: `Workflow` has a valid result or one of two rejections.
* Parsing of model output, classification of failures by their text, hashing, Git, path patterns,
  permissions, prompts: what they decide appears as a choice of the environment or a constant.
* Scoring and tokenizing of the search, the counters of the statistics.
