------------------------------- MODULE Rounds -------------------------------
(***************************************************************************)
(* The round log of a task and the convergence report read from it.  The   *)
(* workflow notes the repository at the start of the task and whenever a   *)
(* worker is done and a review begins (recordBaselineRound,                *)
(* recordConvergenceRound of workflow/workflow.go, AppendRoundRecord of    *)
(* state/convergence.go); the report (app/convergence.go) compares each    *)
(* round with the one before and says which ones changed nothing that a    *)
(* review has to look at.  Writing the log is best effort: a record may be *)
(* lost, or torn in the middle of its line, and nothing stops.  The report *)
(* has the sequence numbers in the log and the reviewer calls of the       *)
(* telemetry to notice what is missing.                                    *)
(*                                                                         *)
(* log is the round log with the calls of the telemetry at their place in  *)
(* time, which is what the report's time windows give it; done is, for the *)
(* properties, every boundary the task really passed.                      *)
(***************************************************************************)
EXTENDS Integers, Sequences, FiniteSets, FiniteSetsExt

CONSTANTS
  Paths,        \* files the task may change
  Docs, Codes,  \* those that are documents, and source code in a known language
  Holds,        \* what each file may hold
  Lines,        \* the lines of each content
  LineKinds,    \* what a line is where no string is open: text, blank, comment,
                \* directive (a comment with the form of one), or hint (a comment
                \* that a tool reads without that form, as //export of cgo)
  Inside,       \* the places in each content whose line begins inside a string
  Guarded,      \* contents with a sign the code takes for such a string
  MaxRounds,    \* bound: boundaries of the task, the baseline among them
  MaxFaults,    \* bound: records lost or torn, files not listed, calls not logged
  MaxChanges    \* bound: changes of the repository

Same == "same"                         \* marks for a file that is as committed,
Deleted == "deleted"                   \* one that is gone,
Unseen == [p \in Paths |-> "unseen"]   \* and a snapshot that failed

ASSUME RoundsAssumption ==
  /\ Docs \subseteq Paths /\ Codes \subseteq Paths /\ Docs \cap Codes = {}
  /\ DOMAIN Holds = Paths /\ DOMAIN Lines = UNION {Holds[p] : p \in Paths}
  /\ {Same, Deleted, "unseen"} \cap DOMAIN Lines = {}
  /\ Guarded \subseteq DOMAIN Lines /\ DOMAIN Inside = DOMAIN Lines
  /\ \A c \in DOMAIN Lines : Inside[c] \subseteq 1..Len(Lines[c])
  /\ \A c \in DOMAIN Lines : Lines[c] \in Seq(DOMAIN LineKinds)
  /\ \A l \in DOMAIN LineKinds : LineKinds[l] \in {"text", "blank", "comment", "directive", "hint"}
  /\ MaxRounds \in Nat \ {0} /\ MaxFaults \in Nat /\ MaxChanges \in Nat

VARIABLES
  repo,      \* the content of each changed file, Deleted, or Same as committed
  log,       \* records, torn lines and calls, in the order of time
  torn,      \* the last line of the round log has no end yet
  done,      \* the boundaries passed: number, snapshot, the repository when its
             \* files were listed, whether a reviewer's call is logged
  stage,     \* where the workflow is
  number,    \* the number of the review
  shot,      \* the worker-end snapshot
  faults, changes

vars == <<repo, log, torn, done, stage, number, shot, faults, changes>>

Contents == DOMAIN Lines
MayHold(p) == Holds[p] \cup {Same, Deleted}
Bad == [kind |-> "bad"]

-----------------------------------------------------------------------------
(* The round log                                                            *)

Record(seq, id, num, snapshot, paths, error) ==
  [kind |-> "record", seq |-> seq, id |-> id, number |-> num,
   snapshot |-> snapshot, paths |-> paths, error |-> error]
Call(num) == [kind |-> "reviewer", number |-> num]

\* Where the log has a record, and a line that cannot be read.
RecordPlaces == {i \in 1..Len(log) : log[i].kind = "record"}
BadPlaces == {i \in 1..Len(log) : log[i].kind = "bad"}

\* A sequence number counted without the log.
SeqOfBoundary == Len(done) + 1

\* AppendRoundRecord: one more than the last sequence number, or 1 when the log
\* cannot be read whole (ReadRoundRecords stops at the first bad line).
NextSeq ==
  IF BadPlaces # {} \/ RecordPlaces = {} THEN 1 ELSE log[Max(RecordPlaces)].seq + 1

\* classifyRoundPaths: the changed files with their contents, or an error.
Classified == {p \in Paths : repo[p] # Same}
Observed == [p \in Classified |-> repo[p]]
NoPaths == [p \in {} |-> Same]

\* The ways an append may end.  A write that was cut short leaves half a line;
\* the next record continues that line, and neither can be read.
Written(record) ==
  /\ log' = IF torn THEN log ELSE Append(log, record)
  /\ torn' = FALSE
Lost == UNCHANGED <<log, torn>>
CutShort ==
  /\ log' = IF torn THEN log ELSE Append(log, Bad)
  /\ torn' = TRUE

\* A boundary of the task, with its record.  Listing the changed files may fail,
\* and so may the snapshot of the baseline, which nothing else needs.
Passed(num, snapshot) ==
  /\ Len(done) < MaxRounds
  /\ done' = Append(done, [number |-> num, repo |-> snapshot, listed |-> repo,
                          called |-> FALSE])
  /\ LET Noted(seen, paths, error) ==
           Record(NextSeq, Len(done) + 1, num, seen, paths, error) IN
     \/ Written(Noted(snapshot, Observed, FALSE)) /\ UNCHANGED faults
     \/ /\ faults < MaxFaults /\ faults' = faults + 1
        /\ \/ Written(Noted(snapshot, NoPaths, TRUE))
           \/ num = 0 /\ Written(Noted(Unseen, Observed, TRUE))
           \/ Lost
           \/ CutShort

-----------------------------------------------------------------------------
(* The workflow, as far as it writes the logs                               *)

\* recordBaselineRound at the start of a task; review number 0.
StartTask ==
  /\ stage = "start"
  /\ Passed(0, repo)
  /\ stage' = "worker"
  /\ UNCHANGED <<repo, number, shot, changes>>

\* A worker, or anyone else, changes a file.  While a reviewer runs only
\* others do.
Change ==
  /\ changes < MaxChanges /\ stage # "start"
  /\ \E p \in Paths, c \in UNION {MayHold(q) : q \in Paths} :
       c \in MayHold(p) \ {repo[p]} /\ repo' = [repo EXCEPT ![p] = c]
  /\ changes' = changes + 1
  /\ UNCHANGED <<log, torn, done, stage, number, shot, faults>>

\* captureWorkerEndSnapshot: the worker has implemented something.
WorkerEnds ==
  /\ stage = "worker"
  /\ shot' = repo
  /\ stage' = "ended"
  /\ UNCHANGED <<repo, log, torn, done, number, faults, changes>>

\* recordConvergenceRound: the files are read after the snapshot.
RecordRound ==
  /\ stage = "ended"
  /\ Passed(number, shot)
  /\ stage' = "review"
  /\ UNCHANGED <<repo, number, shot, changes>>

\* verifyReviewStartSnapshot: a repository that moved stops the task for Sol;
\* --fix starts a review series of its own (handleWorkerResult).
Stopped ==
  /\ stage = "review" /\ repo # shot
  /\ stage' = "worker" /\ number' = 1
  /\ UNCHANGED <<repo, log, torn, done, shot, faults, changes>>

\* The reviewer's call, in the telemetry unless its append fails.
Review ==
  /\ stage = "review" /\ repo = shot
  /\ \/ /\ log' = Append(log, Call(number))
        /\ done' = [done EXCEPT ![Len(done)].called = TRUE]
        /\ UNCHANGED faults
     \/ /\ faults < MaxFaults /\ faults' = faults + 1
        /\ UNCHANGED <<log, done>>
  /\ stage' = "reviewed"
  /\ UNCHANGED <<repo, torn, number, shot, changes>>

\* handleReviewResult with a fix required: the review after it has the next
\* number (handleAutoFixResult).
AutoFix ==
  /\ stage = "reviewed"
  /\ stage' = "worker" /\ number' = number + 1
  /\ UNCHANGED <<repo, log, torn, done, shot, faults, changes>>

\* --fix after a review that needed Sol, or --decision after a worker that did:
\* the reviews are counted from 1 again (handleWorkerResult).
NewSeries ==
  /\ stage \in {"reviewed", "worker"} /\ number # 1
  /\ stage' = "worker" /\ number' = 1
  /\ UNCHANGED <<repo, log, torn, done, shot, faults, changes>>

ExplicitFix ==
  /\ stage = "reviewed" /\ number = 1
  /\ stage' = "worker"
  /\ UNCHANGED <<repo, log, torn, done, number, shot, faults, changes>>

Init ==
  /\ repo = [p \in Paths |-> Same]
  /\ log = <<>> /\ torn = FALSE /\ done = <<>>
  /\ stage = "start" /\ number = 1 /\ shot = repo
  /\ faults = 0 /\ changes = 0

Next ==
  \/ StartTask \/ Change \/ WorkerEnds \/ RecordRound \/ Stopped
  \/ Review \/ AutoFix \/ NewSeries \/ ExplicitFix

Spec == Init /\ [][Next]_vars

-----------------------------------------------------------------------------
(* The convergence report                                                   *)

\* readRoundRecords: a bad line is skipped, the others are read.  A record is
\* known by its place in the log; Previous is the record before it.
Before(j) == {i \in RecordPlaces : i < j}
Previous(j) == Max(Before(j))
IsBaseline(record) == record.number = 0

\* bucketTaskCallsByRound, reviewerCallsInBucket: a call between this record
\* and the next that reviews a round of another number.  The window of the
\* baseline is not looked at.
Mismatch(i, next) ==
  /\ ~IsBaseline(log[i])
  /\ \E c \in i + 1 .. next - 1 : log[c].kind = "reviewer" /\ log[c].number # log[i].number

\* A report that knows only the reviewer calls.
GapByCalls(j) == Before(j) # {} /\ Mismatch(Previous(j), j)

\* roundHasRecordGap, and the mismatch of the round before.
Gap(j) ==
  /\ Before(j) # {}
  /\ log[j].seq # log[Previous(j)].seq + 1 \/ Mismatch(Previous(j), j)

RoundPathClass(p) == IF p \in Docs THEN "doc" ELSE IF p \in Codes THEN "code" ELSE "other"

\* The lines at some places, in their order.
Kept(lines, places) ==
  LET order == SelectSeq([i \in 1..Len(lines) |-> i], LAMBDA i : i \in places) IN
  [n \in 1..Len(order) |-> lines[order[n]]]

\* roundCommentLine: a comment, unless it has the form of a directive.
RoundCommentLine(line) == LineKinds[line] \in {"comment", "hint"}

\* normalizeRoundContent: blank lines and whole-line comments left out, by the
\* look of each line alone.
NormalizeRoundContent(lines) ==
  Kept(lines, {i \in 1..Len(lines) : LineKinds[lines[i]] # "blank" /\ ~RoundCommentLine(lines[i])})

\* RoundSemanticDigest: the safe normal form of a content, none when there is
\* none.  The variant normalises what may be the inside of a string as well.
RoundSemanticDigestUnguarded(p, c) ==
  IF Lines[c] = <<>> \/ RoundPathClass(p) = "doc" THEN {Lines[c]}
  ELSE IF RoundPathClass(p) # "code" THEN {} ELSE {NormalizeRoundContent(Lines[c])}
RoundSemanticDigest(p, c) ==
  IF Lines[c] = <<>> \/ RoundPathClass(p) = "doc" THEN {Lines[c]}
  ELSE IF RoundPathClass(p) # "code" \/ c \in Guarded THEN {} ELSE {NormalizeRoundContent(Lines[c])}

\* roundPathDeltaNonSemantic: both contents have a normal form, and the same.
NonSemantic(p, before, after) ==
  /\ before \in Contents /\ after \in Contents
  /\ RoundSemanticDigest(p, before) # {}
  /\ RoundSemanticDigest(p, before) = RoundSemanticDigest(p, after)

\* CompareRoundRecords.  A file listed before and not now, or now and not
\* before, has changed; a deleted one always counts as changed.
ChangedPaths(prev, curr) ==
  {p \in DOMAIN prev.paths \cup DOMAIN curr.paths :
     ~(/\ p \in DOMAIN prev.paths \cap DOMAIN curr.paths
       /\ prev.paths[p] = curr.paths[p] /\ curr.paths[p] # Deleted)}
SemanticPaths(prev, curr) ==
  {p \in ChangedPaths(prev, curr) : RoundPathClass(p) # "doc" /\
     ~(/\ p \in DOMAIN prev.paths \cap DOMAIN curr.paths
       /\ NonSemantic(p, prev.paths[p], curr.paths[p]))}
RoundSnapshotsEqual(prev, curr) == prev.snapshot # Unseen /\ prev.snapshot = curr.snapshot
CompareRoundRecords(prev, curr) ==
  IF RoundSnapshotsEqual(prev, curr) THEN "same-snapshot"
  ELSE IF prev.error \/ curr.error \/ ChangedPaths(prev, curr) = {} THEN "unknown"
  ELSE IF SemanticPaths(prev, curr) # {} THEN "semantic-change"
  ELSE IF ChangedPaths(prev, curr) \cap Docs # {} THEN "doc-change"
  ELSE "comment-format-only"

\* buildConvergenceRounds: the class of each record.
Delta(j) ==
  IF IsBaseline(log[j]) THEN "baseline"
  ELSE IF Gap(j) THEN "unknown"
  ELSE IF Before(j) = {} THEN "initial"
  ELSE CompareRoundRecords(log[Previous(j)], log[j])

Compared(j) == Delta(j) \notin {"baseline", "initial", "unknown"}

-----------------------------------------------------------------------------
(* Properties                                                               *)

\* The type of the state.  The records stand in the order of the boundaries
\* they tell of, and their sequence numbers count the records, not the
\* boundaries, until a line is torn.
RoundsType ==
  /\ \A p \in Paths : repo[p] \in MayHold(p) /\ shot[p] \in MayHold(p)
  /\ torn \in BOOLEAN
  /\ stage \in {"start", "worker", "ended", "review", "reviewed"}
  /\ number \in 1..MaxRounds
  /\ \A j \in RecordPlaces :
       /\ log[j].id \in 1..Len(done)
       /\ log[j].number = done[log[j].id].number
       /\ \A i \in Before(j) : log[i].id < log[j].id
       /\ BadPlaces = {} => log[j].seq = Cardinality(Before(j)) + 1

\* A lost record shows where the report promises it: after a torn line no round
\* is compared with another, and a round of an automatic fix whose record is
\* lost keeps the next round from being compared with the one before it,
\* provided its reviewer call is logged.
LossesShow ==
  \A j \in RecordPlaces : Compared(j) =>
    /\ \A i \in BadPlaces : i > j
    /\ LET next == log[Previous(j)].id + 1 IN
       next < log[j].id => ~(done[next].called /\ done[next].number > 1)

\* What a content of a file means: every line that is inside a string, or is read
\* by a compiler or a tool, in its order; no blank line or comment between them.
Meant(c) ==
  {i \in 1..Len(Lines[c]) :
     i \in Inside[c] \/ LineKinds[Lines[c][i]] \in {"text", "directive", "hint"}}
Sense(p, c) == IF p \in Codes /\ Lines[c] # <<>> THEN Kept(Lines[c], Meant(c)) ELSE Lines[c]
SameSense(p, before, after) ==
  \/ before = after
  \/ before \in Contents /\ after \in Contents /\ Sense(p, before) = Sense(p, after)

\* A content the code can judge line by line: a string over several lines is
\* marked as the code expects it, and so is each comment that a tool reads.
Recognised(c) ==
  \/ c \in Guarded
  \/ Inside[c] = {} /\ \A i \in 1..Len(Lines[c]) : LineKinds[Lines[c][i]] # "hint"
Harmless(p, before, after) ==
  \/ SameSense(p, before, after)
  \/ before \in Contents /\ after \in Contents /\ ~(Recognised(before) /\ Recognised(after))

\* The class of a round tells the truth about the two boundaries it compares:
\* "same-snapshot" only for the same files, "comment-format-only" only when every
\* file listed means what it meant and no document moved, "doc-change" only when
\* all else kept its meaning, each for contents whose strings and comments the
\* code recognises.  Nothing that could not be observed passes for unchanged.
\* What a class says of the files it says of those listed, which others may have
\* edited since the snapshot (CompareRoundRecords, RoundSemanticDigest).
ClassesAreTrue ==
  \A j \in RecordPlaces : Compared(j) =>
    LET class == Delta(j)
        prev == done[log[Previous(j)].id]
        curr == done[log[j].id] IN
    CASE class = "same-snapshot" -> prev.repo = curr.repo
      [] class = "comment-format-only" ->
           \A p \in Paths : prev.listed[p] = curr.listed[p]
                            \/ (p \notin Docs /\ Harmless(p, prev.listed[p], curr.listed[p]))
      [] class = "doc-change" ->
           \A p \in Paths \ Docs : Harmless(p, prev.listed[p], curr.listed[p])
      [] OTHER -> prev.repo # curr.repo

\* A change of a string over several lines is never "comment-format-only"
\* (RoundSemanticDigest excludes every content that may have such a string).
StringsNotNormalized ==
  \A j \in RecordPlaces : Compared(j) /\ Delta(j) = "comment-format-only" =>
    LET before == done[log[Previous(j)].id].listed
        after == done[log[j].id].listed IN
    \A p \in Codes :
      before[p] \in Contents /\ after[p] \in Contents
        /\ Inside[before[p]] # {} /\ Inside[after[p]] # {} => SameSense(p, before[p], after[p])

\* A change of a line that means something to a tool is never
\* "comment-format-only" (normalizeRoundContent keeps every line that may mean
\* something).
ToolsLinesKept ==
  \A j \in RecordPlaces : Compared(j) /\ Delta(j) = "comment-format-only" =>
    LET before == done[log[Previous(j)].id].listed
        after == done[log[j].id].listed IN
    \A p \in Codes :
      before[p] \in Contents /\ after[p] \in Contents
        /\ Inside[before[p]] = {} /\ Inside[after[p]] = {} => SameSense(p, before[p], after[p])

\* The class of a reviewed round is that of the code its reviewer saw: a record
\* observes one state of the repository, that of the worker's end
\* (recordConvergenceRound).
ClassOfReviewedCode ==
  \A j \in RecordPlaces : Compared(j) /\ Delta(j) = "comment-format-only" =>
    LET prev == done[log[Previous(j)].id]
        curr == done[log[j].id] IN
    curr.called => \A p \in Codes : SameSense(p, prev.repo[p], curr.repo[p])

\* Every lost record of a reviewed round shows: no round is compared across
\* it (AppendRoundRecord: a missing record is found by the reviewer numbers of
\* the telemetry).
EveryLossShows ==
  \A j \in RecordPlaces : Compared(j) =>
    \A i \in log[Previous(j)].id + 1 .. log[j].id - 1 : ~done[i].called
=============================================================================
