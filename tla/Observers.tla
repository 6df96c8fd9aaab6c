----------------------------- MODULE Observers -----------------------------
(***************************************************************************)
(* The processes that meet in the state directory of one repository: the   *)
(* commands that change a task and hold the lock of the repository, the    *)
(* --status processes that probe that lock, and the --watch processes that *)
(* follow the event log of a task without taking it.                       *)
(*                                                                         *)
(* What a command does to its task is reduced to what the others can see:  *)
(* task.id, task.status and the events it appends.  Each file operation is *)
(* a step of its own, for nothing keeps the observers from coming between. *)
(***************************************************************************)
EXTENDS Integers, FiniteSets

CONSTANTS
    Processes,   \* glm-worker processes that run a command under the lock
    Probes,      \* glm-worker --status processes
    Watchers,    \* glm-worker --watch processes
    Files,       \* inodes the lock file can have
    Tasks,       \* task ids
    MaxEvents,   \* bound: events of one task
    MaxCrashes,  \* bound: commands that die
    Nothing      \* an absent file, no owner

ASSUME ProcessesAssumption == Processes \cap Probes = {}
ASSUME NobodyAssumption == Nothing \notin Processes \cup Probes \cup Files \cup Tasks
ASSUME FilesAssumption == Files # {}
ASSUME EventBoundAssumption == MaxEvents \in Nat /\ MaxCrashes \in Nat

Lockers == Processes \cup Probes

\* The statuses in which a command leaves a task: "waiting" stands for the two
\* that wait for Sol and the two that wait for the provider.
Statuses == {"none", "active", "waiting", "complete"}

CommandLabels == {"off", "opened", "locked", "new-status", "new-id", "new-active",
                  "running", "reset-status", "closing"}
ProbeLabels   == {"off", "opened", "unlock"}
WatchLabels   == {"off", "open", "first-drain", "first-task", "first-status",
                  "wait", "status", "drain", "last-drain"}

VARIABLES
    lockFile,   \* the inode of the lock file, Nothing before it is created
    opened,     \* the inode each process has open
    owner,      \* who holds the flock of each inode
    pc,         \* where each command and each probe is
    taskID, status, log,            \* the files the observers read
    wpc, followed, shown,           \* the watches: position, task, events shown
    ended,      \* history: the event logs when the status last left active
    crashes

lock    == <<lockFile, opened, owner>>
task    == <<taskID, status, log, ended>>
watches == <<wpc, followed, shown>>
vars    == <<lock, pc, task, watches, crashes>>

EndsActive(s) == ended' = IF status = "active" /\ s # "active" THEN log ELSE ended

At(p, from, to) == pc[p] = from /\ pc' = [pc EXCEPT ![p] = to]

\* Closing a file description also gives up its flock.
Release(p) ==
    /\ owner' = [f \in Files |-> IF owner[f] = p THEN Nothing ELSE owner[f]]
    /\ opened' = [opened EXCEPT ![p] = Nothing]

\* A file that is created has an inode nobody has open.
FreshFile == CHOOSE f \in Files : \A p \in Lockers : opened[p] # f

-----------------------------------------------------------------------------

Init ==
    /\ lockFile = Nothing
    /\ opened = [p \in Lockers |-> Nothing]
    /\ owner = [f \in Files |-> Nothing]
    /\ pc = [p \in Lockers |-> "off"]
    /\ taskID = Nothing /\ status = "none"
    /\ log = [t \in Tasks |-> 0] /\ ended = [t \in Tasks |-> 0]
    /\ wpc = [w \in Watchers |-> "off"]
    /\ followed = [w \in Watchers |-> Nothing]
    /\ shown = [w \in Watchers |-> 0]
    /\ crashes = 0

-----------------------------------------------------------------------------
(* The lock: opened, created if needed, then taken or refused at once *)

Open(p) ==
    /\ At(p, "off", "opened")
    /\ lockFile' = IF lockFile = Nothing THEN FreshFile ELSE lockFile
    /\ opened' = [opened EXCEPT ![p] = lockFile']
    /\ UNCHANGED <<owner, task, watches, crashes>>

Acquire(p) ==
    /\ At(p, "opened", "locked")
    /\ owner[opened[p]] = Nothing
    /\ owner' = [owner EXCEPT ![opened[p]] = p]
    /\ UNCHANGED <<lockFile, opened, task, watches, crashes>>

\* "another glm-worker is already running for this repository"
Refused(p) ==
    /\ At(p, "opened", "off")
    /\ owner[opened[p]] # Nothing
    /\ Release(p)
    /\ UNCHANGED <<lockFile, task, watches, crashes>>

\* Variant: the lock file is removed when the lock is given up.
CloseRemovesFile(p) ==
    /\ At(p, "closing", "off")
    /\ Release(p)
    /\ lockFile' = Nothing
    /\ UNCHANGED <<task, watches, crashes>>

\* The file stays: only the flock says whether the lock is held.
Close(p) ==
    /\ At(p, "closing", "off")
    /\ Release(p)
    /\ UNCHANGED <<lockFile, task, watches, crashes>>

Crash(p) ==
    /\ pc[p] # "off"
    /\ crashes < MaxCrashes /\ crashes' = crashes + 1
    /\ pc' = [pc EXCEPT ![p] = "off"]
    /\ Release(p)
    /\ UNCHANGED <<lockFile, task, watches>>

-----------------------------------------------------------------------------
(* What a command does to its task *)

\* A new task removes the id and then the status of the previous one.
RemoveTask(p) ==
    /\ \/ At(p, "locked", "new-status")
       \/ At(p, "locked", "reset-status")
    /\ taskID' = Nothing
    /\ UNCHANGED <<lock, status, log, ended, watches, crashes>>

\* Variant: a status without a file has no value of its own.
RemoveStatusUnread(p) ==
    /\ \/ At(p, "new-status", "new-id")
       \/ At(p, "reset-status", "closing")
    /\ status' = Nothing /\ EndsActive(Nothing)
    /\ UNCHANGED <<lock, taskID, log, watches, crashes>>

RemoveStatus(p) ==
    /\ \/ At(p, "new-status", "new-id")
       \/ At(p, "reset-status", "closing")
    /\ status' = "none" /\ EndsActive("none")
    /\ UNCHANGED <<lock, taskID, log, watches, crashes>>

\* A new id has no events yet.
WriteTask(p) ==
    /\ At(p, "new-id", "new-active")
    /\ \E t \in Tasks : /\ log[t] = 0 /\ \A w \in Watchers : followed[w] # t
                        /\ taskID' = t
    /\ UNCHANGED <<lock, status, log, ended, watches, crashes>>

ActivateTask(p) ==
    /\ At(p, "new-active", "running")
    /\ status' = "active"
    /\ UNCHANGED <<lock, taskID, log, ended, watches, crashes>>

\* --decision, --fix and --resume set the status before they call a model; a stop
\* whose command died before it wrote the status is resumed from active.
ContinueTask(p) ==
    /\ At(p, "locked", "running")
    /\ status \in {"waiting", "active"}
    /\ status' = "active"
    /\ UNCHANGED <<lock, taskID, log, ended, watches, crashes>>

\* The events of a call are appended as they come in.
AppendEvent(p) ==
    /\ pc[p] = "running"
    /\ taskID # Nothing /\ log[taskID] < MaxEvents
    /\ log' = [log EXCEPT ![taskID] = @ + 1]
    /\ UNCHANGED <<lock, pc, taskID, status, ended, watches, crashes>>

Finish(p) ==
    /\ At(p, "running", "closing")
    /\ \E s \in {"waiting", "complete"} : status' = s /\ EndsActive(s)
    /\ UNCHANGED <<lock, taskID, log, watches, crashes>>

\* A command is refused by the task it finds, or ends with WORKER_ERROR: either
\* way the status stays as it is.
Fail(p) ==
    /\ \/ At(p, "locked", "closing")
       \/ At(p, "running", "closing")
    /\ UNCHANGED <<lock, task, watches, crashes>>

-----------------------------------------------------------------------------
(* --status takes the flock for a moment to see whether it is free *)

ProbeOpen(q) ==
    /\ At(q, "off", "opened")
    /\ lockFile # Nothing
    /\ opened' = [opened EXCEPT ![q] = lockFile]
    /\ UNCHANGED <<lockFile, owner, task, watches, crashes>>

ProbeHeld(q) ==
    /\ At(q, "opened", "off")
    /\ owner[opened[q]] # Nothing
    /\ Release(q)
    /\ UNCHANGED <<lockFile, task, watches, crashes>>

ProbeFree(q) ==
    /\ At(q, "opened", "unlock")
    /\ owner[opened[q]] = Nothing
    /\ owner' = [owner EXCEPT ![opened[q]] = q]
    /\ UNCHANGED <<lockFile, opened, task, watches, crashes>>

ProbeUnlock(q) ==
    /\ At(q, "unlock", "off")
    /\ Release(q)
    /\ UNCHANGED <<lockFile, task, watches, crashes>>

-----------------------------------------------------------------------------
(* --watch *)

Watch(w, from, to) == wpc[w] = from /\ wpc' = [wpc EXCEPT ![w] = to]
Elsewhere == UNCHANGED <<lock, pc, task, crashes>>

StartWatch(w) ==
    /\ taskID # Nothing
    /\ Watch(w, "off", "open")
    /\ followed' = [followed EXCEPT ![w] = taskID]
    /\ shown' = [shown EXCEPT ![w] = 0]
    /\ Elsewhere

EndWatch(w, from) ==
    /\ Watch(w, from, "off")
    /\ followed' = [followed EXCEPT ![w] = Nothing]

\* A task without events has no log to follow.
OpenLog(w) ==
    /\ \/ EndWatch(w, "open") /\ log[followed[w]] = 0
       \/ Watch(w, "open", "first-drain") /\ log[followed[w]] > 0 /\ UNCHANGED followed
    /\ UNCHANGED shown
    /\ Elsewhere

Drain(w) == shown' = [shown EXCEPT ![w] = log[followed[w]]]

FirstDrain(w) ==
    /\ Watch(w, "first-drain", "first-task")
    /\ Drain(w)
    /\ UNCHANGED followed
    /\ Elsewhere

\* An absent id is no other task.
Switched(w) == taskID \notin {Nothing, followed[w]}

\* Variant: the watch waits for the task to be replaced.
LeftActiveNever == FALSE

LeftActive == status # "active"

\* The state is read after the saved events are shown.
FirstCheck(w) ==
    /\ \/ Switched(w) /\ EndWatch(w, "first-task")
       \/ ~Switched(w) /\ Watch(w, "first-task", "first-status") /\ UNCHANGED followed
       \/ LeftActive /\ EndWatch(w, "first-status")
       \/ ~LeftActive /\ Watch(w, "first-status", "wait") /\ UNCHANGED followed
    /\ UNCHANGED shown
    /\ Elsewhere

\* Every interval: the id, then the status, then what was appended.
ReadTask(w) ==
    /\ \/ Switched(w) /\ Watch(w, "wait", "last-drain")
       \/ ~Switched(w) /\ Watch(w, "wait", "status")
    /\ UNCHANGED <<followed, shown>>
    /\ Elsewhere

ReadStatus(w) ==
    /\ \/ LeftActive /\ Watch(w, "status", "last-drain")
       \/ ~LeftActive /\ Watch(w, "status", "drain")
    /\ UNCHANGED <<followed, shown>>
    /\ Elsewhere

DrainOn(w) ==
    /\ Watch(w, "drain", "wait")
    /\ Drain(w)
    /\ UNCHANGED followed
    /\ Elsewhere

\* Variant: the end of the task is taken to be the end of its events.
ExitWithoutDrain(w) ==
    /\ EndWatch(w, "last-drain")
    /\ UNCHANGED shown
    /\ Elsewhere

DrainAndExit(w) ==
    /\ EndWatch(w, "last-drain")
    /\ Drain(w)
    /\ Elsewhere

-----------------------------------------------------------------------------

CommandStep(p) ==
    \/ Open(p) \/ Acquire(p) \/ Refused(p) \/ Close(p) \/ Crash(p)
    \/ RemoveTask(p) \/ RemoveStatus(p) \/ WriteTask(p) \/ ActivateTask(p)
    \/ ContinueTask(p) \/ AppendEvent(p) \/ Finish(p) \/ Fail(p)
ProbeStep(q) == ProbeOpen(q) \/ ProbeHeld(q) \/ ProbeFree(q) \/ ProbeUnlock(q)
Following(w) == \/ OpenLog(w) \/ FirstDrain(w) \/ FirstCheck(w) \/ ReadTask(w)
                \/ ReadStatus(w) \/ DrainOn(w) \/ DrainAndExit(w)

Next == \/ \E p \in Processes : CommandStep(p)
        \/ \E q \in Probes : ProbeStep(q)
        \/ \E w \in Watchers : StartWatch(w) \/ Following(w)

\* A watch polls as long as it runs; nothing obliges a command to go on.
Spec == Init /\ [][Next]_vars /\ \A w \in Watchers : WF_vars(Following(w))

-----------------------------------------------------------------------------
(* Properties *)

LockType ==
    /\ lockFile \in Files \cup {Nothing}
    /\ opened \in [Lockers -> Files \cup {Nothing}]
    /\ owner \in [Files -> Lockers \cup {Nothing}]
    /\ pc \in [Lockers -> CommandLabels \cup ProbeLabels]

TaskType ==
    /\ taskID \in Tasks \cup {Nothing} /\ status \in Statuses
    /\ log \in [Tasks -> 0 .. MaxEvents] /\ ended \in [Tasks -> 0 .. MaxEvents]
    /\ crashes \in 0 .. MaxCrashes

WatchType ==
    /\ wpc \in [Watchers -> WatchLabels]
    /\ followed \in [Watchers -> Tasks \cup {Nothing}]
    /\ shown \in [Watchers -> 0 .. MaxEvents]

\* Every variable has its type.
ObserversType == LockType /\ TaskType /\ WatchType

\* Two commands never change the task at once, although each opens the lock file
\* before it locks it, processes die at any point and --status locks the same
\* file: no process locks a file that another has replaced (AcquireRepoLock).
InCommand(p) == pc[p] \notin {"off", "opened"}
OneCommandRuns ==
    \A p, r \in Processes : InCommand(p) /\ InCommand(r) => p = r

\* README.md:295: a watch that followed its task until it left the active status,
\* or was replaced, has shown every event written until then, whatever command
\* went on with the task meanwhile (watchTaskEvents).
FollowedToTheEnd ==
    [][\A w \in Watchers : wpc[w] = "last-drain" /\ wpc'[w] = "off"
          => shown'[w] >= ended[followed[w]]]_vars

\* README.md:295 and watch.go:57 say so of every watch that ends at such a status.
WatchShowsAllEvents ==
    [][\A w \in Watchers : wpc[w] \notin {"off", "open"} /\ wpc'[w] = "off"
          => shown'[w] >= ended[followed[w]]]_vars

\* watch.go:23: a watch ends once its task has left the active status for good, or
\* another task stays in its place.  Not "one or the other at any time": the id and
\* the status are read one after the other, and a poll may meet each between two
\* tasks.  A task whose command died keeps its watch waiting.
WatchEnds ==
    \A w \in Watchers :
        (wpc[w] # "off" /\ ([](status # "active") \/ []Switched(w))) ~> wpc[w] = "off"

\* lock_unix.go:25 and lock_probe_unix.go:12: a command is refused only beside
\* another command, for the probe of --status excludes nobody.
RefusedOnlyByCommand ==
    [][\A p \in Processes : Refused(p) => owner[opened[p]] \in Processes]_vars

=============================================================================
