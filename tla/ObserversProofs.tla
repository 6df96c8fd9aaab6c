-------------------------- MODULE ObserversProofs --------------------------
(***************************************************************************)
(* One command at a time, and watches that show all that was written, for  *)
(* any number of commands, probes and watches.                             *)
(*                                                                         *)
(* OneCommandRuns says nothing about files, so it is not inductive.  Every *)
(* process that is past its open has the one lock file open, and whoever   *)
(* is past the flock owns that file: Locking says so, and two owners of    *)
(* one file are one process.                                               *)
(*                                                                         *)
(* The second part is about the logs and the watches: whom a watch follows *)
(* while it runs, and that a log only grows (Watching).                    *)
(***************************************************************************)
EXTENDS Observers, TLAPS

Locking ==
    /\ LockType
    /\ \A p \in Lockers : pc[p] = "off" => opened[p] = Nothing
    /\ \A p \in Lockers : pc[p] # "off" => opened[p] = lockFile /\ lockFile # Nothing
    /\ \A p \in Lockers : InCommand(p) => owner[lockFile] = p
    /\ \A f \in Files : owner[f] # Nothing => InCommand(owner[f])

-----------------------------------------------------------------------------
(* Lemmas *)

\* While no lock file exists every inode is fresh, so the created one is an inode.
LEMMA FreshFileIsNew ==
    ASSUME Locking, lockFile = Nothing
    PROVE  FreshFile \in Files
<1>1. \A p \in Lockers : opened[p] = Nothing
  BY DEF Locking
<1>2. \E f \in Files : \A p \in Lockers : opened[p] # f
  BY <1>1, FilesAssumption, NobodyAssumption
<1> QED
  BY <1>2 DEF FreshFile

\* Giving up the lock, closing the file and going off keeps the invariant, by
\* whichever way a process ends (Close, Refused, a probe's end, a death).
LEMMA ReleaseKeepsLocking ==
    ASSUME Locking, NEW p \in Lockers, Release(p),
           pc' = [pc EXCEPT ![p] = "off"], UNCHANGED lockFile
    PROVE  Locking'
<1> USE DEF Locking, LockType, Release
<1>1. LockType'
  BY DEF CommandLabels
<1>2. \A q \in Lockers : /\ pc'[q] = "off" => opened'[q] = Nothing
                         /\ pc'[q] # "off" => opened'[q] = lockFile' /\ lockFile' # Nothing
  OBVIOUS
<1>3. \A q \in Lockers : InCommand(q)' => owner'[lockFile'] = q
  <2> SUFFICES ASSUME NEW q \in Lockers, InCommand(q)'
               PROVE  owner'[lockFile'] = q
    OBVIOUS
  <2>1. q # p /\ InCommand(q)
    BY DEF InCommand
  <2>2. owner[lockFile] = q /\ lockFile \in Files
    BY <2>1 DEF InCommand
  <2> QED
    BY <2>1, <2>2
<1>4. \A f \in Files : owner'[f] # Nothing => InCommand(owner[f])'
  <2> SUFFICES ASSUME NEW f \in Files, owner'[f] # Nothing
               PROVE  InCommand(owner[f])'
    OBVIOUS
  <2>1. owner'[f] = owner[f] /\ owner[f] # p /\ owner[f] \in Lockers
    OBVIOUS
  <2> QED
    BY <2>1 DEF InCommand
<1> QED
  BY <1>1, <1>2, <1>3, <1>4

\* A free lock file is taken by one process, which goes past its flock.
LEMMA TakeKeepsLocking ==
    ASSUME Locking, NEW p \in Lockers, NEW l \in CommandLabels \cup ProbeLabels,
           l \notin {"off", "opened"},
           pc[p] = "opened", pc' = [pc EXCEPT ![p] = l],
           owner[opened[p]] = Nothing, owner' = [owner EXCEPT ![opened[p]] = p],
           UNCHANGED <<lockFile, opened>>
    PROVE  Locking'
<1> USE DEF Locking, LockType
<1>1. opened[p] = lockFile /\ lockFile \in Files
  OBVIOUS
<1>2. \A q \in Lockers : ~InCommand(q)
  <2> SUFFICES ASSUME NEW q \in Lockers, InCommand(q)
               PROVE  FALSE
    OBVIOUS
  <2>1. owner[lockFile] = q
    OBVIOUS
  <2> QED
    BY <1>1, <2>1, NobodyAssumption DEF Lockers
<1>3. LockType'
  BY <1>1
<1>4. \A q \in Lockers : /\ pc'[q] = "off" => opened'[q] = Nothing
                         /\ pc'[q] # "off" => opened'[q] = lockFile' /\ lockFile' # Nothing
  BY <1>1
<1>5. \A q \in Lockers : InCommand(q)' => owner'[lockFile'] = q
  BY <1>1, <1>2 DEF InCommand
<1>6. \A f \in Files : owner'[f] # Nothing => InCommand(owner[f])'
  <2> SUFFICES ASSUME NEW f \in Files, owner'[f] # Nothing
               PROVE  InCommand(owner[f])'
    OBVIOUS
  <2>1. CASE f = lockFile
    BY <1>1, <2>1 DEF InCommand
  <2>2. CASE f # lockFile
    <3>1. owner[f] \in Lockers /\ InCommand(owner[f])
      BY <1>1, <2>2
    <3> QED
      BY <1>2, <3>1
  <2> QED
    BY <2>1, <2>2
<1> QED
  BY <1>3, <1>4, <1>5, <1>6

\* What a command does between its flock and its end leaves the lock alone.
LEMMA WorkKeepsLocking ==
    ASSUME Locking, NEW p \in Lockers, NEW l \in CommandLabels,
           InCommand(p), l \notin {"off", "opened"},
           pc' = [pc EXCEPT ![p] = l], UNCHANGED lock
    PROVE  Locking'
<1> USE DEF Locking, LockType, lock
<1>1. LockType'
  OBVIOUS
<1>2. \A q \in Lockers : InCommand(q)' <=> InCommand(q)
  BY DEF InCommand
<1>3. \A q \in Lockers : pc'[q] = "off" <=> pc[q] = "off"
  BY DEF InCommand
<1>4. \A f \in Files : owner'[f] # Nothing => InCommand(owner[f])'
  BY <1>2
<1> QED
  BY <1>1, <1>2, <1>3, <1>4

-----------------------------------------------------------------------------
(* The steps *)

LEMMA LockingInit == Init => Locking
BY NobodyAssumption DEF Init, Locking, LockType, InCommand, CommandLabels

LEMMA OpenKeepsLocking ==
    ASSUME Locking, NEW p \in Processes, Open(p)
    PROVE  Locking'
<1> USE DEF Locking, LockType, Open, At, Lockers
<1>1. lockFile' \in Files /\ opened' = [opened EXCEPT ![p] = lockFile']
  BY FreshFileIsNew
<1>2. LockType'
  BY <1>1 DEF CommandLabels
<1>3. \A q \in Lockers : InCommand(q)' <=> InCommand(q)
  BY DEF InCommand
<1>4. \A q \in Lockers : q # p /\ pc[q] # "off" => lockFile' = lockFile
  OBVIOUS
<1>5. \A q \in Lockers : /\ pc'[q] = "off" => opened'[q] = Nothing
                         /\ pc'[q] # "off" => opened'[q] = lockFile' /\ lockFile' # Nothing
  BY <1>1, <1>4, NobodyAssumption
<1>6. \A q \in Lockers : InCommand(q)' => owner'[lockFile'] = q
  BY <1>3, <1>4 DEF InCommand
<1>7. \A f \in Files : owner'[f] # Nothing => InCommand(owner[f])'
  BY <1>3
<1> QED
  BY <1>2, <1>5, <1>6, <1>7

LEMMA CommandKeepsLocking ==
    ASSUME Locking, NEW p \in Processes, CommandStep(p)
    PROVE  Locking'
<1> p \in Lockers
  BY DEF Lockers
<1>1. CASE Open(p)
  BY <1>1, OpenKeepsLocking
<1>2. CASE Acquire(p)
  BY <1>2, TakeKeepsLocking, "locked" \in CommandLabels DEF Acquire, At, CommandLabels
<1>3. CASE Refused(p) \/ Close(p) \/ Crash(p)
  BY <1>3, ReleaseKeepsLocking DEF Refused, Close, Crash, At
<1>4. CASE \/ RemoveTask(p) \/ RemoveStatus(p) \/ WriteTask(p) \/ ActivateTask(p)
           \/ ContinueTask(p) \/ Finish(p) \/ Fail(p)
  <2>1. PICK l \in CommandLabels : /\ l \notin {"off", "opened"}
                                   /\ pc' = [pc EXCEPT ![p] = l]
    BY <1>4 DEF RemoveTask, RemoveStatus, WriteTask, ActivateTask, ContinueTask,
                Finish, Fail, At, CommandLabels
  <2>2. InCommand(p) /\ UNCHANGED lock
    BY <1>4 DEF RemoveTask, RemoveStatus, WriteTask, ActivateTask, ContinueTask,
                Finish, Fail, At, InCommand
  <2> QED
    BY <2>1, <2>2, WorkKeepsLocking
<1>5. CASE AppendEvent(p)
  BY <1>5 DEF AppendEvent, Locking, LockType, InCommand, lock
<1> QED
  BY <1>1, <1>2, <1>3, <1>4, <1>5 DEF CommandStep

LEMMA ProbeKeepsLocking ==
    ASSUME Locking, NEW q \in Probes, ProbeStep(q)
    PROVE  Locking'
<1> q \in Lockers
  BY DEF Lockers
<1>1. CASE ProbeOpen(q)
  <2> USE DEF Locking, LockType
  <2>1. /\ lockFile \in Files /\ opened' = [opened EXCEPT ![q] = lockFile]
        /\ pc[q] = "off" /\ pc' = [pc EXCEPT ![q] = "opened"]
        /\ UNCHANGED <<lockFile, owner>>
    BY <1>1 DEF ProbeOpen, At
  <2>2. LockType'
    BY <2>1 DEF CommandLabels
  <2>3. \A r \in Lockers : InCommand(r)' <=> InCommand(r)
    BY <2>1 DEF InCommand
  <2>4. \A r \in Lockers : /\ pc'[r] = "off" => opened'[r] = Nothing
                           /\ pc'[r] # "off" => opened'[r] = lockFile' /\ lockFile' # Nothing
    BY <2>1, NobodyAssumption
  <2>5. \A f \in Files : owner'[f] # Nothing => InCommand(owner[f])'
    BY <2>1, <2>3
  <2> QED
    BY <2>1, <2>2, <2>3, <2>4, <2>5
<1>2. CASE ProbeFree(q)
  BY <1>2, TakeKeepsLocking DEF ProbeFree, At, ProbeLabels
<1>3. CASE ProbeHeld(q) \/ ProbeUnlock(q)
  BY <1>3, ReleaseKeepsLocking DEF ProbeHeld, ProbeUnlock, At
<1> QED
  BY <1>1, <1>2, <1>3 DEF ProbeStep

\* Steps that leave the lock and the positions alone, those of a watch among them.
LEMMA OthersKeepLocking ==
    ASSUME Locking, UNCHANGED <<lock, pc>>
    PROVE  Locking'
BY DEF Locking, LockType, InCommand, lock

LEMMA WatchLeavesLock ==
    ASSUME NEW w \in Watchers, StartWatch(w) \/ Following(w)
    PROVE  UNCHANGED <<lock, pc>>
BY DEF StartWatch, Following, OpenLog, FirstDrain, FirstCheck, ReadTask, ReadStatus,
       DrainOn, DrainAndExit, Elsewhere

-----------------------------------------------------------------------------

\* Whoever is past its flock owns the one lock file, always (AcquireRepoLock).
THEOREM LockingInvariant == Spec => []Locking
<1>1. Locking /\ [Next]_vars => Locking'
  <2> SUFFICES ASSUME Locking, [Next]_vars
               PROVE  Locking'
    OBVIOUS
  <2>1. CASE \E p \in Processes : CommandStep(p)
    BY <2>1, CommandKeepsLocking
  <2>2. CASE \E q \in Probes : ProbeStep(q)
    BY <2>2, ProbeKeepsLocking
  <2>3. CASE \E w \in Watchers : StartWatch(w) \/ Following(w)
    BY <2>3, WatchLeavesLock, OthersKeepLocking
  <2>4. CASE UNCHANGED vars
    BY <2>4, OthersKeepLocking DEF vars
  <2> QED
    BY <2>1, <2>2, <2>3, <2>4 DEF Next
<1> QED
  BY <1>1, LockingInit, PTL DEF Spec

\* Two commands never run at once, for any number of processes, probes and deaths:
\* what every module about the task of one repository starts from.
THEOREM OneCommand == Spec => []OneCommandRuns
<1>1. Locking => OneCommandRuns
  BY DEF Locking, OneCommandRuns, Lockers
<1> QED
  BY <1>1, LockingInvariant, PTL

-----------------------------------------------------------------------------
(* The logs and the watches *)

\* A watch follows a task for as long as it runs, and no log gets shorter than it
\* was when the status last left active.
Watching ==
    /\ TaskType /\ WatchType
    /\ \A w \in Watchers : wpc[w] # "off" => followed[w] \in Tasks
    /\ \A t \in Tasks : ended[t] <= log[t]

\* A command lengthens a log and never shortens it.
LEMMA CommandKeepsWatching ==
    ASSUME Watching, NEW p \in Processes, CommandStep(p)
    PROVE  Watching'
<1>1. UNCHANGED watches /\ crashes' \in 0 .. MaxCrashes
  <2>1. CASE Crash(p)
    BY <2>1, EventBoundAssumption DEF Crash, Watching, TaskType
  <2>2. CASE ~Crash(p)
    BY <2>2 DEF CommandStep, Open, Acquire, Refused, Close, RemoveTask, RemoveStatus, WriteTask,
                ActivateTask, ContinueTask, AppendEvent, Finish, Fail, task, Watching, TaskType
  <2> QED BY <2>1, <2>2
<1>2. taskID' \in Tasks \cup {Nothing} /\ status' \in Statuses
  BY DEF CommandStep, Open, Acquire, Refused, Close, Crash, RemoveTask, RemoveStatus, WriteTask,
         ActivateTask, ContinueTask, AppendEvent, Finish, Fail, task, Watching, TaskType, Statuses
<1>3. CASE AppendEvent(p)
  <2>1. taskID \in Tasks /\ log[taskID] < MaxEvents /\ log' = [log EXCEPT ![taskID] = @ + 1] /\ ended' = ended
    BY <1>3 DEF AppendEvent, Watching, TaskType
  <2>2. log' \in [Tasks -> 0 .. MaxEvents] /\ \A t \in Tasks : log[t] <= log'[t] /\ ended[t] \in Int /\ log'[t] \in Int
    BY <2>1, EventBoundAssumption DEF Watching, TaskType
  <2>3. \A t \in Tasks : ended'[t] <= log'[t]
    BY <2>1, <2>2, EventBoundAssumption DEF Watching, TaskType
  <2> QED
    BY <1>1, <1>2, <2>1, <2>2, <2>3 DEF Watching, TaskType, WatchType, watches
<1>4. CASE ~AppendEvent(p)
  <2>1. log' = log
    BY <1>4 DEF CommandStep, Open, Acquire, Refused, Close, Crash, RemoveTask, RemoveStatus, WriteTask,
                ActivateTask, ContinueTask, Finish, Fail, task
  <2>2. ended' \in {ended, log}
    BY <1>4 DEF CommandStep, Open, Acquire, Refused, Close, Crash, RemoveTask, RemoveStatus, WriteTask,
                ActivateTask, ContinueTask, Finish, Fail, task, EndsActive
  <2>3. \A t \in Tasks : log[t] \in Int /\ log[t] <= log[t]
    BY EventBoundAssumption DEF Watching, TaskType
  <2> QED
    BY <1>1, <1>2, <2>1, <2>2, <2>3 DEF Watching, TaskType, WatchType, watches
<1> QED
  BY <1>3, <1>4

\* A watch follows the task it read, one that exists.
LEMMA WatchKeepsWatching ==
    ASSUME Watching, NEW w \in Watchers, StartWatch(w) \/ Following(w)
    PROVE  Watching'
<1>1. UNCHANGED <<task, crashes>>
  BY DEF StartWatch, Following, OpenLog, FirstDrain, FirstCheck, ReadTask, ReadStatus,
         DrainOn, DrainAndExit, Elsewhere
<1>2. /\ wpc' \in [Watchers -> WatchLabels]
      /\ \A v \in Watchers : v # w => wpc'[v] = wpc[v]
  BY DEF StartWatch, Following, OpenLog, FirstDrain, FirstCheck, ReadTask, ReadStatus,
         DrainOn, DrainAndExit, Watch, EndWatch, Watching, WatchType, WatchLabels
<1>3. /\ followed' \in [Watchers -> Tasks \cup {Nothing}]
      /\ \A v \in Watchers : v # w => followed'[v] = followed[v]
      /\ wpc'[w] # "off" => followed'[w] \in Tasks
  <2>1. CASE StartWatch(w)
    BY <2>1 DEF StartWatch, Watching, WatchType, TaskType
  <2>2. CASE Following(w)
    <3>1. wpc[w] # "off"
      BY <2>2 DEF Following, OpenLog, FirstDrain, FirstCheck, ReadTask, ReadStatus,
                  DrainOn, DrainAndExit, Watch, EndWatch
    <3>2. \/ followed' = followed
          \/ followed' = [followed EXCEPT ![w] = Nothing] /\ wpc' = [wpc EXCEPT ![w] = "off"]
      BY <2>2 DEF Following, OpenLog, FirstDrain, FirstCheck, ReadTask, ReadStatus,
                  DrainOn, DrainAndExit, Watch, EndWatch
    <3> QED BY <3>1, <3>2 DEF Watching, WatchType
  <2> QED BY <2>1, <2>2
<1>4. shown' \in [Watchers -> 0 .. MaxEvents]
  <2>1. CASE StartWatch(w)
    BY <2>1, EventBoundAssumption DEF StartWatch, Watching, WatchType
  <2>2. CASE Following(w)
    <3>1. wpc[w] # "off"
      BY <2>2 DEF Following, OpenLog, FirstDrain, FirstCheck, ReadTask, ReadStatus,
                  DrainOn, DrainAndExit, Watch, EndWatch
    <3>2. shown' = shown \/ Drain(w)
      BY <2>2 DEF Following, OpenLog, FirstDrain, FirstCheck, ReadTask, ReadStatus, DrainOn, DrainAndExit
    <3>3. log[followed[w]] \in 0 .. MaxEvents
      BY <3>1 DEF Watching, TaskType
    <3> QED BY <3>2, <3>3 DEF Watching, WatchType, Drain
  <2> QED BY <2>1, <2>2
<1>5. \A v \in Watchers : wpc'[v] # "off" => followed'[v] \in Tasks
  BY <1>2, <1>3 DEF Watching
<1> QED
  BY <1>1, <1>2, <1>3, <1>4, <1>5 DEF Watching, TaskType, WatchType, task

\* The invariant of the logs and watches holds.
THEOREM WatchingInvariant == Spec => []Watching
<1>1. Init => Watching
  BY EventBoundAssumption DEF Init, Watching, TaskType, WatchType, Statuses, WatchLabels
<1>2. Watching /\ [Next]_vars => Watching'
  <2> SUFFICES ASSUME Watching, [Next]_vars
               PROVE  Watching'
    OBVIOUS
  <2>1. CASE \E p \in Processes : CommandStep(p)
    BY <2>1, CommandKeepsWatching
  <2>2. CASE \E q \in Probes : ProbeStep(q)
    <3>1. UNCHANGED <<task, watches, crashes>>
      BY <2>2 DEF ProbeStep, ProbeOpen, ProbeHeld, ProbeFree, ProbeUnlock
    <3> QED BY <3>1 DEF Watching, TaskType, WatchType, task, watches
  <2>3. CASE \E w \in Watchers : StartWatch(w) \/ Following(w)
    BY <2>3, WatchKeepsWatching
  <2>4. CASE UNCHANGED vars
    BY <2>4 DEF vars, Watching, TaskType, WatchType, task, watches
  <2> QED
    BY <2>1, <2>2, <2>3, <2>4 DEF Next
<1> QED
  BY <1>1, <1>2, PTL DEF Spec

\* Every variable has its type, for any number of processes, files and events.
THEOREM ObserversTypeCorrect == Spec => []ObserversType
<1>1. Locking /\ Watching => ObserversType
  BY DEF Locking, Watching, ObserversType
<1> QED
  BY <1>1, LockingInvariant, WatchingInvariant, PTL

\* A watch that followed its task to the end of its active status has shown all
\* that was written until then, however many commands went on with the task and
\* died meanwhile: nothing but the last drain ends it, and a log only grows.
THEOREM WatchFollowsToTheEnd == Spec => FollowedToTheEnd
<1>1. Watching /\ [Next]_vars =>
        [\A w \in Watchers : wpc[w] = "last-drain" /\ wpc'[w] = "off"
           => shown'[w] >= ended[followed[w]]]_vars
  <2> SUFFICES ASSUME Watching, Next, NEW w \in Watchers, wpc[w] = "last-drain", wpc'[w] = "off"
               PROVE  shown'[w] >= ended[followed[w]]
    OBVIOUS
  <2>1. ~UNCHANGED watches
    BY DEF watches
  <2>2. PICK v \in Watchers : StartWatch(v) \/ Following(v)
    <3>1. ~(\E p \in Processes : CommandStep(p))
      BY <2>1 DEF CommandStep, Open, Acquire, Refused, Close, Crash, RemoveTask, RemoveStatus,
                  WriteTask, ActivateTask, ContinueTask, AppendEvent, Finish, Fail
    <3>2. ~(\E q \in Probes : ProbeStep(q))
      BY <2>1 DEF ProbeStep, ProbeOpen, ProbeHeld, ProbeFree, ProbeUnlock
    <3> QED BY <3>1, <3>2 DEF Next
  <2>3. v = w
    <3>1. \E l \in WatchLabels : wpc' = [wpc EXCEPT ![v] = l]
      BY <2>2 DEF StartWatch, Following, OpenLog, FirstDrain, FirstCheck, ReadTask, ReadStatus,
                  DrainOn, DrainAndExit, Watch, EndWatch, WatchLabels
    <3> QED BY <3>1 DEF Watching, WatchType
  <2>4. DrainAndExit(w)
    BY <2>2, <2>3 DEF StartWatch, Following, OpenLog, FirstDrain, FirstCheck, ReadTask,
                      ReadStatus, DrainOn, Watch, EndWatch, Watching, WatchType
  <2>5. shown'[w] = log[followed[w]] /\ followed[w] \in Tasks
    BY <2>4 DEF DrainAndExit, Drain, Watching, WatchType
  <2>6. ended[followed[w]] <= log[followed[w]] /\ ended[followed[w]] \in Int /\ log[followed[w]] \in Int
    BY <2>5, EventBoundAssumption DEF Watching, TaskType
  <2> QED
    BY <2>5, <2>6
<1> QED
  BY <1>1, WatchingInvariant, PTL DEF FollowedToTheEnd, Spec

=============================================================================
