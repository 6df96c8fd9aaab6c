---------------------------- MODULE MergeSettings ----------------------------
(***************************************************************************)
(* src/tools/merge-json: an install merges the managed fragment into       *)
(* settings.json and puts the user's local env override on top.  So that   *)
(* the override can be changed or removed later, the value each of its     *)
(* keys had underneath goes to a sidecar file beside the settings.  The    *)
(* two files are written one after the other, each by a temporary file and *)
(* a rename; when a write fails, both are put back.                        *)
(*                                                                         *)
(* The model keeps the env part of the settings (a key outside it is one   *)
(* no override is about) and the order of the writes.  A missing file is   *)
(* an empty one: the code treats them alike, except that it undoes a write *)
(* to a missing file by removing it.                                       *)
(*                                                                         *)
(* The worker's runner reads the same override over the same settings when *)
(* it builds the env of Claude (loadSettingEnv, buildChildEnv); the three  *)
(* keys it always sets itself are none of Keys.                            *)
(***************************************************************************)
EXTENDS Naturals

CONSTANTS Keys, Values,
          Absent,           \* a key that is not in the env, or a patch takes away
          Unset,            \* a key a patch, or the sidecar, says nothing about
          Malformed,        \* an override file the parser rejects
          Fragment,         \* what the managed fragment sets
          Empty,            \* the value that is an empty string
          Essential,        \* the keys a worker takes from the settings
          Inherited,        \* the keys a worker takes from its parent process
          MaxEdits,         \* bound on edits of settings and override
          MaxFailures,      \* bound on writes that fail
          MaxUndoFailures,  \* bound on undo writes that fail
          MaxCrashes        \* bound on installs that die

Envs == [Keys -> Values \cup {Absent}]
Patches == [Keys -> Values \cup {Absent, Unset}]

ASSUME MarkersAssumption == Absent \notin Values /\ Unset \notin Values \cup {Absent} /\ Malformed \notin Patches
ASSUME FragmentAssumption == Fragment \in [Keys -> Values \cup {Unset}]
ASSUME EnvAssumption == Empty \in Values /\ Essential \subseteq Keys /\ Inherited \subseteq Keys
ASSUME BoundsAssumption ==
    MaxEdits \in Nat /\ MaxFailures \in Nat /\ MaxUndoFailures \in Nat /\ MaxCrashes \in Nat

VARIABLES target,      \* the env of settings.json
          sidecar,     \* the baseline of each key the override owns, else Unset
          override,    \* the user's override file
          phase,       \* "idle", "commit", "rollback"
          todo,        \* the files still to write, or to put back
          new,         \* the contents to write
          restore,     \* the contents before the transaction
          outcome,     \* how the last install ended, "none" after an edit
          edits, failures, undoFailures, crashes

vars == <<target, sidecar, override, phase, todo, new, restore, outcome,
          edits, failures, undoFailures, crashes>>
files == <<target, sidecar>>
faults == <<failures, undoFailures, crashes>>

Contents == [target : Envs, sidecar : Patches]
Paths == {"target", "sidecar"}
NothingOwned == [k \in Keys |-> Unset]
Current == [target |-> target, sidecar |-> sidecar]

-----------------------------------------------------------------------------
(* The merge. *)

\* The baselines of the previous install put back.  The variant leaves them out.
RestoredNot(env, baselines) == env
Restored(env, baselines) ==
    [k \in Keys |-> IF baselines[k] = Unset THEN env[k] ELSE baselines[k]]

\* The fragment merged in: it wins over what the settings hold.
Merged(env) == [k \in Keys |-> IF Fragment[k] = Unset THEN env[k] ELSE Fragment[k]]

\* What the override's keys are without it.
Baselines(env, patch) == [k \in Keys |-> IF patch[k] = Unset THEN Unset ELSE env[k]]

Patched(env, patch) == [k \in Keys |-> IF patch[k] = Unset THEN env[k] ELSE patch[k]]

\* Both files as an install leaves them, from both files as it finds them.
\* The variant takes the baselines from the settings it found.
PlannedLate(found, patch) ==
    LET env == Merged(Restored(found.target, found.sidecar))
    IN  [target |-> Patched(env, patch), sidecar |-> Baselines(found.target, patch)]
Planned(found, patch) ==
    LET env == Merged(Restored(found.target, found.sidecar))
    IN  [target |-> Patched(env, patch), sidecar |-> Baselines(env, patch)]

\* What a worker's Claude gets from its parent, the settings and the override.
\* The variant keeps a key of the parent that the override takes away.
FromSettings(env, k) == k \in Essential /\ env[k] \notin {Absent, Empty}
ChildEnvKeeps(env, patch, parent) ==
    [k \in Keys |-> IF patch[k] \in Values THEN patch[k]
                    ELSE IF patch[k] = Unset /\ FromSettings(env, k) THEN env[k]
                    ELSE IF k \in Inherited THEN parent[k] ELSE Absent]
ChildEnv(env, patch, parent) ==
    [k \in Keys |-> IF patch[k] # Unset THEN patch[k]
                    ELSE IF FromSettings(env, k) THEN env[k]
                    ELSE IF k \in Inherited THEN parent[k] ELSE Absent]

\* The files that change; the settings are always written before the sidecar.
Changed(before, after) == {p \in Paths : before[p] # after[p]}
First(paths) == IF "target" \in paths THEN "target" ELSE "sidecar"

-----------------------------------------------------------------------------
Init ==
    /\ target \in Envs
    /\ sidecar = NothingOwned
    /\ override = NothingOwned
    /\ phase = "idle" /\ todo = {}
    /\ new = Current /\ restore = Current
    /\ outcome = "none"
    /\ edits = 0 /\ failures = 0 /\ undoFailures = 0 /\ crashes = 0

\* The user, or Claude, edits the settings between two installs.
Edit(k, v) ==
    /\ phase = "idle" /\ edits < MaxEdits
    /\ target' = [target EXCEPT ![k] = v]
    /\ edits' = edits + 1
    /\ outcome' = "none"
    /\ UNCHANGED <<sidecar, override, phase, todo, new, restore, faults>>

\* The user writes another override, or one the parser rejects.
ChangeOverride(patch) ==
    /\ phase = "idle" /\ edits < MaxEdits
    /\ override' = patch
    /\ edits' = edits + 1
    /\ outcome' = "none"
    /\ UNCHANGED <<files, phase, todo, new, restore, faults>>

\* A malformed override stops the install before anything is written.
Refuse ==
    /\ phase = "idle" /\ override = Malformed
    /\ outcome' = "failed"
    /\ UNCHANGED <<files, override, phase, todo, new, restore, edits, faults>>

Unchanged ==
    /\ phase = "idle" /\ override # Malformed
    /\ Planned(Current, override) = Current
    /\ outcome' = "done"
    /\ UNCHANGED <<files, override, phase, todo, new, restore, edits, faults>>

\* An install reads everything, works out both files and notes what the files
\* it will write hold now.
Begin ==
    /\ phase = "idle" /\ override # Malformed
    /\ Planned(Current, override) # Current
    /\ new' = Planned(Current, override)
    /\ todo' = Changed(Current, new')
    /\ restore' = Current
    /\ phase' = "commit"
    /\ outcome' = "none"
    /\ UNCHANGED <<files, override, edits, faults>>

\* The file p holds the contents c: one rename.
Put(p, c) ==
    /\ target' = IF p = "target" THEN c.target ELSE target
    /\ sidecar' = IF p = "sidecar" THEN c.sidecar ELSE sidecar

Write ==
    /\ phase = "commit"
    /\ Put(First(todo), new)
    /\ todo' = todo \ {First(todo)}
    /\ phase' = IF todo' = {} THEN "idle" ELSE "commit"
    /\ outcome' = IF todo' = {} THEN "done" ELSE "none"
    /\ UNCHANGED <<override, new, restore, edits, faults>>

\* A write fails: every planned file is put back, in the same order.  The
\* variant puts back only what was not written yet.
WriteFailsRest ==
    /\ phase = "commit" /\ failures < MaxFailures
    /\ phase' = "rollback"
    /\ todo' = todo
    /\ failures' = failures + 1
    /\ UNCHANGED <<files, override, new, restore, outcome, edits, undoFailures, crashes>>
WriteFails ==
    /\ phase = "commit" /\ failures < MaxFailures
    /\ phase' = "rollback"
    /\ todo' = Changed(restore, new)
    /\ failures' = failures + 1
    /\ UNCHANGED <<files, override, new, restore, outcome, edits, undoFailures, crashes>>

\* The next file is behind the rollback, put back or not.  The variant never
\* leaves the rollback.
AfterUndoStays ==
    /\ todo' = todo \ {First(todo)}
    /\ UNCHANGED <<phase, outcome, override, new, restore, edits, failures, crashes>>
AfterUndo ==
    /\ todo' = todo \ {First(todo)}
    /\ phase' = IF todo' = {} THEN "idle" ELSE "rollback"
    /\ outcome' = IF todo' = {} THEN "failed" ELSE outcome
    /\ UNCHANGED <<override, new, restore, edits, failures, crashes>>

Undo ==
    /\ phase = "rollback"
    /\ Put(First(todo), restore)
    /\ AfterUndo
    /\ UNCHANGED undoFailures

\* The rollback goes on after a file it could not put back; the error tells.
UndoFails ==
    /\ phase = "rollback" /\ undoFailures < MaxUndoFailures
    /\ undoFailures' = undoFailures + 1
    /\ AfterUndo
    /\ UNCHANGED files

\* The install is killed: nothing is put back.
Crash ==
    /\ phase # "idle" /\ crashes < MaxCrashes
    /\ phase' = "idle" /\ todo' = {}
    /\ outcome' = "none"
    /\ crashes' = crashes + 1
    /\ UNCHANGED <<files, override, new, restore, edits, failures, undoFailures>>

User ==
    \/ \E k \in Keys, v \in Values \cup {Absent} : Edit(k, v)
    \/ \E patch \in Patches \cup {Malformed} : ChangeOverride(patch)

Install == Refuse \/ Unchanged \/ Begin \/ Write \/ WriteFails \/ Undo \/ UndoFails

Next == User \/ Install \/ Crash

Spec == Init /\ [][Next]_vars

-----------------------------------------------------------------------------
(* Properties. *)

\* The type invariant: what every file and every variable of an install may hold.
MergeType ==
    /\ target \in Envs /\ sidecar \in Patches
    /\ override \in Patches \cup {Malformed}
    /\ phase \in {"idle", "commit", "rollback"}
    /\ todo \subseteq Paths /\ (phase # "idle" => todo # {})
    /\ new \in Contents /\ restore \in Contents
    /\ outcome \in {"none", "done", "failed"}
    /\ edits \in Nat /\ failures \in Nat /\ undoFailures \in Nat /\ crashes \in Nat

\* An install in progress counts from its last write: until then it may still
\* be undone, and the settings are those it found.
Settled == IF phase = "idle" THEN Current ELSE restore
OwnEnv == Restored(Settled.target, Settled.sidecar)
OwnedKeys == {k \in Keys : Settled.sidecar[k] # Unset}
Layers == INSTANCE EnvLayers WITH own <- OwnEnv, shown <- Settled.target,
                             owned <- OwnedKeys, damaged <- crashes + undoFailures > 0

\* Through edits of the settings and the override, and writes that fail, the
\* two files keep the user's env, the fragment and the override as separate
\* layers: an install either happens as a whole or not at all (the transaction
\* of mergeFilesWithWriter), and what an override hides is never lost, unless an
\* install is killed or a rollback fails, and then only what EnvLayers!Torn says.
KeepsLayers == Layers!Spec

\* When an install has succeeded and nobody edited anything, another one finds
\* nothing to change (the "unchanged" answer of mergeFiles).
RerunChangesNothing ==
    phase = "idle" /\ outcome = "done" => Planned(Current, override) = Current

\* An install that reports a failure has left both files as it found them, when
\* its rollback could write (commitTransaction and rollbackFiles).
FailureChangesNothing ==
    [][outcome' = "failed" /\ phase = "rollback" /\ undoFailures' = 0 => Current' = restore]_vars

\* After an install a worker sees what the settings say, whatever its parent
\* process has: the two programs that read the override, each with a parser of
\* its own, agree on every key the override is about and on the essential ones
\* that are not the parent's (parseEnvOverride, parseClaudeEnvOverride).
WorkerFollowsSettings ==
    phase = "idle" /\ outcome = "done" =>
        \A parent \in Envs, k \in Keys :
            override[k] # Unset \/ (k \in Essential \ Inherited /\ target[k] # Empty) =>
                ChildEnv(target, override, parent)[k] = target[k]

\* "Keys taken out of the override surely go back to ... the original value"
\* (src/README.md:86), for installs that may also be killed: no step of an
\* install, and no kill, changes the env an install without override would
\* bring back, apart from the keys of the fragment.
OriginalComesBack ==
    [][edits' = edits => OwnEnv' \in {OwnEnv, Merged(OwnEnv)}]_vars
=============================================================================
