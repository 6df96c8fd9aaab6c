------------------------- MODULE MergeSettingsProofs -------------------------
(***************************************************************************)
(* Proofs about MergeSettings, for all keys and values, any fragment, and  *)
(* any number of edits, failing writes, failing rollbacks and kills.       *)
(***************************************************************************)
EXTENDS MergeSettings, TLAPS

\* What a running install knows.  The sidecar is the last file written, so it is
\* still the old one while an install runs; the settings are the old or the new
\* ones, which of them the files left to do tell, unless a rollback has failed.
Transaction ==
    phase # "idle" =>
        /\ override # Malformed /\ outcome = "none"
        /\ restore.target \in Envs /\ restore.sidecar \in Patches
        /\ new = Planned(restore, override)
        /\ todo \subseteq Changed(restore, new)
        /\ sidecar = restore.sidecar
        /\ target \in {restore.target, new.target}
        /\ phase = "commit" =>
              /\ target = IF "target" \in todo THEN restore.target ELSE new.target
              /\ "sidecar" \notin todo => new.sidecar = restore.sidecar
        /\ phase = "rollback" /\ undoFailures = 0 /\ "target" \notin todo =>
              target = restore.target

\* The invariant the proofs rest on.
MergeInvariant ==
    /\ MergeType
    /\ Transaction
    /\ phase = "idle" /\ outcome = "done" => override # Malformed
    /\ RerunChangesNothing

-----------------------------------------------------------------------------
(* The merge. *)

\* The pieces of the merge yield an env and baselines.
LEMMA MergeTypes ==
    ASSUME NEW env \in Envs, NEW patch \in Patches
    PROVE  /\ Restored(env, patch) \in Envs
           /\ Merged(env) \in Envs
           /\ Patched(env, patch) \in Envs
           /\ Baselines(env, patch) \in Patches
BY FragmentAssumption, MarkersAssumption DEF Envs, Patches, Restored, Merged, Patched, Baselines

\* What the override hides comes back from its own baselines: putting them back
\* undoes the patch.
LEMMA BaselinesUndoPatch ==
    ASSUME NEW env \in Envs, NEW patch \in Patches
    PROVE  Restored(Patched(env, patch), Baselines(env, patch)) = env
BY MarkersAssumption DEF Envs, Patches, Restored, Patched, Baselines

\* The fragment merged in twice is the fragment merged in once.
LEMMA MergedTwice ==
    ASSUME NEW env \in Envs
    PROVE  Merged(Merged(env)) = Merged(env)
BY FragmentAssumption, MarkersAssumption DEF Envs, Merged

\* Both files as planned, spelled out.
LEMMA PlannedContents ==
    ASSUME NEW found \in Contents, NEW patch \in Patches
    PROVE  LET env == Merged(Restored(found.target, found.sidecar))
               plan == Planned(found, patch)
           IN  /\ env \in Envs
               /\ plan \in Contents
               /\ plan.target = Patched(env, patch)
               /\ plan.sidecar = Baselines(env, patch)
               /\ plan = [target |-> Patched(env, patch), sidecar |-> Baselines(env, patch)]
               /\ Restored(plan.target, plan.sidecar) = env
<1> DEFINE env == Merged(Restored(found.target, found.sidecar))
           plan == Planned(found, patch)
<1>1. found.target \in Envs /\ found.sidecar \in Patches
  BY DEF Contents
<1>2. env \in Envs
  BY <1>1, MergeTypes
<1>3. Patched(env, patch) \in Envs /\ Baselines(env, patch) \in Patches
  BY <1>2, MergeTypes
<1>4. plan = [target |-> Patched(env, patch), sidecar |-> Baselines(env, patch)]
  BY DEF Planned
<1>5. Restored(Patched(env, patch), Baselines(env, patch)) = env
  BY <1>2, BaselinesUndoPatch
<1>6. plan \in Contents /\ plan.target = Patched(env, patch) /\ plan.sidecar = Baselines(env, patch)
  <2> HIDE DEF env
  <2> QED BY <1>3, <1>4 DEF Contents
<1> HIDE DEF env, plan
<1>7. Restored(plan.target, plan.sidecar) = env
  BY <1>5, <1>6
<1> QED BY <1>2, <1>4, <1>6, <1>7 DEF env, plan

\* An install of what an install has left changes nothing.
LEMMA PlannedTwice ==
    ASSUME NEW found \in Contents, NEW patch \in Patches
    PROVE  Planned(Planned(found, patch), patch) = Planned(found, patch)
<1> DEFINE env == Merged(Restored(found.target, found.sidecar))
           plan == Planned(found, patch)
<1>1. /\ env \in Envs /\ plan \in Contents
      /\ plan = [target |-> Patched(env, patch), sidecar |-> Baselines(env, patch)]
      /\ Restored(plan.target, plan.sidecar) = env
  BY PlannedContents
<1>2. Merged(env) = env
  <2>1. Restored(found.target, found.sidecar) \in Envs
    BY MergeTypes DEF Contents
  <2> QED BY <2>1, MergedTwice
<1>3. Planned(plan, patch) = [target |-> Patched(Merged(Restored(plan.target, plan.sidecar)), patch),
                              sidecar |-> Baselines(Merged(Restored(plan.target, plan.sidecar)), patch)]
  BY DEF Planned
<1> HIDE DEF env, plan
<1>4. Planned(plan, patch) = plan
  BY <1>1, <1>2, <1>3
<1> QED BY <1>4 DEF plan

-----------------------------------------------------------------------------
(* The invariant. *)

\* The current contents of the two files, as one record.
LEMMA CurrentContents ==
    ASSUME MergeType
    PROVE  /\ Current \in Contents
           /\ Current.target = target /\ Current.sidecar = sidecar
BY DEF MergeType, Current, Contents

\* Two contents that differ, differ in a file.
LEMMA ChangedFiles ==
    ASSUME NEW a \in Contents, NEW b \in Contents
    PROVE  /\ Changed(a, b) \subseteq Paths
           /\ a # b => Changed(a, b) # {}
           /\ "target" \notin Changed(a, b) => a.target = b.target
           /\ "sidecar" \notin Changed(a, b) => a.sidecar = b.sidecar
BY DEF Contents, Changed, Paths

LEMMA MergeInit == Init => MergeInvariant
<1> SUFFICES ASSUME Init PROVE MergeInvariant
  OBVIOUS
<1>1. MergeType
  BY BoundsAssumption, MarkersAssumption DEF Init, MergeType, Current, Contents, NothingOwned, Patches
<1> QED BY <1>1 DEF Init, MergeInvariant, Transaction, RerunChangesNothing

\* The user's edits come between installs.
LEMMA UserKeepsInvariant == MergeInvariant /\ User => MergeInvariant'
<1> SUFFICES ASSUME MergeInvariant, User PROVE MergeInvariant'
  OBVIOUS
<1> USE DEF MergeInvariant, faults, files
<1>1. CASE \E k \in Keys, v \in Values \cup {Absent} : Edit(k, v)
  <2>1. PICK k \in Keys, v \in Values \cup {Absent} : Edit(k, v)
    BY <1>1
  <2>2. target' \in Envs
    BY <2>1 DEF Edit, MergeType, Envs
  <2> QED BY <2>1, <2>2, BoundsAssumption DEF Edit, MergeType, Transaction, RerunChangesNothing
<1>2. CASE \E patch \in Patches \cup {Malformed} : ChangeOverride(patch)
  BY <1>2, BoundsAssumption DEF ChangeOverride, MergeType, Transaction, RerunChangesNothing
<1> QED BY <1>1, <1>2 DEF User

\* An install that writes nothing, and one that starts.
LEMMA BeginKeepsInvariant == MergeInvariant /\ (Refuse \/ Unchanged \/ Begin) => MergeInvariant'
<1> SUFFICES ASSUME MergeInvariant, Refuse \/ Unchanged \/ Begin PROVE MergeInvariant'
  OBVIOUS
<1> USE DEF MergeInvariant, faults, files
<1>1. CASE Refuse
  BY <1>1 DEF Refuse, MergeType, Transaction, RerunChangesNothing
<1>2. CASE Unchanged
  <2>1. RerunChangesNothing'
    BY <1>2 DEF Unchanged, RerunChangesNothing, Current, Planned
  <2> QED BY <1>2, <2>1 DEF Unchanged, MergeType, Transaction
<1>3. CASE Begin
  <2>1. override \in Patches
    BY <1>3 DEF Begin, MergeType
  <2>2. /\ Current \in Contents /\ Current.target = target /\ Current.sidecar = sidecar
    BY CurrentContents
  <2>3. new' \in Contents
    BY <1>3, <2>1, <2>2, PlannedContents DEF Begin
  <2>4. todo' # {} /\ todo' \subseteq Paths
    BY <1>3, <2>2, <2>3, ChangedFiles DEF Begin
  <2>5. "sidecar" \notin todo' => new'.sidecar = restore'.sidecar
    BY <1>3, <2>2, <2>3, ChangedFiles DEF Begin
  <2>6. "target" \notin todo' => new'.target = restore'.target
    BY <1>3, <2>2, <2>3, ChangedFiles DEF Begin
  <2>7. MergeType'
    BY <1>3, <2>2, <2>3, <2>4 DEF Begin, MergeType
  <2>8. Transaction'
    BY <1>3, <2>1, <2>2, <2>3, <2>5, <2>6 DEF Begin, Transaction, Contents
  <2> QED BY <1>3, <2>7, <2>8 DEF Begin, RerunChangesNothing
<1> QED BY <1>1, <1>2, <1>3

\* The write of the last file makes both files the planned ones.
LEMMA WriteKeepsInvariant == MergeInvariant /\ Write => MergeInvariant'
<1> SUFFICES ASSUME MergeInvariant, Write PROVE MergeInvariant'
  OBVIOUS
<1> USE DEF MergeInvariant, faults, files
<1>1. /\ new \in Contents /\ restore \in Contents /\ override \in Patches
      /\ new = Planned(restore, override)
      /\ phase = "commit" /\ todo # {} /\ todo \subseteq Paths
  BY DEF Write, MergeType, Transaction
<1>2. First(todo) \in todo /\ First(todo) \in Paths
  BY <1>1 DEF First, Paths
<1>3. target' \in Envs /\ sidecar' \in Patches
  BY <1>1, <1>2 DEF Write, Put, MergeType, Contents
<1>4. MergeType'
  BY <1>1, <1>3 DEF Write, MergeType
<1>5. todo' = {} => Current' = new
  <2> SUFFICES ASSUME todo' = {} PROVE target' = new.target /\ sidecar' = new.sidecar
    BY <1>1 DEF Current, Contents
  <2> QED BY <1>1, <1>2 DEF Write, Put, First, Paths, Transaction
<1>6. RerunChangesNothing'
  <2> SUFFICES ASSUME todo' = {} PROVE Planned(new, override') = new
    BY <1>5 DEF Write, RerunChangesNothing, Current, Planned
  <2> QED BY <1>1, PlannedTwice DEF Write
<1>7. Transaction'
  <2> SUFFICES ASSUME todo' # {} PROVE Transaction'
    BY DEF Write, Transaction
  <2>1. First(todo) = "target" /\ todo' = {"sidecar"}
    BY <1>1, <1>2 DEF Write, First, Paths
  <2>2. target' = new.target /\ sidecar' = sidecar
    BY <2>1 DEF Write, Put
  <2> QED BY <1>1, <2>1, <2>2 DEF Write, Transaction
<1>8. (phase = "idle" /\ outcome = "done" => override # Malformed)'
  BY <1>1, MarkersAssumption DEF Write
<1> QED BY <1>4, <1>6, <1>7, <1>8

\* From the failing write to the end of the rollback.
LEMMA RollbackKeepsInvariant == MergeInvariant /\ (WriteFails \/ Undo \/ UndoFails) => MergeInvariant'
<1> SUFFICES ASSUME MergeInvariant, WriteFails \/ Undo \/ UndoFails PROVE MergeInvariant'
  OBVIOUS
<1> USE DEF MergeInvariant, faults, files
<1>1. CASE WriteFails
  <2>1. /\ restore \in Contents /\ new \in Contents /\ phase = "commit"
        /\ todo # {} /\ todo \subseteq Changed(restore, new)
    BY <1>1 DEF WriteFails, MergeType, Transaction
  <2>2. todo' # {} /\ todo' \subseteq Paths /\ todo' = Changed(restore, new)
    BY <1>1, <2>1, ChangedFiles DEF WriteFails
  <2>3. "target" \notin todo' => new.target = restore.target
    BY <2>1, <2>2, ChangedFiles
  <2> QED BY <1>1, <2>2, <2>3, BoundsAssumption DEF WriteFails, MergeType, Transaction, RerunChangesNothing
<1>2. CASE Undo
  <2>1. /\ restore \in Contents /\ phase = "rollback" /\ todo # {} /\ todo \subseteq Paths
    BY <1>2 DEF Undo, MergeType
  <2>2. target' \in Envs /\ sidecar' = sidecar /\ target' \in {target, restore.target}
    BY <1>2, <2>1 DEF Undo, Put, MergeType, Transaction, Contents
  <2>3. "target" \notin todo' => target' = restore.target \/ ("target" \notin todo /\ target' = target)
    BY <1>2, <2>1 DEF Undo, Put, AfterUndo, First, Paths
  <2>4. MergeType'
    BY <1>2, <2>1, <2>2 DEF Undo, AfterUndo, MergeType
  <2>5. Transaction'
    BY <1>2, <2>1, <2>2, <2>3 DEF Undo, AfterUndo, Transaction
  <2> QED BY <1>2, <2>4, <2>5 DEF Undo, AfterUndo, RerunChangesNothing, Transaction
<1>3. CASE UndoFails
  <2>1. phase = "rollback" /\ todo # {} /\ todo \subseteq Paths
    BY <1>3 DEF UndoFails, MergeType
  <2>2. undoFailures \in Nat /\ undoFailures' \in Nat /\ undoFailures' # 0
    BY <1>3 DEF UndoFails, MergeType
  <2> QED BY <1>3, <2>1, <2>2 DEF UndoFails, AfterUndo, MergeType, Transaction, RerunChangesNothing
<1> QED BY <1>1, <1>2, <1>3

LEMMA CrashKeepsInvariant == MergeInvariant /\ Crash => MergeInvariant'
<1> SUFFICES ASSUME MergeInvariant, Crash PROVE MergeInvariant'
  OBVIOUS
<1> QED BY DEF MergeInvariant, Crash, MergeType, Transaction, RerunChangesNothing, files

\* What the two files hold at any point of an install follows from what it found
\* and what it has still to do, in every reachable state.
THEOREM MergeInvariantHolds == Spec => []MergeInvariant
<1>1. Init => MergeInvariant
  BY MergeInit
<1>2. MergeInvariant /\ [Next]_vars => MergeInvariant'
  <2> SUFFICES ASSUME MergeInvariant, [Next]_vars PROVE MergeInvariant'
    OBVIOUS
  <2>1. CASE UNCHANGED vars
    BY <2>1 DEF MergeInvariant, MergeType, Transaction, RerunChangesNothing, Current, vars, files, faults
  <2> QED
    BY <2>1, UserKeepsInvariant, BeginKeepsInvariant, WriteKeepsInvariant, RollbackKeepsInvariant,
       CrashKeepsInvariant DEF Next, Install
<1> QED BY <1>1, <1>2, PTL DEF Spec

\* Every file and variable of an install keeps its type.
THEOREM MergeTypeCorrect == Spec => []MergeType
BY MergeInvariantHolds, PTL DEF MergeInvariant

\* After an install that succeeded another one finds nothing to do, for every
\* fragment, override and settings.
THEOREM RerunIsUnchanged == Spec => []RerunChangesNothing
BY MergeInvariantHolds, PTL DEF MergeInvariant

\* The programs that read the override agree after every successful install.
THEOREM WorkerSeesSettings == Spec => []WorkerFollowsSettings
<1>1. MergeInvariant => WorkerFollowsSettings
  <2> SUFFICES ASSUME MergeInvariant, phase = "idle", outcome = "done",
                      NEW parent \in Envs, NEW k \in Keys,
                      override[k] # Unset \/ (k \in Essential \ Inherited /\ target[k] # Empty)
               PROVE  ChildEnv(target, override, parent)[k] = target[k]
    BY DEF WorkerFollowsSettings
  <2>1. override \in Patches /\ target \in Envs
    BY DEF MergeInvariant, MergeType
  <2>2. target[k] = IF override[k] = Unset THEN target[k] ELSE override[k]
    <3>1. Planned(Current, override) = Current
      BY DEF MergeInvariant, RerunChangesNothing
    <3> DEFINE env == Merged(Restored(Current.target, Current.sidecar))
    <3>2. target = Patched(env, override)
      <4>1. Planned(Current, override).target = Patched(env, override)
        BY DEF Planned
      <4> QED BY <3>1, <4>1 DEF Current
    <3>3. target[k] = IF override[k] = Unset THEN env[k] ELSE override[k]
      <4> HIDE DEF env
      <4> QED BY <3>2 DEF Patched
    <3> QED BY <3>3
  <2>3. target[k] \in Values \cup {Absent}
    BY <2>1 DEF Envs
  <2> QED BY <2>1, <2>2, <2>3, EnvAssumption, MarkersAssumption DEF ChildEnv, FromSettings
<1> QED BY <1>1, MergeInvariantHolds, PTL

\* An install that reports a failure left both files as they were, unless the
\* rollback itself failed.
THEOREM FailedInstallChangesNothing == Spec => FailureChangesNothing
<1>1. MergeInvariant /\ [Next]_vars =>
        [outcome' = "failed" /\ phase = "rollback" /\ undoFailures' = 0 => Current' = restore]_vars
  <2> SUFFICES ASSUME MergeInvariant, Next, outcome' = "failed", phase = "rollback", undoFailures' = 0
               PROVE  Current' = restore
    OBVIOUS
  <2>1. outcome = "none" /\ restore \in Contents /\ sidecar = restore.sidecar
        /\ todo # {} /\ todo \subseteq Paths /\ undoFailures \in Nat
    BY DEF MergeInvariant, MergeType, Transaction
  <2>2. Undo
    BY <2>1 DEF Next, User, Install, Edit, ChangeOverride, Refuse, Unchanged, Begin, Write,
                WriteFails, UndoFails, Crash
  <2>3. todo' = {}
    BY <2>1, <2>2 DEF Undo, AfterUndo
  <2>4. target' = restore.target /\ sidecar' = restore.sidecar
    BY <2>1, <2>2, <2>3 DEF Undo, AfterUndo, Put, First, Paths, MergeInvariant, Transaction
  <2> QED BY <2>1, <2>4 DEF Current, Contents
<1> QED BY <1>1, MergeInvariantHolds, PTL DEF FailureChangesNothing, Spec

-----------------------------------------------------------------------------
(* The refinement. *)

\* The layers before anything is owned: the settings are the user's.
LEMMA LayersInit == Init => Layers!Init
<1> SUFFICES ASSUME Init PROVE Layers!Init
  OBVIOUS
<1>1. Settled = Current /\ Current.target = target /\ Current.sidecar = NothingOwned /\ target \in Envs
  BY DEF Init, Settled, Current
<1>2. OwnEnv = target
  BY <1>1 DEF OwnEnv, Restored, NothingOwned, Envs
<1>3. OwnedKeys = {}
  BY <1>1 DEF OwnedKeys, NothingOwned
<1>4. (crashes + undoFailures > 0) = FALSE
  BY DEF Init
<1> QED BY <1>1, <1>2, <1>3, <1>4 DEF Layers!Init, Layers!Envs, Envs

\* The steps that leave the settled contents alone, and do no damage.
SettledRests == UNCHANGED <<Settled, crashes, undoFailures>>

LEMMA RestIsStutter ==
    ASSUME SettledRests
    PROVE  UNCHANGED <<OwnEnv, Settled.target, OwnedKeys, crashes + undoFailures > 0>>
BY DEF SettledRests, OwnEnv, OwnedKeys, Restored

\* An edit of the settings is an edit of what is shown.
LEMMA EditRefines ==
    ASSUME MergeInvariant, NEW k \in Keys, NEW v \in Values \cup {Absent}, Edit(k, v)
    PROVE  Layers!Edit(k, v)
<1>1. target \in Envs /\ sidecar \in Patches /\ phase = "idle" /\ phase' = "idle"
  BY DEF MergeInvariant, MergeType, Edit
<1>2. Settled.target = target /\ Settled.sidecar = sidecar
      /\ Settled'.target = target' /\ Settled'.sidecar = sidecar
  BY <1>1 DEF Settled, Current, Edit
<1>3. target' = [target EXCEPT ![k] = v] /\ UNCHANGED <<crashes, undoFailures>>
  BY DEF Edit, faults
<1>4. UNCHANGED OwnedKeys
  BY <1>2 DEF OwnedKeys
<1>5. OwnEnv' = IF k \in OwnedKeys THEN OwnEnv ELSE [OwnEnv EXCEPT ![k] = v]
  BY <1>1, <1>2, <1>3 DEF OwnEnv, OwnedKeys, Restored, Envs
<1> QED BY <1>2, <1>3, <1>4, <1>5 DEF Layers!Edit

\* The write of the last file installs the override of the moment.
LEMMA LastWriteRefines ==
    ASSUME MergeInvariant, Write, todo' = {}
    PROVE  \E patch \in Patches : Layers!Install(patch)
<1>1. /\ new \in Contents /\ restore \in Contents /\ override \in Patches
      /\ new = Planned(restore, override)
      /\ phase = "commit" /\ phase' = "idle" /\ todo # {} /\ todo \subseteq Paths
  BY DEF MergeInvariant, Write, MergeType, Transaction
<1>2. target' = new.target /\ sidecar' = new.sidecar
  BY <1>1 DEF Write, Put, First, Paths, MergeInvariant, Transaction
<1> DEFINE own == Restored(restore.target, restore.sidecar)
           env == Merged(own)
<1>3. /\ env \in Envs /\ own \in Envs
      /\ new.target = Patched(env, override) /\ new.sidecar = Baselines(env, override)
      /\ Restored(new.target, new.sidecar) = env
  BY <1>1, PlannedContents, MergeTypes DEF Contents
<1>4. Settled = restore /\ Settled'.target = new.target /\ Settled'.sidecar = new.sidecar
  BY <1>1, <1>2 DEF Settled, Current
<1>5. OwnEnv = own /\ OwnEnv' = env
  BY <1>3, <1>4 DEF OwnEnv
<1> HIDE DEF env, own
<1>6. OwnEnv' = Layers!Over(Fragment, OwnEnv)
  BY <1>5 DEF env, own, Merged, Layers!Over
<1>7. Settled'.target = Layers!Over(override, OwnEnv')
  BY <1>3, <1>4, <1>5 DEF Patched, Layers!Over
<1>8. OwnedKeys' = {k \in Keys : override[k] # Unset}
  BY <1>1, <1>3, <1>4, MarkersAssumption DEF OwnedKeys, Baselines, Envs
<1>9. UNCHANGED (crashes + undoFailures > 0)
  BY DEF Write, faults
<1>10. Layers!Install(override)
  BY <1>6, <1>7, <1>8, <1>9 DEF Layers!Install
<1> QED BY <1>1, <1>10

\* An install that ends with the settings as it found them has changed nothing;
\* one that ends with the new settings and the old baselines is torn.
LEMMA StrayEndRefines ==
    ASSUME MergeInvariant, phase # "idle", phase' = "idle",
           Current'.sidecar = restore.sidecar,
           Current'.target \in {restore.target, new.target},
           (crashes + undoFailures > 0)' = TRUE
    PROVE  Layers!Next
<1>1. /\ restore \in Contents /\ override \in Patches /\ new = Planned(restore, override)
  BY DEF MergeInvariant, MergeType, Transaction
<1>2. Settled = restore /\ Settled' = Current'
  BY DEF Settled
<1>3. OwnedKeys' = OwnedKeys
  BY <1>2 DEF OwnedKeys
<1>4. CASE Current'.target = restore.target
  <2>1. OwnEnv' = OwnEnv /\ Settled'.target = Settled.target
    BY <1>2, <1>4 DEF OwnEnv
  <2>2. Layers!Spared
    BY <1>3, <2>1 DEF Layers!Spared
  <2> QED BY <2>2 DEF Layers!Next
<1>5. CASE Current'.target = new.target
  <2> DEFINE own == Restored(restore.target, restore.sidecar)
             env == Merged(own)
  <2>1. new.target = Patched(env, override) /\ new.target \in Envs
    BY <1>1, PlannedContents DEF Contents
  <2>2. OwnEnv = own /\ OwnEnv' = Restored(new.target, restore.sidecar)
    BY <1>2, <1>5 DEF OwnEnv
  <2>3. restore.sidecar \in Patches
    BY <1>1 DEF Contents
  <2> HIDE DEF env
  <2>4. Settled'.target = Layers!Over(override, Layers!Over(Fragment, OwnEnv))
    <3>1. env = Layers!Over(Fragment, OwnEnv)
      BY <2>2 DEF env, Merged, Layers!Over
    <3> HIDE DEF own
    <3> QED BY <1>2, <1>5, <2>1, <3>1 DEF Patched, Layers!Over
  <2>5. OwnEnv' = [k \in Keys |-> IF k \in OwnedKeys THEN OwnEnv[k] ELSE Settled'.target[k]]
    BY <1>2, <1>5, <2>2, <2>3 DEF OwnedKeys, Restored
  <2>6. Layers!Torn(override)
    BY <1>3, <2>4, <2>5 DEF Layers!Torn
  <2> QED BY <1>1, <2>6 DEF Layers!Next, Layers!Patches, Patches
<1> QED BY <1>4, <1>5

\* A step of the rollback, and a kill.
LEMMA UndoRefines ==
    ASSUME MergeInvariant, Undo \/ UndoFails \/ Crash
    PROVE  Layers!Next \/ UNCHANGED <<OwnEnv, Settled.target, OwnedKeys, crashes + undoFailures > 0>>
<1>1. /\ restore \in Contents /\ phase # "idle" /\ todo # {} /\ todo \subseteq Paths
      /\ undoFailures \in Nat /\ crashes \in Nat
      /\ sidecar = restore.sidecar /\ target \in {restore.target, new.target}
  BY DEF MergeInvariant, MergeType, Transaction, Undo, UndoFails, Crash
<1>2. Current'.sidecar = restore.sidecar /\ Current'.target \in {restore.target, new.target}
  <2>1. sidecar' = restore.sidecar /\ target' \in {restore.target, new.target}
    BY <1>1 DEF Undo, UndoFails, Crash, Put, files
  <2> QED BY <2>1 DEF Current
<1>3. CASE phase' # "idle"
  <2>1. Undo \/ UndoFails
    BY <1>3 DEF Crash
  <2>2. UNCHANGED Settled
    BY <1>1, <1>3, <2>1 DEF Settled, Undo, UndoFails, AfterUndo
  <2>3. CASE Undo
    BY <2>2, <2>3, RestIsStutter DEF SettledRests, Undo, AfterUndo
  <2>4. CASE UndoFails
    <3>1. (crashes + undoFailures > 0)' = TRUE
      BY <1>1, <2>4 DEF UndoFails, AfterUndo
    <3>2. UNCHANGED <<OwnEnv, Settled.target, OwnedKeys>>
      BY <2>2 DEF OwnEnv, OwnedKeys
    <3> QED BY <3>1, <3>2 DEF Layers!Next, Layers!Spared
  <2> QED BY <2>1, <2>3, <2>4
<1>4. CASE phase' = "idle" /\ crashes' + undoFailures' = 0
  <2>1. undoFailures' \in Nat /\ crashes' \in Nat
    BY <1>1 DEF Undo, UndoFails, Crash, AfterUndo
  <2>2. undoFailures' = 0 /\ crashes' = 0
    <3>1. \A a, b \in Nat : a + b = 0 => a = 0 /\ b = 0
      OBVIOUS
    <3> QED BY <1>4, <2>1, <3>1
  <2>3. Undo /\ UNCHANGED <<crashes, undoFailures>> /\ todo' = {} /\ phase = "rollback"
    BY <1>1, <1>4, <2>1, <2>2 DEF Undo, UndoFails, Crash, AfterUndo
  <2>4. target' = restore.target /\ sidecar' = restore.sidecar
    BY <1>1, <2>2, <2>3 DEF Undo, AfterUndo, Put, First, Paths, MergeInvariant, Transaction
  <2>5. Current' = restore
    BY <1>1, <2>4 DEF Current, Contents
  <2>6. UNCHANGED Settled
    BY <1>1, <1>4, <2>5 DEF Settled
  <2> QED BY <2>3, <2>6, RestIsStutter DEF SettledRests
<1>5. CASE phase' = "idle" /\ crashes' + undoFailures' # 0
  <2>1. (crashes + undoFailures > 0)' = TRUE
    BY <1>1, <1>5 DEF Undo, UndoFails, Crash, AfterUndo
  <2> QED BY <1>1, <1>2, <1>5, <2>1, StrayEndRefines
<1> QED BY <1>3, <1>4, <1>5

\* Every step of the merge is a step of the layers or none.
LEMMA StepRefines ==
    ASSUME MergeInvariant, [Next]_vars
    PROVE  [Layers!Next]_<<OwnEnv, Settled.target, OwnedKeys, crashes + undoFailures > 0>>
<1>1. CASE \E k \in Keys, v \in Values \cup {Absent} : Edit(k, v)
  BY <1>1, EditRefines DEF Layers!Next
<1>2. CASE \E patch \in Patches \cup {Malformed} : ChangeOverride(patch)
  BY <1>2, RestIsStutter DEF ChangeOverride, SettledRests, Settled, Current, files, faults
<1>3. CASE Refuse \/ Unchanged \/ Begin
  BY <1>3, RestIsStutter DEF Refuse, Unchanged, Begin, SettledRests, Settled, Current, files, faults
<1>4. CASE Write /\ todo' = {}
  BY <1>4, LastWriteRefines DEF Layers!Next, Layers!Patches, Patches
<1>5. CASE Write /\ todo' # {}
  BY <1>5, RestIsStutter DEF Write, SettledRests, Settled, faults
<1>6. CASE WriteFails
  BY <1>6, RestIsStutter DEF WriteFails, SettledRests, Settled, files
<1>7. CASE Undo \/ UndoFails \/ Crash
  BY <1>7, UndoRefines
<1>8. CASE UNCHANGED vars
  BY <1>8, RestIsStutter DEF vars, SettledRests, Settled, Current, files, faults
<1> QED BY <1>1, <1>2, <1>3, <1>4, <1>5, <1>6, <1>7, <1>8 DEF Next, User, Install

\* The two files, written one after the other with failures and kills anywhere,
\* implement the three layers of EnvLayers.
THEOREM MergeKeepsLayers == Spec => KeepsLayers
<1>1. Init => Layers!Init
  BY LayersInit
<1>2. MergeInvariant /\ [Next]_vars =>
        [Layers!Next]_<<OwnEnv, Settled.target, OwnedKeys, crashes + undoFailures > 0>>
  BY StepRefines
<1> QED BY <1>1, <1>2, MergeInvariantHolds, PTL DEF Spec, KeepsLayers, Layers!Spec
=============================================================================
