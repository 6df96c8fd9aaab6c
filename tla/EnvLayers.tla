------------------------------ MODULE EnvLayers ------------------------------
(***************************************************************************)
(* What the settings merge (src/tools/merge-json) promises about the env   *)
(* of Claude's settings, without its two files: the user's own env lies    *)
(* under the managed fragment, and the local override lies over both.  An  *)
(* install merges the fragment into the user's env and puts the override   *)
(* of the moment on top; what an override hid comes back when it goes.     *)
(* Only an install that is killed, or whose rollback fails too, may be     *)
(* torn: the new env is shown, and the keys it newly overrides have lost   *)
(* what they were.                                                         *)
(***************************************************************************)

CONSTANTS Keys, Values,
          Absent,        \* a key that is not in the env
          Unset,         \* a key a patch says nothing about
          Fragment       \* what the managed fragment sets

VARIABLES own,           \* the env without the override
          shown,         \* the env Claude reads
          owned,         \* the keys the override in effect is about
          damaged        \* an install was killed or could not roll back

Envs == [Keys -> Values \cup {Absent}]
Patches == [Keys -> Values \cup {Absent, Unset}]

\* env with the patch on top; Absent in a patch takes the key away.
Over(patch, env) == [k \in Keys |-> IF patch[k] = Unset THEN env[k] ELSE patch[k]]

Init ==
    /\ own \in Envs
    /\ shown = own
    /\ owned = {}
    /\ damaged = FALSE

\* Somebody edits the settings.  A key the override is about is shown with the
\* edit until the next install and comes back as it was.
Edit(k, v) ==
    /\ shown' = [shown EXCEPT ![k] = v]
    /\ own' = IF k \in owned THEN own ELSE [own EXCEPT ![k] = v]
    /\ UNCHANGED <<owned, damaged>>

Install(patch) ==
    /\ own' = Over(Fragment, own)
    /\ shown' = Over(patch, own')
    /\ owned' = {k \in Keys : patch[k] # Unset}
    /\ UNCHANGED damaged

\* An install goes wrong beyond its rollback, with nothing written ...
Spared == damaged' = TRUE /\ UNCHANGED <<own, shown, owned>>

\* ... or with the settings written and the baselines not.
Torn(patch) ==
    /\ damaged' = TRUE
    /\ shown' = Over(patch, Over(Fragment, own))
    /\ own' = [k \in Keys |-> IF k \in owned THEN own[k] ELSE shown'[k]]
    /\ UNCHANGED owned

Next ==
    \/ \E k \in Keys, v \in Values \cup {Absent} : Edit(k, v)
    \/ \E patch \in Patches : Install(patch) \/ Torn(patch)
    \/ Spared

Spec == Init /\ [][Next]_<<own, shown, owned, damaged>>
=============================================================================
