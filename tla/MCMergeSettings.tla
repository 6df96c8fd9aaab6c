--------------------------- MODULE MCMergeSettings ---------------------------
(* An essential key the fragment manages and one workers may inherit. *)
EXTENDS MergeSettings
CONSTANTS managed, local, value, empty
MCKeys == {managed, local}
MCValues == {value, empty}
MCFragment == [k \in MCKeys |-> IF k = managed THEN value ELSE Unset]
MCEssential == {managed}
MCInherited == {local}
=============================================================================
