---------------------------- MODULE MCObservers ----------------------------
(* Values for model checking Observers. *)
EXTENDS Observers

CONSTANTS p1, p2, s1, w1, f1, f2, f3, t1, t2

MCProcesses == {p1, p2}
MCProbes    == {s1}
MCWatchers  == {w1}
MCFiles     == {f1, f2, f3}
MCTasks     == {t1, t2}

=============================================================================
