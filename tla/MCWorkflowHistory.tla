-------------------------- MODULE MCWorkflowHistory --------------------------
(* Values for model checking WorkflowHistory. *)
EXTENDS WorkflowHistory

CONSTANTS safe, critical, t0

MCCodes == {safe, critical}
MCOneCode == {safe}
MCCriticalCodes == {critical}
MCNoCodes == {}
MCTaskContents == {t0}

=============================================================================
