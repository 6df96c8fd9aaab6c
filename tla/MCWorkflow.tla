----------------------------- MODULE MCWorkflow -----------------------------
(* Values for model checking Workflow. *)
EXTENDS Workflow

CONSTANTS safe, critical, t0

MCCodes == {safe, critical}
MCCriticalCodes == {critical}
MCOneCode == {safe}
MCNoCodes == {}
MCTaskContents == {t0}

=============================================================================
