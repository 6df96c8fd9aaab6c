----------------------------- MODULE MCProvider ------------------------------
(* The numbers of the code, in units of five minutes: waits of 5, 15, 45 and 90 *)
(* minutes and a deadline of three hours.                                       *)
EXTENDS Provider
MCSchedule == <<1, 3, 9, 18>>
MCDelays == {0, 30}
=============================================================================
