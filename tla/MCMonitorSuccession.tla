------------------------ MODULE MCMonitorSuccession ------------------------
(***************************************************************************)
(* Small instances of MonitorSuccession: a bound on how many processes are *)
(* started in all, monitors, units' processes and unrelated ones.          *)
(***************************************************************************)
EXTENDS MonitorSuccession

CONSTANT LastStart   \* the start time of the last process

MCNext == Next /\ clock' <= LastStart + 1

MCSpec == Init /\ [][MCNext]_vars

MCFairSpec == MCSpec /\ StartFairness
=============================================================================
