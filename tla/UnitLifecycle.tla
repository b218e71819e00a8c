---------------------------- MODULE UnitLifecycle ----------------------------
(***************************************************************************)
(* What the monitor promises of one unit, whatever requests, edits, exits, *)
(* probes and late answers come: it is started only while it is wanted,    *)
(* one process for one Activate; it is stopped before it is started again; *)
(* and it is forgotten only when nothing of it is left.  A monitor that is *)
(* told to give up promises nothing any more.                              *)
(***************************************************************************)
VARIABLES
    stage,   \* "unknown", "down", "starting", "up", "stopping", "abandoned"
    alive,   \* a process of the unit exists
    wanted   \* it may be started: set and taken back by anyone, at any time

Unborn == stage \in {"unknown", "down"} /\ ~alive

Learn == stage = "unknown" /\ stage' = "down" /\ UNCHANGED alive

Ask == stage = "down" /\ wanted /\ stage' = "starting" /\ UNCHANGED alive

Spawn == stage = "starting" /\ ~alive /\ stage' = "up" /\ alive'

Refused == stage = "starting" /\ stage' = "down" /\ UNCHANGED alive

\* The process may have died before it is asked to stop, or while it is.
Dies == stage \in {"up", "stopping"} /\ alive /\ ~alive' /\ UNCHANGED stage

AskStop == stage = "up" /\ stage' = "stopping" /\ UNCHANGED alive

\* A live reconfiguration that failed starts the unit at once.
Stopped == /\ stage = "stopping" /\ ~alive'
           /\ \/ stage' = "down"
              \/ wanted /\ stage' = "starting"

Forget == stage = "down" /\ ~alive /\ stage' = "unknown" /\ UNCHANGED alive

Abandon == stage' = "abandoned"

LifecycleNext ==
    \/ Learn \/ Ask \/ Spawn \/ Refused \/ Dies \/ AskStop \/ Stopped
    \/ Forget \/ Abandon

LifecycleStep == [LifecycleNext]_<<stage, alive>>

Lifecycle == Unborn /\ [][LifecycleNext]_<<stage, alive>>
=============================================================================
