-------------------------- MODULE MCHarnessManager --------------------------
(***************************************************************************)
(* Small instances of HarnessManager: requests and crashes are drawn from   *)
(* one budget, so that their number is bounded and their mix is not.       *)
(***************************************************************************)
EXTENDS HarnessManager

CONSTANTS
    Budget  \* the requests that are made, and the crashes

VARIABLE left

mcvars == <<vars, left>>

Spend == left > 0 /\ left' = left - 1

MCInit == Init /\ left = Budget

MCNext ==
    \/ \E c \in Clients :
          \/ (Management(c) \/ Writing(c)) /\ Spend
          \/ Continue(c) /\ UNCHANGED left
          \/ (ReserveFails(c) \/ Disconnect(c) \/ WriteFed(c)) /\ UNCHANGED left
    \/ \E j \in Jobs :
          (Work(j) \/ SessionEnds(j) \/ Deadline(j)) /\ UNCHANGED left
    \/ Crash /\ Spend

MCSpec == MCInit /\ [][MCNext]_mcvars
FairSpec == MCSpec /\ Fairness
=============================================================================
