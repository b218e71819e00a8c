-------------------------- MODULE MCStewardSession --------------------------
(***************************************************************************)
(* Small instances of StewardSession.  What comes from outside is drawn    *)
(* from a budget: claims and exports of the seat, ends nobody asked for    *)
(* (of a start, an agent, a supervisor), notes beyond the fallbacks, and   *)
(* messages.  A behaviour has one of the budgets.                          *)
(***************************************************************************)
EXTENDS StewardSession

CONSTANT Budgets

VARIABLE left

mcvars == <<vars, left>>

\* Two terminals that each have an agent of their own, or the same one.
Terminals == {"1", "2"}
TwoAgents == [s \in Terminals |-> s]

Tenancies == [tenures |-> 2, troubles |-> 0, noted |-> 0, mail |-> 0]
Accidents == [tenures |-> 1, troubles |-> 1, noted |-> 1, mail |-> 0]
Notices == [tenures |-> 1, troubles |-> 0, noted |-> 0, mail |-> 1]
AllBudgets == {Tenancies, Accidents, Notices}

Spend(what) == /\ left[what] > 0
               /\ left' = [left EXCEPT ![what] = @ - 1]

MCInit == Init /\ left \in Budgets

Trouble(s) == StartDies(s) \/ AgentEnds(s) \/ SupCrashes(s)

MCNext ==
    \/ /\ \/ \E s \in Shells : Start(s) \/ Sup(s) \/ Mail(s)
          \/ \E x \in Callers : Stop(x)
       /\ UNCHANGED left
    \/ (\E m \in Messages : Arrive(m)) /\ Spend("mail")
    \/ (\E s \in Shells : Claim(s) \/ Export(s)) /\ Spend("tenures")
    \/ (\E s \in Shells : Trouble(s)) /\ Spend("troubles")
    \/ NoteWritten /\ Spend("noted")

MCSpec == MCInit /\ [][MCNext]_mcvars
FairSpec == MCSpec /\ Fairness
=============================================================================
