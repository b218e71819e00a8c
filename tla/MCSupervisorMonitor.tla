------------------------ MODULE MCSupervisorMonitor ------------------------
(***************************************************************************)
(* Small instances of SupervisorMonitor.  What comes from outside (faults, *)
(* operator requests, edits, signals) is drawn from a budget; the loop,    *)
(* its messages and the healthy answers of providers are not limited.      *)
(***************************************************************************)
EXTENDS SupervisorMonitor

CONSTANTS
    Faults,     \* exits, refused starts, failed probes, owner reports
    Requests,   \* operator start, stop, restart
    Edits,      \* changes of the registry
    Signals,    \* TERM or INT
    AllEnabled  \* the initial registry: every unit declared and enabled

\* A unit run by the monitor or by its owner, with no declared probe.
Provided(provider, requires, restart) ==
    [provider |-> provider, requires |-> requires, restart |-> restart,
     burst |-> 2, healthFailures |-> 2, probe |-> FALSE, startPeriod |-> FALSE]
Process(requires, restart) == Provided("process", requires, restart)
WithProbe(d) == [d EXCEPT !.probe = TRUE, !.startPeriod = TRUE]

\* An application and the database it requires; names sort either way.
Pair == {"app", "db"}
DependentFirst == [app |-> 1, db |-> 2]
DependencyFirst == [app |-> 2, db |-> 1]
ProbedOverOwned == [app |-> {WithProbe(Process(<<"db">>, "on-failure"))},
                    db |-> {Provided("internal", <<>>, "always")}]
\* ... which an edit may take back, or ask for.
MayRequire == [app |-> {Process(<<"db">>, "on-failure"),
                        Process(<<>>, "always")},
               db |-> {Process(<<>>, "always")}]

\* Three units in a row, the dependency last in the name order of stepAll.
Chain == {"app", "db", "net"}
ChainDown == [app |-> 1, db |-> 2, net |-> 3]
InARow == [app |-> {Process(<<"db">>, "always")},
           db |-> {Process(<<"net">>, "always")},
           net |-> {Process(<<>>, "no")}]

\* One unit, which an edit may give to another provider.
Solo == {"app"}
SoloRank == [app |-> 1]
OnFailure == [app |-> {Process(<<>>, "on-failure")}]
EitherProvider == [app |-> {Provided(k, <<>>, "on-failure") : k \in Providers}]

VARIABLE left   \* what remains of each budget

mcvars == <<vars, left>>

Spend(what) == /\ left[what] > 0
               /\ left' = [left EXCEPT ![what] = @ - 1]

Faulty ==
    \/ \E c \in calls : OnActivateError(c)
    \/ \E p \in probes : ProbeFault(p)
    \/ Reports

Quiet ==
    \/ Sweep \/ Exit \/ Idle
    \/ \E u \in Units : \/ AnswerOf(u) \/ ProbeOf(u) \/ NewsOf(u) \/ TimerOf(u)
    \/ \E c \in calls : LoseAnswer(c)
    \/ \E p \in probes : LoseProbe(p)
    \/ \E e \in pevents : LoseEvent(e)
    \/ \E t \in timers : LoseTimer(t)
    \/ Poll \/ ControlReload \/ ControlQuery

MCInit ==
    /\ Init
    /\ AllEnabled => \A u \in Units : registry[u].present /\ registry[u].enabled
    /\ left = [faults |-> Faults, requests |-> Requests, edits |-> Edits,
               signals |-> Signals]

MCNext ==
    \/ Quiet /\ UNCHANGED left
    \/ Faulty /\ Spend("faults")
    \/ Operator /\ Spend("requests")
    \/ Edit /\ Spend("edits")
    \/ Signal /\ Spend("signals")

MCSpec == MCInit /\ [][MCNext]_mcvars

\* The loop runs and provider calls are answered; and so are all messages.
AnswerSpec == MCSpec /\ LoopFairness /\ AnswerFairness
FairSpec == AnswerSpec /\ MessageFairness

\* ... and every edit is followed by the reload its command asks for.
ReloadSpec == FairSpec /\ ReloadFairness

\* ... or by nothing but the poll: the edits of other tools.
PollSpec == MCInit /\ [][MCNext /\ ~ControlReload /\ ~ControlQuery]_mcvars
            /\ LoopFairness /\ AnswerFairness /\ MessageFairness
            /\ PollFairness
=============================================================================
