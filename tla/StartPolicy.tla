----------------------------- MODULE StartPolicy -----------------------------
(***************************************************************************)
(* The start limiter and the backoff ladder of one unit                    *)
(* (internal/agentos/supervisord_policy.go), with the clock they read.     *)
(*                                                                         *)
(* SupervisorMonitor counts the starts that the limiter remembers and lets *)
(* any of them leave its window; here the window is the code's.  A start   *)
(* after a reconfiguration is exempt: it reads and writes neither.         *)
(*                                                                         *)
(* Abstractions.  Durations are integers and double without overflow,      *)
(* which in the code takes a maximal backoff of a century.  The clock is   *)
(* monotonic, as Go's is.  The slice of start times is a set: each has a   *)
(* number, and nothing depends on their order.                             *)
(***************************************************************************)
EXTENDS Integers, FiniteSets

\* What policyOf makes of a declaration: defaults are filled in, and the
\* maximal backoff is at least the minimal one.
CONSTANT Policies

PolicyShapes ==
    [burst : Nat \ {0}, window : Nat \ {0}, min : Nat \ {0}, max : Nat \ {0},
     healthyAfter : Nat \ {0}]

PoliciesAreResolved ==
    /\ Policies \subseteq PolicyShapes
    /\ \A p \in Policies : p.min <= p.max

VARIABLES
    now,       \* the clock
    policy,    \* u.pol
    starts,    \* limit.starts
    next,      \* ladder.next
    term,      \* history: how often the starts were forgotten or the policy set
    admitted,  \* history: the starts that were admitted
    waits      \* history: the last two delays of one policy without a healthy run

limiter == <<starts, term, admitted>>
ladder == <<next, waits>>
vars == <<now, policy, limiter, ladder>>

NoWaits == <<0, 0>>

(***************************************************************************)
(* allow: what is a window old or older is forgotten; a start is recorded  *)
(* and admitted while fewer than burst are left.                           *)
(***************************************************************************)
Recent == {s \in starts : now - s.at < policy.window}

\* The start that is asked for now.
Asked == [n |-> Cardinality(admitted), at |-> now, term |-> term,
          burst |-> policy.burst, window |-> policy.window]

Allow ==
    /\ Cardinality(Recent) < policy.burst
    /\ starts' = Recent \cup {Asked}
    /\ admitted' = admitted \cup {Asked}
    /\ UNCHANGED <<now, policy, term, ladder>>

Refuse ==
    /\ Cardinality(Recent) >= policy.burst
    /\ starts' = Recent
    /\ UNCHANGED <<now, policy, term, admitted, ladder>>

\* reset: `service start` and `service restart`.
Reset ==
    /\ starts' = {}
    /\ term' = term + 1
    /\ UNCHANGED <<now, policy, admitted, ladder>>

(***************************************************************************)
(* delay: the wait after a run that lasted ran.                            *)
(***************************************************************************)
Delay(ran) == IF ran >= policy.healthyAfter THEN policy.min ELSE next

Smaller(a, b) == IF a <= b THEN a ELSE b

Restart(ran) ==
    /\ next' = Smaller(2 * Delay(ran), policy.max)
    /\ waits' = IF ran >= policy.healthyAfter THEN <<0, Delay(ran)>>
                ELSE <<waits[2], Delay(ran)>>
    /\ UNCHANGED <<now, policy, limiter>>

\* A changed declaration: a new ladder, the limits of the new policy, and the
\* starts kept unless it enables the unit.
Reload(p, enables) ==
    /\ policy' = p
    /\ next' = p.min /\ waits' = NoWaits
    /\ starts' = IF enables THEN {} ELSE starts
    /\ term' = term + 1
    /\ UNCHANGED <<now, admitted>>

Tick(passed) == now' = now + passed /\ UNCHANGED <<policy, limiter, ladder>>

Init ==
    /\ now \in Nat
    /\ policy \in Policies
    /\ starts = {} /\ admitted = {} /\ term = 0
    /\ next = policy.min /\ waits = NoWaits

Next ==
    \/ Allow \/ Refuse \/ Reset
    \/ \E ran \in Nat : Restart(ran)
    \/ \E p \in Policies, enables \in BOOLEAN : Reload(p, enables)
    \/ \E passed \in Nat \ {0} : Tick(passed)

Spec == Init /\ [][Next]_vars

(***************************************************************************)
(* Correctness.                                                            *)
(***************************************************************************)
\* The starts admitted in the window that ends with e, in the term of e: since
\* the starts were last forgotten and under one policy.
WindowOf(e) ==
    {s \in admitted : s.term = e.term /\ s.n <= e.n /\ e.at - s.at < e.window}

\* More than burst starts inside a window are never admitted, wherever the
\* window lies and whatever was refused or forgotten in between.
NeverBeyondBurst == \A e \in admitted : Cardinality(WindowOf(e)) <= e.burst

\* A delay is never shorter than the one before it unless a run was healthy,
\* and none is outside the bounds of the policy.
DelaysGrow ==
    /\ waits[1] <= waits[2]
    /\ waits[2] # 0 => waits[2] \in policy.min .. policy.max
=============================================================================
