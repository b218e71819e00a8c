------------------------- MODULE SupervisorMonitor -------------------------
(***************************************************************************)
(* The service monitor of `bashy supervisord`                              *)
(* (internal/agentos/supervisord_monitor.go).                              *)
(*                                                                         *)
(* One loop goroutine owns every unitRun.  It takes one message at a time  *)
(* (a provider answer, a probe verdict, a timer, a control request, a      *)
(* signal, a poll tick), applies the handler, and then runs stepAll, which *)
(* moves every unit toward its desired state.  Provider calls run on their *)
(* own goroutines and answer with a message that carries the generation    *)
(* they were asked under.                                                  *)
(*                                                                         *)
(* Abstractions.  The messages are sets and not a FIFO: each is posted by  *)
(* a goroutine of its own that can be delayed arbitrarily before its send. *)
(* Goroutines and the environment move only while the loop is in its       *)
(* select: a sweep reads nothing they write, so their steps commute with   *)
(* it.  Durations are nondeterministic (a timer may fire at once, a start  *)
(* may have left the start-limit window).  Of a declaration the model      *)
(* keeps what the loop decides by: the provider, the requirements, the     *)
(* restart policy, its limits and whether there is a probe.  Reasons, the  *)
(* Restarts counter and the Health text are reporting only and left out.   *)
(***************************************************************************)
EXTENDS Integers, Sequences, FiniteSets

CONSTANTS
    Units,           \* unit names the registry may hold
    Rank,            \* name order: the order in which stepAll visits units
    Declarations,    \* what each unit may be declared as
    ForceAll,        \* `service run`: selected units run, enabled or not
    ToDone,          \* --until-done, --only or `service run`
    ReAdd            \* a removed name may be declared again in one monitor run

Providers == {"process", "internal"}

\* What a reload replaces in a unitRun: decl, pol, limit.burst and prov.
Declaration == [provider : Providers,       \* by the monitor, or its owner
                requires : Seq(Units),      \* Dependencies(), in order
                restart : {"always", "on-failure", "no"},
                burst : Nat \ {0},          \* start_limit.burst
                healthFailures : Nat \ {0}, \* health.failures
                probe : BOOLEAN,            \* a declared http|tcp|exec probe
                startPeriod : BOOLEAN]      \* a health.start_period

ASSUME ConstantsAssumption ==
    /\ IsFiniteSet(Units)
    /\ Rank \in [Units -> Nat]
    /\ \A u, v \in Units : Rank[u] = Rank[v] => u = v
    /\ Declarations \in [Units -> SUBSET Declaration]
    /\ ForceAll \in BOOLEAN /\ ToDone \in BOOLEAN /\ ReAdd \in BOOLEAN

VARIABLES
    registry,   \* the catalog on disk: desired state, edited by anyone
    decl,       \* u.decl, u.pol and u.prov of a monitored u, as last reloaded
    monitored,  \* DOMAIN of m.units
    run,        \* m.units[u], meaningful for u in monitored
    life,       \* history: how many times u was added to m.units
    prov,       \* each provider's incarnation of u, or NoChild
    calls,      \* provider calls in flight or answered but not yet handled
    probes,     \* outstanding health checks (probe chains)
    timers,     \* armed restart timers
    pevents,    \* provider events posted but not yet handled
    stopping,   \* m.stopping
    cancelled,  \* m.ctx is done (a second signal)
    pc,         \* the loop: "select", "sweep" (inside stepAll) or "done"
    sweep       \* the sweep in progress: pass, next rank, changed

vars == <<registry, decl, monitored, run, life, prov, calls, probes, timers,
          pevents, stopping, cancelled, pc, sweep>>
msgs == <<calls, probes, timers, pevents>>
decls == <<registry, decl, monitored, life>>
shutdown == <<stopping, cancelled>>
loop == <<pc, sweep>>

NoChild == [life |-> 0, gen |-> 0]

States == {"inactive", "starting", "active", "degraded", "stopping", "failed"}
RunningStates == {"starting", "active", "degraded"}
ExposedStates == {"active", "degraded"}
DeclPrint == [enabled : BOOLEAN, rev : Nat]
UnitRun == [st : States, gen : Nat, busy : BOOLEAN, waiting : BOOLEAN,
            latched : BOOLEAN, held : BOOLEAN, dirty : BOOLEAN,
            adhoc : BOOLEAN, gone : BOOLEAN, enabled : BOOLEAN,
            print : DeclPrint, fails : Nat, starts : Nat]
Thens == {"none", "inactive", "exit0", "exit1", "reconfigured", "restart"}
Call == [kind : {"activate", "activated", "deactivate", "configure"},
         unit : Units, via : Providers, life : Nat, gen : Nat, then : Thens]
Probe == [unit : Units, by : Providers \cup {"probe"},
          life : Nat, gen : Nat, verdict : {"open", "ok"}]
Timer == [unit : Units, life : Nat, gen : Nat]
ProviderEvent == [unit : Units, via : Providers, life : Nat, gen : Nat,
                  to : {"exit0", "exit1", "up"}]
Registry == [present : BOOLEAN, enabled : BOOLEAN, rev : Nat,
             decl : Declaration]

(***************************************************************************)
(* Reading the monitor's state.                                            *)
(***************************************************************************)
DeclFingerprint(u) == [enabled |-> registry[u].enabled, rev |-> registry[u].rev]

NewRun(u) ==
    [st |-> "inactive", gen |-> 0, busy |-> FALSE, waiting |-> FALSE,
     latched |-> FALSE, held |-> FALSE, dirty |-> FALSE, adhoc |-> FALSE,
     gone |-> FALSE, enabled |-> registry[u].enabled,
     print |-> DeclFingerprint(u), fails |-> 0, starts |-> 0]

\* The entry of a name that is not in m.units.
NoRun == [st |-> "inactive", gen |-> 0, busy |-> FALSE, waiting |-> FALSE,
          latched |-> FALSE, held |-> FALSE, dirty |-> FALSE, adhoc |-> FALSE,
          gone |-> FALSE, enabled |-> FALSE,
          print |-> [enabled |-> FALSE, rev |-> 0], fails |-> 0, starts |-> 0]

Declared == {u \in Units : registry[u].present}

Running(u) == run[u].st \in RunningStates

WantUpRun(r) == /\ ~stopping /\ ~r.gone /\ ~r.held
                /\ r.enabled \/ r.adhoc \/ ForceAll
WantUp(u) == WantUpRun(run[u])

Required(u) == decl[u].requires
DepsOf(u) == {Required(u)[i] : i \in DOMAIN Required(u)}

\* The incarnation that u.prov runs; one of another provider may be left over.
Current(u) == prov[u][decl[u].provider]
Alive(u) == \E k \in Providers : prov[u][k] # NoChild

DepUnavailable(d) == \/ d \notin monitored \/ run[d].gone
                     \/ ~WantUp(d) /\ ~stopping
DepReady(d) == ~DepUnavailable(d) /\ run[d].st \in ExposedStates
DepFailing(d) == DepUnavailable(d) \/ run[d].st = "failed"
DepsReady(u) == \A d \in DepsOf(u) : DepReady(d)

\* Mutant: waiting for a dependency becomes a state of its own.
BlockedInWaiting(u) == "waiting"

\* The state an unready unit waits in: that of its first unready dependency.
BlockedState(u) ==
    IF \E i \in DOMAIN Required(u) :
          /\ \A j \in 1 .. i-1 : DepReady(Required(u)[j])
          /\ ~DepReady(Required(u)[i])
          /\ DepFailing(Required(u)[i])
    THEN "failed" ELSE "inactive"

\* Mutant: a dependent that is only stopping no longer counts.
HasStartedDependents(u) ==
    \E o \in monitored \ {u} : Running(o) /\ u \in DepsOf(o)

HasRunningDependents(u) ==
    \E o \in monitored \ {u} :
        /\ Running(o) \/ run[o].busy \/ run[o].st = "stopping"
        /\ u \in DepsOf(o)

WantsRestart(u, code) ==
    \/ decl[u].restart = "always"
    \/ decl[u].restart = "on-failure" /\ code # "exit0"

\* Mutant: a unit still being stopped counts as down.
FinishedWhileStopping ==
    /\ stopping \/ ToDone
    /\ \A u \in monitored : ~Running(u) /\ ~run[u].waiting

\* Every unit is down and, unless stopping, none wants to run any more.
Finished ==
    /\ stopping \/ ToDone
    /\ \A u \in monitored :
          /\ ~run[u].busy /\ ~run[u].waiting
          /\ run[u].st \in {"inactive", "failed"}
          /\ stopping \/ ~ToDone \/ ~WantUp(u) \/ run[u].latched

\* A message belongs to the current incarnation: the code compares only gen.
Matches(m) == m.unit \in monitored /\ run[m.unit].gen = m.gen

(***************************************************************************)
(* Effects shared by several handlers.                                     *)
(***************************************************************************)
AtSelect == pc = "select" /\ ~Finished

StepAll == /\ pc' = "sweep"
           /\ sweep' = [pass |-> 1, at |-> 0, changed |-> FALSE]

SetRun(u, r) == run' = [run EXCEPT ![u] = r]

SetChild(u, k, child) == prov' = [prov EXCEPT ![u][k] = child]

Fail(r) == [r EXCEPT !.latched = TRUE, !.st = "failed"]

\* Mutant: the call captures the generation before it is bumped.
AskUnderOldGeneration(u, r, kind, then, rest) ==
    calls' = rest \cup {[kind |-> kind, unit |-> u, via |-> decl[u].provider,
                         life |-> life[u], gen |-> run[u].gen, then |-> then]}

\* A call goes to the provider the unit has when it is made.
AskProvider(u, r, kind, then, rest) ==
    calls' = rest \cup {[kind |-> kind, unit |-> u, via |-> decl[u].provider,
                         life |-> life[u], gen |-> r.gen, then |-> then]}

\* Mutant: a stop stays in the generation it ends.
DeactivateSameGeneration(u, r, announce, then, rest) ==
    LET d == [r EXCEPT !.busy = TRUE, !.st = IF announce THEN "stopping" ELSE @]
    IN  SetRun(u, d) /\ AskProvider(u, d, "deactivate", then, rest)

\* deactivate: a new generation, one Deactivate call in flight.
Deactivate(u, r, announce, then, rest) ==
    LET d == [r EXCEPT !.gen = @ + 1, !.busy = TRUE,
                       !.st = IF announce THEN "stopping" ELSE @]
    IN  SetRun(u, d) /\ AskProvider(u, d, "deactivate", then, rest)

\* A start passed every gate: a new generation, one Activate call in flight.
Launch(u, r, rest) ==
    LET s == [r EXCEPT !.gen = @ + 1, !.busy = TRUE, !.fails = 0,
                       !.dirty = FALSE, !.st = "starting"]
    IN  SetRun(u, s) /\ AskProvider(u, s, "activate", "none", rest)

\* checkBuild or checkPorts refused the start.
Refuse(u, r, rest) == SetRun(u, Fail(r)) /\ calls' = rest

\* activate: `kept` earlier starts are still inside the start-limit window.
Activate(u, r, exempt, rest) ==
    \/ /\ exempt
       /\ Launch(u, r, rest) \/ Refuse(u, r, rest)
    \/ /\ ~exempt
       /\ \E kept \in 0 .. r.starts :
            \/ /\ kept < decl[u].burst
               /\ LET s == [r EXCEPT !.starts = kept + 1]
                  IN  Launch(u, s, rest) \/ Refuse(u, s, rest)
            \/ /\ kept >= decl[u].burst
               /\ Refuse(u, [r EXCEPT !.starts = kept], rest)

\* refreshEnabled: the enabled bit is reread, the fingerprint is not.
RefreshEnabled(u, r) ==
    IF registry[u].present THEN [r EXCEPT !.enabled = registry[u].enabled]
                           ELSE r

\* Mutant: the timer is armed under the generation that exited.
TimerOfExited(u, r) == [unit |-> u, life |-> life[u], gen |-> r.gen - 1]

RestartTimer(u, r) == [unit |-> u, life |-> life[u], gen |-> r.gen]

\* afterExit: the restart policy applied to an exit of the incarnation.
AfterExit(u, r, code) ==
    LET e == [RefreshEnabled(u, r) EXCEPT !.st = "inactive"]
    IN  \/ /\ ~WantUpRun(e)
           /\ SetRun(u, e) /\ UNCHANGED timers
        \/ /\ WantUpRun(e) /\ WantsRestart(u, code)
           /\ SetRun(u, [e EXCEPT !.waiting = TRUE])
           /\ timers' = timers \cup {RestartTimer(u, r)}
        \/ /\ WantUpRun(e) /\ ~WantsRestart(u, code)
           /\ SetRun(u, IF code = "exit0" THEN [e EXCEPT !.latched = TRUE]
                                          ELSE Fail(e))
           /\ UNCHANGED timers

(***************************************************************************)
(* stepAll: one unit of the sweep, in name order, to a fixpoint.           *)
(***************************************************************************)
MustStop(u) == /\ Running(u)
               /\ IF WantUp(u) THEN ~DepsReady(u)
                               ELSE ~HasRunningDependents(u)
MustConfigure(u) == Running(u) /\ WantUp(u) /\ DepsReady(u) /\ run[u].dirty
MustClear(u) == /\ ~Running(u) /\ ~WantUp(u) /\ ~run[u].latched
                /\ run[u].st = "failed"
\* Mutant: the latch is not consulted.
StartableThoughLatched(u) == ~Running(u) /\ WantUp(u) /\ ~run[u].waiting

Startable(u) == ~Running(u) /\ WantUp(u) /\ ~run[u].waiting /\ ~run[u].latched
MustBlock(u) == Startable(u) /\ ~DepsReady(u) /\ run[u].st # BlockedState(u)
MustStart(u) == Startable(u) /\ DepsReady(u)

\* Mutant: a unit with a call in flight is stepped all the same.
EffectiveThoughBusy(u) ==
    /\ u \in monitored
    /\ \/ MustStop(u) \/ MustConfigure(u) \/ MustClear(u)
       \/ MustBlock(u) \/ MustStart(u)

Effective(u) ==
    /\ u \in monitored /\ ~run[u].busy
    /\ \/ MustStop(u) \/ MustConfigure(u) \/ MustClear(u)
       \/ MustBlock(u) \/ MustStart(u)

\* stepAll passes over the units with nothing to do.
NextInSweep(u) ==
    /\ pc = "sweep"
    /\ Effective(u) /\ Rank[u] >= sweep.at
    /\ \A v \in monitored : Effective(v) /\ Rank[v] >= sweep.at
                              => Rank[u] <= Rank[v]

Stepped(u) ==
    /\ sweep' = [sweep EXCEPT !.at = Rank[u] + 1,
                              !.changed = @ \/ run'[u].st # run[u].st]
    /\ UNCHANGED <<decls, prov, probes, timers, pevents, shutdown, pc>>

StepStop(u) == /\ NextInSweep(u) /\ MustStop(u)
               /\ Deactivate(u, run[u], TRUE, "inactive", calls)
               /\ Stepped(u)

StepConfigure(u) ==
    /\ NextInSweep(u) /\ MustConfigure(u)
    /\ LET r == [run[u] EXCEPT !.dirty = FALSE, !.busy = TRUE]
       IN  SetRun(u, r) /\ AskProvider(u, r, "configure", "none", calls)
    /\ Stepped(u)

StepClear(u) == /\ NextInSweep(u) /\ MustClear(u)
                /\ SetRun(u, [run[u] EXCEPT !.st = "inactive"])
                /\ UNCHANGED calls /\ Stepped(u)

StepBlock(u) == /\ NextInSweep(u) /\ MustBlock(u)
                /\ SetRun(u, [run[u] EXCEPT !.st = BlockedState(u)])
                /\ UNCHANGED calls /\ Stepped(u)

StepStart(u) == /\ NextInSweep(u) /\ MustStart(u)
                /\ Activate(u, run[u], FALSE, calls)
                /\ Stepped(u)

\* Mutants: a unit is forgotten while it stops, or never once latched.
PrunableWhileBusy(u) == run[u].gone /\ ~Running(u) /\ ~run[u].waiting
PrunableUnlatched(u) == /\ run[u].gone /\ ~run[u].busy /\ ~Running(u)
                        /\ ~run[u].waiting /\ ~run[u].latched

Prunable(u) == /\ run[u].gone /\ ~run[u].busy /\ ~Running(u)
               /\ ~run[u].waiting

\* Mutant: one pass, no fixpoint.
NoMorePasses == FALSE

MorePasses == sweep.changed /\ sweep.pass <= Cardinality(monitored)

\* A pass is over: another one (at most one per unit, plus one) or the end of
\* the sweep, which forgets the units that are gone and down.
EndPass ==
    /\ pc = "sweep"
    /\ \A v \in monitored : ~(Effective(v) /\ Rank[v] >= sweep.at)
    /\ IF MorePasses
       THEN /\ sweep' = [pass |-> sweep.pass + 1, at |-> 0, changed |-> FALSE]
            /\ UNCHANGED <<monitored, run, pc>>
       ELSE /\ monitored' = {u \in monitored : ~Prunable(u)}
            /\ run' = [u \in Units |-> IF u \in monitored' THEN run[u]
                                                          ELSE NoRun]
            /\ pc' = "select"
            /\ sweep' = [pass |-> 0, at |-> 0, changed |-> FALSE]
    /\ UNCHANGED <<registry, decl, life, prov, msgs, shutdown>>

(***************************************************************************)
(* The loop's message handlers.  Each ends in stepAll.                     *)
(***************************************************************************)
\* What a health check asks: the declared probe, else u.prov.
Judge(u) == IF decl[u].probe THEN "probe" ELSE decl[u].provider

OnActivated(c) ==
    /\ AtSelect /\ c.kind = "activated" /\ Matches(c)
    /\ SetRun(c.unit, [run[c.unit] EXCEPT !.busy = FALSE])
    /\ calls' = calls \ {c}
    /\ probes' = probes \cup {[unit |-> c.unit, by |-> Judge(c.unit),
                               life |-> c.life, gen |-> c.gen,
                               verdict |-> "open"]}
    /\ StepAll
    /\ UNCHANGED <<decls, prov, timers, pevents, shutdown>>

\* The runtime did not resolve or the provider refused: no child was started.
OnActivateError(c) ==
    /\ AtSelect /\ c.kind = "activate" /\ Matches(c)
    /\ SetRun(c.unit, Fail([run[c.unit] EXCEPT !.busy = FALSE]))
    /\ calls' = calls \ {c}
    /\ StepAll
    /\ UNCHANGED <<decls, prov, probes, timers, pevents, shutdown>>

\* Deactivate returned (the child, if any, is gone) and its `then` runs.
OnDeactivated(c) ==
    /\ AtSelect /\ c.kind = "deactivate" /\ Matches(c)
    /\ SetChild(c.unit, c.via, NoChild)
    /\ LET u == c.unit
           r == [run[u] EXCEPT !.busy = FALSE]
           down == [r EXCEPT !.st = "inactive"]
           rest == calls \ {c}
       IN  \/ /\ c.then \in {"exit0", "exit1"}
              /\ AfterExit(u, r, c.then)
              /\ calls' = rest
           \/ /\ c.then \in {"inactive", "restart"}
              /\ SetRun(u, down)
              /\ calls' = rest /\ UNCHANGED timers
           \/ /\ c.then = "reconfigured"
              /\ UNCHANGED timers
              /\ IF WantUpRun(down) THEN Activate(u, down, TRUE, rest)
                                    ELSE SetRun(u, down) /\ calls' = rest
    /\ StepAll
    /\ UNCHANGED <<decls, probes, pevents, shutdown>>

\* Configure applied live, or the unit must be restarted.
OnConfigured(c, live) ==
    /\ AtSelect /\ c.kind = "configure" /\ Matches(c)
    /\ LET r == [run[c.unit] EXCEPT !.busy = FALSE]
           rest == calls \ {c}
       IN  IF live THEN SetRun(c.unit, r) /\ calls' = rest
           ELSE Deactivate(c.unit, r, TRUE, "reconfigured", rest)
    /\ StepAll
    /\ UNCHANGED <<decls, prov, probes, timers, pevents, shutdown>>

\* What a call has done when its answer is dropped.
DoneUnheard(c) == IF c.kind = "deactivate"
                  THEN SetChild(c.unit, c.via, NoChild) ELSE UNCHANGED prov

\* An answer to an incarnation that has been replaced is dropped.
OnStaleAnswer(c) ==
    /\ AtSelect /\ ~Matches(c)
    /\ calls' = calls \ {c}
    /\ DoneUnheard(c)
    /\ StepAll
    /\ UNCHANGED <<decls, run, probes, timers, pevents, shutdown>>

\* The exit code is the status of u.prov: not the reporter's, if u has moved.
ExitCodes(e) == IF e.via = decl[e.unit].provider THEN {e.to}
                                                 ELSE {"exit0", "exit1"}

\* The child exited on its own: quiet cleanup, then the restart policy.
OnProviderExit(e) ==
    /\ AtSelect /\ e.to \in {"exit0", "exit1"}
    /\ pevents' = pevents \ {e}
    /\ IF Matches(e) /\ Running(e.unit)
       THEN \E code \in ExitCodes(e) :
                Deactivate(e.unit, run[e.unit], FALSE, code, calls)
       ELSE UNCHANGED <<run, calls>>
    /\ StepAll
    /\ UNCHANGED <<decls, prov, probes, timers, shutdown>>

\* The owner applied the unit: a passing probe is posted, a second chain.
OnProviderUp(e) ==
    /\ AtSelect /\ e.to = "up"
    /\ pevents' = pevents \ {e}
    /\ probes' = IF /\ Matches(e) /\ run[e.unit].st = "starting"
                    /\ ~decl[e.unit].probe
                 THEN probes \cup {[unit |-> e.unit, by |-> Judge(e.unit),
                                    life |-> e.life, gen |-> e.gen,
                                    verdict |-> "ok"]}
                 ELSE probes
    /\ StepAll
    /\ UNCHANGED <<decls, run, prov, calls, timers, shutdown>>

ProbeApplies(p) == Matches(p) /\ Running(p.unit)

\* Mutant: the verdict is the last one.
LastProbe(p) == probes' = probes \ {p}

\* The chain goes on with the next probe of the same generation.
NextProbe(p) ==
    probes' = (probes \ {p})
                  \cup {[p EXCEPT !.by = Judge(p.unit), !.verdict = "open"]}

\* With no declared probe a process is unhealthy only once it has exited.
CanFail(p) == /\ ProbeApplies(p) /\ ~run[p.unit].busy /\ p.verdict = "open"
              /\ p.by = "process" => prov[p.unit]["process"] = NoChild

OnProbeGone(p) ==
    /\ AtSelect /\ ~ProbeApplies(p)
    /\ probes' = probes \ {p}
    /\ StepAll
    /\ UNCHANGED <<decls, run, prov, calls, timers, pevents, shutdown>>

\* A verdict that fails no one: ok, pending, or a live reconfigure in flight.
OnProbeOK(p) ==
    /\ AtSelect /\ ProbeApplies(p)
    /\ IF run[p.unit].busy
       THEN UNCHANGED run
       ELSE SetRun(p.unit, [run[p.unit] EXCEPT !.fails = 0, !.st = "active"])
    /\ NextProbe(p)
    /\ StepAll
    /\ UNCHANGED <<decls, prov, calls, timers, pevents, shutdown>>

OnProbePending(p) ==
    /\ AtSelect /\ ProbeApplies(p)
    /\ p.verdict = "open" /\ p.by = "internal"
    /\ NextProbe(p)
    /\ StepAll
    /\ UNCHANGED <<decls, run, prov, calls, timers, pevents, shutdown>>

\* A failed probe inside the start period of a starting unit does not count.
OnProbeGrace(p) ==
    /\ AtSelect /\ CanFail(p)
    /\ decl[p.unit].startPeriod /\ run[p.unit].st = "starting"
    /\ NextProbe(p)
    /\ StepAll
    /\ UNCHANGED <<decls, run, prov, calls, timers, pevents, shutdown>>

OnProbeFailed(p) ==
    /\ AtSelect /\ CanFail(p)
    /\ LET u == p.unit
           r == [run[u] EXCEPT !.fails = @ + 1,
                               !.st = IF @ = "active" THEN "degraded" ELSE @]
       IN  IF r.fails >= decl[u].healthFailures
           THEN /\ Deactivate(u, r, TRUE, "exit1", calls)
                /\ probes' = probes \ {p}
           ELSE /\ SetRun(u, r) /\ NextProbe(p)
                /\ UNCHANGED calls
    /\ StepAll
    /\ UNCHANGED <<decls, prov, timers, pevents, shutdown>>

OnTimer(t) ==
    /\ AtSelect
    /\ timers' = timers \ {t}
    /\ IF Matches(t) THEN SetRun(t.unit, [run[t.unit] EXCEPT !.waiting = FALSE])
                     ELSE UNCHANGED run
    /\ StepAll
    /\ UNCHANGED <<decls, prov, calls, probes, pevents, shutdown>>

(***************************************************************************)
(* Declarations: reload applies the difference between registry and units. *)
(***************************************************************************)
\* The units that take on what the registry declares.
Redeclared(u) ==
    /\ registry[u].present
    /\ u \in monitored => run[u].print # DeclFingerprint(u) \/ run[u].gone

ReloadUnit(u) ==
    LET r == run[u] IN
    IF u \notin monitored THEN IF u \in Declared THEN NewRun(u) ELSE NoRun
    ELSE IF ~registry[u].present THEN [r EXCEPT !.gone = TRUE]
    ELSE IF ~Redeclared(u) THEN r
    ELSE LET enabled == registry[u].enabled /\ ~r.enabled IN
         [r EXCEPT !.enabled = registry[u].enabled,
                   !.print = DeclFingerprint(u), !.gone = FALSE,
                   !.latched = FALSE, !.held = @ /\ ~enabled,
                   !.starts = IF enabled THEN 0 ELSE @,
                   !.dirty = Running(u)]

\* A changed declaration takes its unit, running or not, to the provider it
\* names; nobody tells the one that runs it.
Reload ==
    /\ monitored' = monitored \cup Declared
    /\ decl' = [u \in Units |-> IF Redeclared(u) THEN registry[u].decl
                                                 ELSE decl[u]]
    /\ run' = [u \in Units |-> ReloadUnit(u)]
    /\ life' = [u \in Units |-> IF u \in Declared \ monitored
                                THEN life[u] + 1 ELSE life[u]]
    /\ UNCHANGED <<registry, prov, msgs, shutdown>>

\* The poll tick reloads and, unlike every message, runs no stepAll.
Poll == AtSelect /\ ~stopping /\ Reload /\ UNCHANGED <<pc, sweep>>

ControlReload == AtSelect /\ Reload /\ StepAll

(***************************************************************************)
(* Control requests: start, stop and restart of one unit; status, desired  *)
(* and report (and any refused request) change nothing but run stepAll.    *)
(***************************************************************************)
ControlQuery ==
    /\ AtSelect
    /\ StepAll
    /\ UNCHANGED <<decls, run, prov, msgs, shutdown>>

Control(u) ==
    /\ AtSelect /\ u \in monitored
    /\ StepAll
    /\ UNCHANGED <<decls, prov, probes, timers, pevents, shutdown>>

ControlStart(u) ==
    /\ Control(u)
    /\ SetRun(u, [run[u] EXCEPT !.held = FALSE, !.latched = FALSE,
                                !.waiting = FALSE, !.starts = 0,
                                !.adhoc = ~run[u].enabled])
    /\ UNCHANGED calls

ControlStop(u) ==
    /\ Control(u)
    /\ SetRun(u, [run[u] EXCEPT !.held = TRUE, !.adhoc = FALSE,
                                !.waiting = FALSE])
    /\ UNCHANGED calls

ControlRestart(u) ==
    /\ Control(u)
    /\ LET r == [run[u] EXCEPT !.held = FALSE, !.latched = FALSE,
                               !.waiting = FALSE, !.starts = 0]
       IN  IF Running(u) /\ ~r.busy
           THEN Deactivate(u, r, TRUE, "restart", calls)
           ELSE SetRun(u, r) /\ UNCHANGED calls

(***************************************************************************)
(* Signals and the end of the loop.                                        *)
(***************************************************************************)
\* Mutant: a unit in backoff is left to its timer.
StillWaiting(u) == run[u]

NoLongerWaiting(u) == [run[u] EXCEPT !.waiting = FALSE]

\* TERM/INT: shutdown; a second one cancels the context and every grace.
Signal ==
    /\ AtSelect
    /\ stopping' = TRUE
    /\ cancelled' = (cancelled \/ stopping)
    /\ run' = [u \in Units |-> NoLongerWaiting(u)]
    /\ StepAll
    /\ UNCHANGED <<decls, prov, msgs>>

Exit == /\ pc = "select" /\ Finished
        /\ pc' = "done"
        /\ UNCHANGED <<decls, run, prov, msgs, shutdown, sweep>>

\* post selects between the loop's channel and a done context: once the
\* context is done either may win, and then the message is never delivered.
LosePost == /\ cancelled /\ pc = "select"
            /\ UNCHANGED <<decls, run, shutdown, loop>>

LoseAnswer(c) == /\ LosePost
                 /\ calls' = calls \ {c} /\ DoneUnheard(c)
                 /\ UNCHANGED <<probes, timers, pevents>>
LoseProbe(p) == /\ LosePost
                /\ probes' = probes \ {p}
                /\ UNCHANGED <<prov, calls, timers, pevents>>
LoseEvent(e) == /\ LosePost
                /\ pevents' = pevents \ {e}
                /\ UNCHANGED <<prov, calls, probes, timers>>
LoseTimer(t) == /\ LosePost
                /\ timers' = timers \ {t}
                /\ UNCHANGED <<prov, calls, probes, pevents>>

(***************************************************************************)
(* Providers and the world around the monitor.                             *)
(***************************************************************************)
\* Activate started the incarnation; its answer is on its way.  A process is
\* refused while there is one; a delegation replaces the one there is.
ProviderStarts(c) ==
    /\ pc = "select" /\ c.kind = "activate"
    /\ c.via = "process" => prov[c.unit]["process"] = NoChild
    /\ SetChild(c.unit, c.via, [life |-> c.life, gen |-> c.gen])
    /\ calls' = (calls \ {c}) \cup {[c EXCEPT !.kind = "activated"]}
    /\ UNCHANGED <<decls, run, probes, timers, pevents, shutdown, loop>>

EmitEvent(u, k, to) ==
    pevents' = pevents \cup {[unit |-> u, via |-> k, life |-> prov[u][k].life,
                             gen |-> prov[u][k].gen, to |-> to]}

\* A process ends by itself and its wait says so.
ChildExits(u, code) ==
    /\ pc = "select" /\ prov[u]["process"] # NoChild
    /\ SetChild(u, "process", NoChild)
    /\ EmitEvent(u, "process", code)
    /\ UNCHANGED <<decls, run, calls, probes, timers, shutdown, loop>>

\* The owner reports an internal unit up or, with no exit code and so as a
\* failure, down.  The delegation stays until the monitor deactivates it.
OwnerReports(u, to) ==
    /\ pc = "select" /\ prov[u]["internal"] # NoChild
    /\ EmitEvent(u, "internal", to)
    /\ UNCHANGED <<decls, run, prov, calls, probes, timers, shutdown, loop>>

EditRegistry(u, entry) ==
    /\ pc = "select"
    /\ registry' = [registry EXCEPT ![u] = entry]
    /\ UNCHANGED <<decl, monitored, run, life, prov, msgs, shutdown, loop>>

SetEnabled(u) == /\ registry[u].present
                 /\ EditRegistry(u, [registry[u] EXCEPT !.enabled = ~@])
ChangeDeclaration(u, d) ==
    /\ registry[u].present
    /\ EditRegistry(u, [registry[u] EXCEPT !.rev = @ + 1, !.decl = d])
Remove(u) == /\ registry[u].present
             /\ EditRegistry(u, [registry[u] EXCEPT !.present = FALSE])
Declare(u, d) ==
    /\ ~registry[u].present /\ (ReAdd \/ life[u] = 0)
    /\ EditRegistry(u, [registry[u] EXCEPT !.present = TRUE, !.decl = d])

(***************************************************************************)
(* The specification.                                                      *)
(***************************************************************************)
Init ==
    /\ registry \in [Units -> [present : BOOLEAN, enabled : BOOLEAN, rev : {0},
                               decl : UNION {Declarations[u] : u \in Units}]]
    /\ \A u \in Units : registry[u].decl \in Declarations[u]
    /\ decl = [u \in Units |-> registry[u].decl]
    /\ monitored = Declared
    /\ run = [u \in Units |-> IF u \in Declared THEN NewRun(u) ELSE NoRun]
    /\ life = [u \in Units |-> IF u \in Declared THEN 1 ELSE 0]
    /\ prov = [u \in Units |-> [k \in Providers |-> NoChild]]
    /\ calls = {} /\ probes = {} /\ timers = {} /\ pevents = {}
    /\ stopping = FALSE /\ cancelled = FALSE
    /\ pc = "sweep"
    /\ sweep = [pass |-> 1, at |-> 0, changed |-> FALSE]

Sweep == \/ \E u \in Units : \/ StepStop(u) \/ StepConfigure(u)
                             \/ StepClear(u) \/ StepBlock(u) \/ StepStart(u)
         \/ EndPass

Answer(c) == \/ OnActivated(c) \/ OnDeactivated(c)
             \/ \E live \in BOOLEAN : OnConfigured(c, live)
             \/ OnStaleAnswer(c)

ProbeVerdict(p) == OnProbeGone(p) \/ OnProbeOK(p)

ProbeFault(p) == OnProbePending(p) \/ OnProbeGrace(p) \/ OnProbeFailed(p)

ProviderNews(e) == OnProviderExit(e) \/ OnProviderUp(e)

Operator == \E u \in Units : ControlStart(u) \/ ControlStop(u)
                             \/ ControlRestart(u)

Edit == \E u \in Units :
            \/ SetEnabled(u) \/ Remove(u)
            \/ \E d \in Declarations[u] : ChangeDeclaration(u, d) \/ Declare(u, d)

Reports == \E u \in Units :
    \/ \E code \in {"exit0", "exit1"} : ChildExits(u, code)
    \/ \E to \in {"up", "exit1"} : OwnerReports(u, to)

Idle == pc = "done" /\ UNCHANGED vars

Next ==
    \/ Sweep \/ Exit \/ Idle
    \/ \E c \in calls : \/ Answer(c) \/ OnActivateError(c)
                        \/ ProviderStarts(c) \/ LoseAnswer(c)
    \/ \E p \in probes : ProbeVerdict(p) \/ ProbeFault(p) \/ LoseProbe(p)
    \/ \E e \in pevents : ProviderNews(e) \/ LoseEvent(e)
    \/ \E t \in timers : OnTimer(t) \/ LoseTimer(t)
    \/ Poll \/ ControlReload \/ ControlQuery \/ Operator \/ Signal
    \/ Edit \/ Reports

Spec == Init /\ [][Next]_vars

(***************************************************************************)
(* Fairness.  The loop runs; provider calls return (a Deactivate kills     *)
(* after its grace) and every answer, event, verdict and timer of a unit   *)
(* is handled in the end, whatever else the loop receives in between.      *)
(***************************************************************************)
Of(u, S) == {m \in S : m.unit = u}

AnswerOf(u) == \E c \in Of(u, calls) : Answer(c) \/ ProviderStarts(c)
ProbeOf(u) == \E p \in Of(u, probes) : ProbeVerdict(p)
NewsOf(u) == \E e \in Of(u, pevents) : ProviderNews(e)
TimerOf(u) == \E t \in Of(u, timers) : OnTimer(t)

LoopFairness == WF_vars(Sweep) /\ WF_vars(Exit)
AnswerFairness == \A u \in Units : SF_vars(AnswerOf(u))
MessageFairness ==
    \A u \in Units : SF_vars(ProbeOf(u)) /\ SF_vars(NewsOf(u) \/ TimerOf(u))
PollFairness == SF_vars(Poll)
ReloadFairness == SF_vars(ControlReload)

(***************************************************************************)
(* Types.                                                                  *)
(***************************************************************************)
\* Every variable, record and message has the shape the code gives it.
TypeOK ==
    /\ registry \in [Units -> Registry]
    /\ decl \in [Units -> Declaration]
    /\ monitored \subseteq Units
    /\ run \in [Units -> UnitRun]
    /\ life \in [Units -> Nat]
    /\ prov \in [Units -> [Providers -> [life : Nat, gen : Nat]]]
    /\ calls \subseteq Call
    /\ probes \subseteq Probe
    /\ timers \subseteq Timer
    /\ pevents \subseteq ProviderEvent
    /\ stopping \in BOOLEAN /\ cancelled \in BOOLEAN
    /\ pc \in {"select", "sweep", "done"}
    /\ sweep \in [pass : Nat, at : Nat, changed : BOOLEAN]

(***************************************************************************)
(* Safety.                                                                 *)
(***************************************************************************)
\* busy is cleared only by an answer, so a busy unit always has one coming:
\* until a second signal no unit is stuck waiting for a call that is over.
BusyIsAnswered ==
    ~cancelled => \A u \in monitored : run[u].busy =>
                     \E c \in calls : c.unit = u /\ Matches(c)

\* An Activate never overlaps another Activate or a Deactivate of its unit:
\* a start cannot be refused as "already running" nor killed by an old stop.
NoOverlappingCalls ==
    \A c, d \in calls :
        /\ c.unit = d.unit /\ c # d
        /\ c.kind = "activate"
        => d.kind \notin {"activate", "deactivate"}

ProbeDue(u) == \E p \in probes : p.unit = u /\ Matches(p)

\* The current incarnation runs, or the report of its exit is on the way.
ProcessKnown(u) ==
    \/ Current(u) = [life |-> life[u], gen |-> run[u].gen]
    \/ \E e \in pevents : e.unit = u /\ Matches(e) /\ e.to # "up"

\* A settled running unit is watched: a probe of its generation is due, and
\* its process is alive or the report of its exit is on the way.  After a
\* second signal any of the three may be lost.
RunningIsWatched ==
    ~cancelled => \A u \in monitored : Running(u) /\ ~run[u].busy =>
                     ProbeDue(u) /\ ProcessKnown(u)

\* A unit in backoff is down, and the timer that ends the backoff is due
\* unless a second signal may have lost it.
WaitingHasTimer ==
    \A u \in monitored : run[u].waiting =>
        /\ ~Running(u) /\ ~run[u].busy
        /\ cancelled \/ \E t \in timers : t.unit = u /\ Matches(t)

\* A failed or completed unit stays down until the latch is cleared: it never
\* runs, restarts by itself or has a call in flight while latched.
LatchedIsDown ==
    \A u \in monitored : run[u].latched =>
        run[u].st \in {"inactive", "failed"} /\ ~run[u].busy /\ ~run[u].waiting

\* When the monitor has exited no process is left and none can appear.
ExitLeavesNothing ==
    pc = "done" => /\ \A u \in Units : ~Alive(u)
                   /\ \A c \in calls : c.kind # "activate"

\* A message about a replaced incarnation is recognized and dropped.
LateMessagesDropped ==
    \A m \in calls \cup probes \cup timers \cup pevents :
        m.life # life[m.unit] => ~Matches(m)

(***************************************************************************)
(* The bookkeeping of generations that the properties above rest on, while *)
(* no name is used twice.                                                  *)
(***************************************************************************)
Transient == RunningStates \cup {"stopping"}

\* busy, waiting and latched fit the state they are set in.
FlagsFit(r) == /\ r.busy => r.st \in Transient
               /\ r.st \in Transient => ~r.waiting /\ ~r.latched
               /\ r.st = "stopping" => r.busy
               /\ r.latched => ~r.waiting
FlagsFitState == \A u \in monitored : FlagsFit(run[u])

\* A call of the current generation keeps its unit busy, and up unless it is
\* the call that stops it; there is one at most, and no call is of a
\* generation yet to come.
OneCurrentCall ==
    /\ \A c \in calls : c.unit \in monitored =>
          /\ c.gen <= run[c.unit].gen
          /\ Matches(c) => /\ run[c.unit].busy
                           /\ c.kind # "deactivate" => Running(c.unit)
    /\ \A c, d \in calls : c.unit = d.unit /\ Matches(c) /\ Matches(d) => c = d

\* A name is monitored once: what is forgotten is never declared again, and
\* what was never monitored has no calls.
NamesUsedOnce ==
    /\ \A u \in monitored : life[u] > 0 /\ (run[u].gone => ~registry[u].present)
    /\ \A u \in Declared \ monitored : life[u] = 0
    /\ \A c \in calls : life[c.unit] > 0

\* An answer of the current generation finds its unit waiting for it, and any
\* other answer is late.
Bookkeeping == FlagsFitState /\ OneCurrentCall /\ NamesUsedOnce

(***************************************************************************)
(* Custody of the processes, while no name is used twice.                  *)
(***************************************************************************)
\* The stage of a busy unit is that of the call it waits for.
Awaits(u, kind) ==
    run[u].busy /\ \E c \in calls : c.unit = u /\ Matches(c) /\ c.kind = kind

\* A call that starts or stops a process is never late: only the answers of
\* an Activate and of a Configure can be overtaken, by an exit.
CallsInTime ==
    \A c \in calls : /\ c.life = life[c.unit]
                     /\ c.kind \in {"activate", "deactivate"} => Matches(c)

\* No process and no event is of a generation yet to come, nor of one that a
\* call in flight has opened to start or to stop its unit.
NothingAhead ==
    /\ \A e \in pevents : life[e.unit] > 0
    /\ \A u \in monitored :
          /\ \A k \in Providers : prov[u][k].gen <= run[u].gen
          /\ \A e \in pevents : e.unit = u => e.gen <= run[u].gen
    /\ \A c \in calls : c.kind \in {"activate", "deactivate"} =>
          /\ \A k \in Providers : prov[c.unit][k].gen < c.gen
          /\ \A e \in pevents : e.unit = c.unit => e.gen < c.gen

\* While an Activate is in flight there is no process of its unit.
StartsAlone ==
    \A c \in calls : c.kind = "activate" => ~Alive(c.unit)

\* A process belongs to a unit that is up or has a call in flight.
ProcessesOwned ==
    \A u \in Units : Alive(u) =>
        u \in monitored /\ (Running(u) \/ run[u].busy)

\* A unit that is up, and not being started or stopped, is watched, until a
\* second signal.
UpIsWatched ==
    ~cancelled => \A u \in monitored : Running(u) =>
        /\ ~run[u].busy \/ Awaits(u, "configure") => ProbeDue(u) /\ ProcessKnown(u)
        /\ Awaits(u, "activated") => ProcessKnown(u)

\* Every process is accounted for: it is of a unit that is up or busy, no
\* start meets another process, and no stop is late.
Custody == /\ CallsInTime /\ NothingAhead /\ StartsAlone
           /\ ProcessesOwned /\ UpIsWatched

(***************************************************************************)
(* What a step may never do.                                               *)
(***************************************************************************)
\* stepAll reaches its fixpoint within its bound on passes.
SweepSettles ==
    [][pc = "sweep" /\ pc' = "select" => \A u \in Units : ~Effective(u)]_vars

\* Where a unit is in its life.  After a second signal answers may be lost.
Stage(u) == IF cancelled THEN "abandoned"
            ELSE IF u \notin monitored THEN "unknown"
            ELSE IF Awaits(u, "activate") THEN "starting"
            ELSE IF Awaits(u, "deactivate") THEN "stopping"
            ELSE IF Running(u) \/ run[u].busy THEN "up" ELSE "down"

Unit(u) == INSTANCE UnitLifecycle WITH
               stage <- Stage(u),
               alive <- Alive(u),
               wanted <- u \in monitored /\ WantUp(u) /\ ~run[u].latched

\* The monitor implements UnitLifecycle for every unit: a unit is started only
\* while it is wanted and not latched, once for each Activate, not before its
\* last process is gone, and forgotten only when nothing of it is left.
EveryUnitLives ==
    /\ \A u \in Units : Unit(u)!Unborn
    /\ [][\A u \in Units : Unit(u)!LifecycleStep]_vars

\* A unit that is no longer wanted is stopped only after every unit that
\* requires it is down, process included.
DependentsStopFirst ==
    [][\A u \in monitored :
          pc = "sweep" /\ ~WantUp(u) /\ Running(u) /\ run'[u].st = "stopping"
          => \A o \in Units \ {u} : u \in DepsOf(o) => ~Alive(o)]_vars

(***************************************************************************)
(* What eventually happens.                                                *)
(***************************************************************************)
\* After a signal every unit is stopped and the monitor exits, unless a second
\* signal cancels the context.
ShutdownCompletes == stopping ~> (pc = "done" \/ cancelled)

\* In its desired state: wanted and startable units are active, and units
\* that are not wanted are down.
InDesiredState(u) ==
    /\ ~run[u].busy /\ ~run[u].waiting
    /\ IF WantUp(u) THEN run[u].latched \/ ~DepsReady(u) \/ run[u].st = "active"
                    ELSE ~Running(u)

\* Once the world is quiet every declared unit is monitored, every removed
\* one forgotten, and each is in the state its declaration asks for.
Converges ==
    <>[](/\ monitored = Declared
         /\ \A u \in monitored : /\ run[u].print = DeclFingerprint(u)
                                 /\ InDesiredState(u))

(***************************************************************************)
(* What the documents and comments say and the code does not do.           *)
(***************************************************************************)
\* "A second signal cancels every remaining grace period", and the monitor
\* exits: a forced shutdown ends at least as surely as a graceful one.
ForcedShutdownCompletes == cancelled ~> pc = "done"

\* "every --poll, which catches edits made by other tools": an enabled unit
\* whose dependencies are up is started once a poll has read it.
PollCatchesEdits ==
    \A u \in Units :
        <>[](registry[u].present /\ registry[u].enabled /\ DepsReady(u))
            => <>(run[u].st = "active" \/ run[u].latched)

\* "--until-done: exit once ... every one completed or failed".
UntilDoneEnds ==
    ToDone /\ <>[](\A u \in monitored : run[u].latched \/ run[u].st = "failed")
        => <>(pc = "done")

\* The monitor "keeps every enabled unit in its desired state": what it
\* believes about the enabled bit ends up being what the registry says.
EnabledTracksRegistry ==
    <>[](\A u \in monitored : run[u].enabled = registry[u].enabled)
=============================================================================
