---------------------- MODULE SupervisorMonitorProofs ----------------------
(***************************************************************************)
(* What TLAPS proves about SupervisorMonitor for every set of units and of *)
(* declarations they may be given, and any number of faults, requests and  *)
(* edits: the types and, as long as no name is declared twice, the         *)
(* bookkeeping of a unit; the custody of its processes, as long as no      *)
(* declaration moves a unit to another provider either; and the fixpoint   *)
(* of stepAll, as long as no units require each other in a ring.           *)
(***************************************************************************)
EXTENDS SupervisorMonitor, FiniteSetTheorems, TLAPS

(***************************************************************************)
(* Types of the helpers.                                                   *)
(***************************************************************************)
\* What a declaration says has the type the loop relies on.
LEMMA DeclTypes ==
    ASSUME TypeOK, NEW u \in Units
    PROVE  /\ decl[u] \in Declaration /\ decl[u].provider \in Providers
           /\ Judge(u) \in Providers \cup {"probe"}
           /\ Required(u) \in Seq(Units)
  BY DEF TypeOK, Declaration, Judge, Required

\* A provider's incarnation may be replaced by a typed one.
LEMMA ChildTypes ==
    ASSUME TypeOK, NEW u \in Units, NEW k \in Providers,
           NEW child \in [life : Nat, gen : Nat], SetChild(u, k, child)
    PROVE  prov' \in [Units -> [Providers -> [life : Nat, gen : Nat]]]
  <1>1. prov[u] \in [Providers -> [life : Nat, gen : Nat]]
    BY DEF TypeOK
  <1>2. [prov[u] EXCEPT ![k] = child] \in [Providers -> [life : Nat, gen : Nat]]
    BY <1>1
  <1> QED
    BY <1>2 DEF SetChild, TypeOK

\* No incarnation is one.
LEMMA NoChildType == NoChild \in [life : Nat, gen : Nat]
  BY DEF NoChild

\* The entries reload and Init write are unit records.
LEMMA NewRunType ==
    ASSUME TypeOK, NEW u \in Units
    PROVE  /\ DeclFingerprint(u) \in DeclPrint
           /\ NewRun(u) \in UnitRun
           /\ NoRun \in UnitRun
  <1>1. registry[u] \in Registry
    BY DEF TypeOK
  <1>2. DeclFingerprint(u) \in DeclPrint
    BY <1>1 DEF DeclFingerprint, DeclPrint, Registry
  <1>3. registry[u].enabled \in BOOLEAN
    BY <1>1 DEF Registry
  <1>4. [enabled |-> FALSE, rev |-> 0] \in DeclPrint
    BY DEF DeclPrint
  <1> QED
    BY <1>2, <1>3, <1>4 DEF NewRun, NoRun, UnitRun, States

\* A unit without dependencies ready waits in a state of the unit machine.
LEMMA BlockedStateType == ASSUME NEW u PROVE BlockedState(u) \in States
  BY DEF BlockedState, States

\* The entry reload leaves for a unit is a unit record.
LEMMA ReloadUnitType ==
    ASSUME TypeOK, NEW u \in Units
    PROVE  ReloadUnit(u) \in UnitRun
  <1>1. run[u] \in UnitRun /\ registry[u].enabled \in BOOLEAN
    BY DEF TypeOK, Registry
  <1>2. DeclFingerprint(u) \in DeclPrint /\ NewRun(u) \in UnitRun /\ NoRun \in UnitRun
    BY NewRunType
  <1>3. Running(u) \in BOOLEAN
    BY DEF Running
  <1>4. ASSUME NEW p \in DeclPrint, NEW e \in BOOLEAN, NEW h \in BOOLEAN,
               NEW s \in Nat, NEW d \in BOOLEAN
        PROVE  [run[u] EXCEPT !.enabled = e, !.print = p, !.gone = FALSE,
                              !.latched = FALSE, !.held = h, !.starts = s,
                              !.dirty = d] \in UnitRun
    BY <1>1 DEF UnitRun
  <1>5. [run[u] EXCEPT !.gone = TRUE] \in UnitRun
    BY <1>1 DEF UnitRun
  <1>6. run[u].held \in BOOLEAN /\ run[u].starts \in Nat
    BY <1>1 DEF UnitRun
  <1> QED
    BY <1>1, <1>2, <1>3, <1>4, <1>5, <1>6 DEF ReloadUnit

\* Writing a unit record, or asking a provider, keeps the variable's type.
LEMMA EffectTypes ==
    ASSUME TypeOK, NEW u \in Units, NEW r \in UnitRun, NEW rest \in SUBSET Call
    PROVE  /\ SetRun(u, r) => run' \in [Units -> UnitRun]
           /\ \A k \in {"activate", "deactivate", "configure"}, t \in Thens :
                 AskProvider(u, r, k, t, rest) => calls' \in SUBSET Call
  <1>1. SetRun(u, r) => run' \in [Units -> UnitRun]
    BY DEF SetRun, TypeOK
  <1>2. ASSUME NEW k \in {"activate", "deactivate", "configure"},
               NEW t \in Thens, AskProvider(u, r, k, t, rest)
        PROVE  calls' \in SUBSET Call
    <2>1. life[u] \in Nat /\ r.gen \in Nat
      BY DEF TypeOK, UnitRun
    <2>2. [kind |-> k, unit |-> u, via |-> decl[u].provider, life |-> life[u],
           gen |-> r.gen, then |-> t] \in Call
      BY <2>1, DeclTypes DEF Call
    <2> QED
      BY <1>2, <2>2 DEF AskProvider
  <1> QED
    BY <1>1, <1>2

\* deactivate keeps the types.
LEMMA DeactivateType ==
    ASSUME TypeOK, NEW u \in Units, NEW r \in UnitRun, NEW rest \in SUBSET Call,
           NEW announce \in BOOLEAN, NEW t \in Thens,
           Deactivate(u, r, announce, t, rest)
    PROVE  run' \in [Units -> UnitRun] /\ calls' \in SUBSET Call
  <1> DEFINE d == [r EXCEPT !.gen = @ + 1, !.busy = TRUE,
                            !.st = IF announce THEN "stopping" ELSE @]
  <1>1. d \in UnitRun
    <2>1. r.gen + 1 \in Nat /\ r.st \in States /\ "stopping" \in States
      BY DEF UnitRun, States
    <2>2. \A g \in Nat, s \in States :
             [r EXCEPT !.gen = g, !.busy = TRUE, !.st = s] \in UnitRun
      BY DEF UnitRun
    <2>3. (IF announce THEN "stopping" ELSE r.st) \in States
      BY <2>1
    <2> QED
      BY <2>1, <2>2, <2>3
  <1>2. SetRun(u, d) /\ AskProvider(u, d, "deactivate", t, rest)
    BY DEF Deactivate
  <1> HIDE DEF d
  <1> QED
    BY <1>1, <1>2, EffectTypes

\* activate keeps the types, whichever gate it passes or fails.
LEMMA ActivateType ==
    ASSUME TypeOK, NEW u \in Units, NEW r \in UnitRun, NEW rest \in SUBSET Call,
           NEW exempt \in BOOLEAN, Activate(u, r, exempt, rest)
    PROVE  run' \in [Units -> UnitRun] /\ calls' \in SUBSET Call
  <1>1. ASSUME NEW s \in UnitRun, Launch(u, s, rest)
        PROVE  run' \in [Units -> UnitRun] /\ calls' \in SUBSET Call
    <2> DEFINE d == [s EXCEPT !.gen = @ + 1, !.busy = TRUE, !.fails = 0,
                              !.dirty = FALSE, !.st = "starting"]
    <2>1. d \in UnitRun
      <3>1. s.gen + 1 \in Nat /\ "starting" \in States
        BY DEF UnitRun, States
      <3>2. \A g \in Nat, x \in States :
               [s EXCEPT !.gen = g, !.busy = TRUE, !.fails = 0,
                         !.dirty = FALSE, !.st = x] \in UnitRun
        BY DEF UnitRun
      <3> QED
        BY <3>1, <3>2
    <2>2. SetRun(u, d) /\ AskProvider(u, d, "activate", "none", rest)
      BY <1>1 DEF Launch
    <2>3. "none" \in Thens
      BY DEF Thens
    <2> HIDE DEF d
    <2> QED
      BY <2>1, <2>2, <2>3, EffectTypes
  <1>2. ASSUME NEW s \in UnitRun, Refuse(u, s, rest)
        PROVE  run' \in [Units -> UnitRun] /\ calls' \in SUBSET Call
    <2>1. Fail(s) \in UnitRun
      BY DEF Fail, UnitRun, States
    <2> QED
      BY <1>2, <2>1, EffectTypes DEF Refuse
  <1>3. ASSUME NEW n \in Nat
        PROVE  [r EXCEPT !.starts = n] \in UnitRun
    BY DEF UnitRun
  <1>4. \A kept \in 0 .. r.starts : kept \in Nat /\ kept + 1 \in Nat
    BY DEF UnitRun
  <1> QED
    BY <1>1, <1>2, <1>3, <1>4 DEF Activate

\* afterExit keeps the types.
LEMMA AfterExitType ==
    ASSUME TypeOK, NEW u \in Units, NEW r \in UnitRun, NEW code,
           AfterExit(u, r, code)
    PROVE  run' \in [Units -> UnitRun] /\ timers' \in SUBSET Timer
  <1> DEFINE e == [RefreshEnabled(u, r) EXCEPT !.st = "inactive"]
  <1>1. RefreshEnabled(u, r) \in UnitRun
    BY DEF RefreshEnabled, UnitRun, TypeOK, Registry
  <1>2. e \in UnitRun
    BY <1>1 DEF UnitRun, States
  <1>3. [e EXCEPT !.waiting = TRUE] \in UnitRun /\ [e EXCEPT !.latched = TRUE] \in UnitRun
    BY <1>2 DEF UnitRun
  <1>4. Fail(e) \in UnitRun
    BY <1>2 DEF Fail, UnitRun, States
  <1>5. RestartTimer(u, r) \in Timer
    BY DEF RestartTimer, Timer, UnitRun, TypeOK
  <1>6. \/ SetRun(u, e) /\ UNCHANGED timers
        \/ /\ SetRun(u, [e EXCEPT !.waiting = TRUE])
           /\ timers' = timers \cup {RestartTimer(u, r)}
        \/ SetRun(u, [e EXCEPT !.latched = TRUE]) /\ UNCHANGED timers
        \/ SetRun(u, Fail(e)) /\ UNCHANGED timers
    BY DEF AfterExit
  <1> HIDE DEF e
  <1>7. \A s \in UnitRun : SetRun(u, s) => run' \in [Units -> UnitRun]
    BY DEF SetRun, TypeOK
  <1>8. timers \in SUBSET Timer
    BY DEF TypeOK
  <1> QED
    BY <1>2, <1>3, <1>4, <1>5, <1>6, <1>7, <1>8

(***************************************************************************)
(* Type correctness.                                                       *)
(***************************************************************************)
\* A field of a unit record may be overwritten with a value of its type.
LEMMA FieldTypes ==
    ASSUME NEW r \in UnitRun, NEW b \in BOOLEAN, NEW s \in States, NEW n \in Nat
    PROVE  /\ [r EXCEPT !.busy = b] \in UnitRun
           /\ [r EXCEPT !.waiting = b] \in UnitRun
           /\ [r EXCEPT !.st = s] \in UnitRun
           /\ [r EXCEPT !.starts = n] \in UnitRun
           /\ [r EXCEPT !.dirty = FALSE, !.busy = TRUE] \in UnitRun
           /\ [r EXCEPT !.fails = n, !.st = s] \in UnitRun
           /\ Fail(r) \in UnitRun
  <1>1. "failed" \in States
    BY DEF States
  <1> QED
    BY <1>1 DEF UnitRun, Fail

\* A step of stepAll keeps the types.
LEMMA SweepType ==
    ASSUME TypeOK, ConstantsAssumption, Sweep
    PROVE  TypeOK'
  <1>1. ASSUME NEW u \in Units, Stepped(u), run' \in [Units -> UnitRun],
               calls' \in SUBSET Call
        PROVE  TypeOK'
    <2>1. sweep' \in [pass : Nat, at : Nat, changed : BOOLEAN]
      <3>1. Rank[u] + 1 \in Nat
        BY ConstantsAssumption
      <3>2. \A n \in Nat, b \in BOOLEAN :
               [sweep EXCEPT !.at = n, !.changed = b]
                  \in [pass : Nat, at : Nat, changed : BOOLEAN]
        BY DEF TypeOK
      <3>3. (sweep.changed \/ run'[u].st # run[u].st) \in BOOLEAN
        OBVIOUS
      <3> QED
        BY <1>1, <3>1, <3>2, <3>3 DEF Stepped
    <2> QED
      BY <1>1, <2>1 DEF Stepped, TypeOK, decls, shutdown
  <1>2. ASSUME NEW u \in Units
        PROVE  run[u] \in UnitRun /\ calls \in SUBSET Call
    BY DEF TypeOK
  <1>3. ASSUME NEW u \in Units, StepStop(u)
        PROVE  TypeOK'
    <2>1. "inactive" \in Thens /\ TRUE \in BOOLEAN
      BY DEF Thens
    <2>2. run' \in [Units -> UnitRun] /\ calls' \in SUBSET Call
      BY <1>2, <1>3, <2>1, DeactivateType DEF StepStop
    <2> QED
      BY <1>1, <1>3, <2>2 DEF StepStop
  <1>4. ASSUME NEW u \in Units, StepConfigure(u)
        PROVE  TypeOK'
    <2> DEFINE r == [run[u] EXCEPT !.dirty = FALSE, !.busy = TRUE]
    <2>1. r \in UnitRun
      BY <1>2, FieldTypes, 0 \in Nat, "failed" \in States DEF States
    <2>2. SetRun(u, r) /\ AskProvider(u, r, "configure", "none", calls)
      BY <1>4 DEF StepConfigure
    <2>3. "none" \in Thens
      BY DEF Thens
    <2> HIDE DEF r
    <2>4. run' \in [Units -> UnitRun] /\ calls' \in SUBSET Call
      BY <1>2, <2>1, <2>2, <2>3, EffectTypes
    <2> QED
      BY <1>1, <1>4, <2>4 DEF StepConfigure
  <1>5. ASSUME NEW u \in Units, NEW s \in States,
               SetRun(u, [run[u] EXCEPT !.st = s]), UNCHANGED calls, Stepped(u)
        PROVE  TypeOK'
    <2>1. [run[u] EXCEPT !.st = s] \in UnitRun
      BY <1>2, FieldTypes, 0 \in Nat
    <2>2. run' \in [Units -> UnitRun] /\ calls' \in SUBSET Call
      BY <1>2, <1>5, <2>1, EffectTypes
    <2> QED
      BY <1>1, <1>5, <2>2
  <1>6. ASSUME NEW u \in Units, StepClear(u)
        PROVE  TypeOK'
    BY <1>5, <1>6 DEF StepClear, States
  <1>7. ASSUME NEW u \in Units, StepBlock(u)
        PROVE  TypeOK'
    BY <1>5, <1>7, BlockedStateType DEF StepBlock
  <1>8. ASSUME NEW u \in Units, StepStart(u)
        PROVE  TypeOK'
    <2>1. run' \in [Units -> UnitRun] /\ calls' \in SUBSET Call
      BY <1>2, <1>8, ActivateType DEF StepStart
    <2> QED
      BY <1>1, <1>8, <2>1 DEF StepStart
  <1>9. CASE EndPass
    <2>1. NoRun \in UnitRun \/ Units = {}
      BY NewRunType
    <2>2. monitored' \subseteq Units /\ run' \in [Units -> UnitRun]
      <3>1. CASE MorePasses
        BY <1>9, <3>1 DEF EndPass, TypeOK
      <3>2. CASE ~MorePasses
        <4>1. /\ monitored' \subseteq monitored
              /\ run' = [u \in Units |-> IF u \in monitored' THEN run[u]
                                                           ELSE NoRun]
          BY <1>9, <3>2 DEF EndPass
        <4>2. \A u \in Units : run[u] \in UnitRun /\ NoRun \in UnitRun
          BY <2>1 DEF TypeOK
        <4> QED
          BY <4>1, <4>2 DEF TypeOK
      <3> QED
        BY <3>1, <3>2
    <2>3. sweep' \in [pass : Nat, at : Nat, changed : BOOLEAN]
      <3>1. sweep.pass + 1 \in Nat
        BY DEF TypeOK
      <3>2. \/ sweep' = [pass |-> sweep.pass + 1, at |-> 0, changed |-> FALSE]
            \/ sweep' = [pass |-> 0, at |-> 0, changed |-> FALSE]
        <4>1. CASE MorePasses
          BY <1>9, <4>1 DEF EndPass
        <4>2. CASE ~MorePasses
          BY <1>9, <4>2 DEF EndPass
        <4> QED
          BY <4>1, <4>2
      <3>3. \A n \in Nat : [pass |-> n, at |-> 0, changed |-> FALSE]
                            \in [pass : Nat, at : Nat, changed : BOOLEAN]
        OBVIOUS
      <3> QED
        BY <3>1, <3>2, <3>3, 0 \in Nat
    <2>4. pc' \in {"select", "sweep", "done"}
      BY <1>9 DEF EndPass, TypeOK
    <2> QED
      BY <1>9, <2>2, <2>3, <2>4 DEF EndPass, TypeOK, msgs, shutdown
  <1> QED
    BY <1>3, <1>4, <1>6, <1>7, <1>8, <1>9 DEF Sweep

\* The start of a sweep has the type of the loop variables.
LEMMA StepAllType ==
    ASSUME StepAll
    PROVE  /\ pc' \in {"select", "sweep", "done"}
           /\ sweep' \in [pass : Nat, at : Nat, changed : BOOLEAN]
  BY DEF StepAll

\* What a call has done unheard keeps the type of the incarnations.
LEMMA UnheardType ==
    ASSUME TypeOK, NEW c \in calls, DoneUnheard(c)
    PROVE  prov' \in [Units -> [Providers -> [life : Nat, gen : Nat]]]
  <1>1. c.unit \in Units /\ c.via \in Providers
    BY DEF TypeOK, Call
  <1>2. CASE SetChild(c.unit, c.via, NoChild)
    BY <1>1, <1>2, ChildTypes, NoChildType
  <1>3. CASE UNCHANGED prov
    BY <1>3 DEF TypeOK
  <1> QED
    BY <1>2, <1>3 DEF DoneUnheard

\* Handling a provider's answer keeps the types.
LEMMA AnswerType ==
    ASSUME TypeOK, NEW c \in calls, Answer(c) \/ OnActivateError(c)
    PROVE  TypeOK'
  <1> DEFINE u == c.unit
             r == [run[u] EXCEPT !.busy = FALSE]
             rest == calls \ {c}
  <1>1. /\ u \in Units /\ run[u] \in UnitRun /\ c \in Call
        /\ rest \in SUBSET Call /\ "inactive" \in States
        /\ Fail(r) \in UnitRun
        /\ r \in UnitRun /\ [r EXCEPT !.st = "inactive"] \in UnitRun
    <2>1. u \in Units /\ run[u] \in UnitRun /\ c \in Call /\ rest \in SUBSET Call
      BY DEF TypeOK, Call
    <2>2. "inactive" \in States /\ FALSE \in BOOLEAN /\ 0 \in Nat
      BY DEF States
    <2>3. r \in UnitRun
      BY <2>1, <2>2, FieldTypes
    <2>4. [r EXCEPT !.st = "inactive"] \in UnitRun /\ Fail(r) \in UnitRun
      BY <2>2, <2>3, FieldTypes
    <2> QED
      BY <2>1, <2>2, <2>3, <2>4
  <1>2. CASE OnActivated(c)
    <2>1. run' \in [Units -> UnitRun]
      BY <1>1, <1>2, EffectTypes DEF OnActivated
    <2>2. probes' \in SUBSET Probe
      <3>1. [unit |-> c.unit, by |-> Judge(c.unit), life |-> c.life,
             gen |-> c.gen, verdict |-> "open"] \in Probe
        BY <1>1, DeclTypes DEF Probe, Call
      <3> QED
        BY <1>2, <3>1 DEF OnActivated, TypeOK
    <2> QED
      BY <1>1, <1>2, <2>1, <2>2, StepAllType DEF OnActivated, TypeOK, decls, shutdown
  <1>3. CASE OnActivateError(c)
    <2>1. run' \in [Units -> UnitRun]
      BY <1>1, <1>3, EffectTypes DEF OnActivateError
    <2> QED
      BY <1>1, <1>3, <2>1, StepAllType DEF OnActivateError, TypeOK, decls, shutdown
  <1>4. CASE OnDeactivated(c)
    <2> DEFINE down == [r EXCEPT !.st = "inactive"]
    <2>1. /\ run' \in [Units -> UnitRun] /\ calls' \in SUBSET Call
          /\ timers' \in SUBSET Timer
      <3>1. \/ AfterExit(u, r, c.then) /\ calls' = rest
            \/ SetRun(u, down) /\ calls' = rest /\ UNCHANGED timers
            \/ Activate(u, down, TRUE, rest) /\ UNCHANGED timers
        BY <1>4 DEF OnDeactivated
      <3>2. timers \in SUBSET Timer /\ TRUE \in BOOLEAN
        BY DEF TypeOK
      <3> HIDE DEF u, r, down, rest
      <3>3. CASE AfterExit(u, r, c.then) /\ calls' = rest
        BY <1>1, <3>3, AfterExitType
      <3>4. CASE SetRun(u, down) /\ calls' = rest /\ UNCHANGED timers
        BY <1>1, <3>2, <3>4, EffectTypes DEF down
      <3>5. CASE Activate(u, down, TRUE, rest) /\ UNCHANGED timers
        BY <1>1, <3>2, <3>5, ActivateType DEF down
      <3> QED
        BY <3>1, <3>3, <3>4, <3>5
    <2>2. prov' \in [Units -> [Providers -> [life : Nat, gen : Nat]]]
      BY <1>1, <1>4, ChildTypes, NoChildType DEF OnDeactivated, Call
    <2> QED
      BY <1>4, <2>1, <2>2, StepAllType DEF OnDeactivated, TypeOK, decls, shutdown
  <1>5. ASSUME NEW live \in BOOLEAN, OnConfigured(c, live)
        PROVE  TypeOK'
    <2>1. run' \in [Units -> UnitRun] /\ calls' \in SUBSET Call
      <3>1. \/ SetRun(u, r) /\ calls' = rest
            \/ Deactivate(u, r, TRUE, "reconfigured", rest)
        BY <1>5 DEF OnConfigured
      <3>2. "reconfigured" \in Thens /\ TRUE \in BOOLEAN
        BY DEF Thens
      <3> HIDE DEF u, r, rest
      <3>3. CASE SetRun(u, r) /\ calls' = rest
        BY <1>1, <3>3, EffectTypes
      <3>4. CASE Deactivate(u, r, TRUE, "reconfigured", rest)
        BY <1>1, <3>2, <3>4, DeactivateType
      <3> QED
        BY <3>1, <3>3, <3>4
    <2> QED
      BY <1>5, <2>1, StepAllType DEF OnConfigured, TypeOK, decls, shutdown
  <1>6. CASE OnStaleAnswer(c)
    <2>1. prov' \in [Units -> [Providers -> [life : Nat, gen : Nat]]]
      BY <1>6, UnheardType DEF OnStaleAnswer
    <2> QED
      BY <1>1, <1>6, <2>1, StepAllType DEF OnStaleAnswer, TypeOK, decls, shutdown
  <1> QED
    BY <1>2, <1>3, <1>4, <1>5, <1>6 DEF Answer

\* The life of a call outside the loop: it starts a child or is lost.
LEMMA CallType ==
    ASSUME TypeOK, NEW c \in calls, ProviderStarts(c) \/ LoseAnswer(c)
    PROVE  TypeOK'
  <1>1. c \in Call /\ c.unit \in Units
    BY DEF TypeOK, Call
  <1>2. [c EXCEPT !.kind = "activated"] \in Call
    BY <1>1 DEF Call
  <1>3. [life |-> c.life, gen |-> c.gen] \in [life : Nat, gen : Nat]
    BY <1>1 DEF Call
  <1>4. CASE ProviderStarts(c)
    <2>1. c.via \in Providers
      BY <1>1 DEF Call
    <2>2. prov' \in [Units -> [Providers -> [life : Nat, gen : Nat]]]
      BY <1>1, <1>3, <1>4, <2>1, ChildTypes DEF ProviderStarts
    <2>3. calls' \in SUBSET Call
      BY <1>2, <1>4 DEF ProviderStarts, TypeOK
    <2> QED
      BY <1>4, <2>2, <2>3 DEF ProviderStarts, TypeOK, decls, shutdown, loop
  <1>5. CASE LoseAnswer(c)
    <2>1. prov' \in [Units -> [Providers -> [life : Nat, gen : Nat]]]
      BY <1>5, UnheardType DEF LoseAnswer
    <2> QED
      BY <1>5, <2>1 DEF LoseAnswer, LosePost, TypeOK, decls, shutdown, loop
  <1> QED
    BY <1>4, <1>5

\* A message of another kind that is lost.
LEMMA LossType ==
    ASSUME TypeOK,
           \/ \E p \in probes : LoseProbe(p)
           \/ \E e \in pevents : LoseEvent(e)
           \/ \E t \in timers : LoseTimer(t)
    PROVE  TypeOK'
  BY DEF LoseProbe, LoseEvent, LoseTimer, LosePost, TypeOK, decls, shutdown, loop

\* Handling a verdict of the health checks keeps the types.
LEMMA ProbeType ==
    ASSUME TypeOK, NEW p \in probes, ProbeVerdict(p) \/ ProbeFault(p)
    PROVE  TypeOK'
  <1>1. p \in Probe
    BY DEF TypeOK
  <1>2. /\ probes \ {p} \in SUBSET Probe
        /\ NextProbe(p) => probes' \in SUBSET Probe
    <2>1. p.unit \in Units
      BY <1>1 DEF Probe
    <2>2. [p EXCEPT !.by = Judge(p.unit), !.verdict = "open"] \in Probe
      BY <1>1, <2>1, DeclTypes DEF Probe
    <2> QED
      BY <2>2 DEF NextProbe, TypeOK
  <1>3. CASE OnProbeGone(p)
    BY <1>2, <1>3, StepAllType DEF OnProbeGone, TypeOK, decls, shutdown
  <1>4. CASE OnProbeOK(p)
    <2>1. run' \in [Units -> UnitRun]
      <3>1. p.unit \in Units /\ run[p.unit] \in UnitRun
        BY <1>1 DEF Probe, TypeOK
      <3>2. [run[p.unit] EXCEPT !.fails = 0, !.st = "active"] \in UnitRun
        BY <3>1, FieldTypes, FALSE \in BOOLEAN, 0 \in Nat, "active" \in States
        DEF States
      <3>3. UNCHANGED run \/ SetRun(p.unit, [run[p.unit] EXCEPT !.fails = 0,
                                                                !.st = "active"])
        BY <1>4 DEF OnProbeOK
      <3> QED
        BY <3>1, <3>2, <3>3 DEF SetRun, TypeOK
    <2> QED
      BY <1>2, <1>4, <2>1, StepAllType DEF OnProbeOK, TypeOK, decls, shutdown
  <1>5. CASE OnProbePending(p)
    BY <1>2, <1>5, StepAllType DEF OnProbePending, TypeOK, decls, shutdown
  <1>6. CASE OnProbeGrace(p)
    BY <1>2, <1>6, StepAllType DEF OnProbeGrace, TypeOK, decls, shutdown
  <1>7. CASE OnProbeFailed(p)
    <2> DEFINE u == p.unit
               r == [run[u] EXCEPT !.fails = @ + 1,
                                   !.st = IF @ = "active" THEN "degraded" ELSE @]
    <2>1. u \in Units /\ run[u] \in UnitRun /\ calls \in SUBSET Call
      BY <1>1 DEF Probe, TypeOK
    <2>2. r \in UnitRun
      <3>1. run[u].fails + 1 \in Nat
        BY <2>1 DEF UnitRun
      <3>2. (IF run[u].st = "active" THEN "degraded" ELSE run[u].st) \in States
        BY <2>1 DEF UnitRun, States
      <3> QED
        BY <2>1, <3>1, <3>2, FieldTypes, FALSE \in BOOLEAN
    <2>3. \/ Deactivate(u, r, TRUE, "exit1", calls) /\ probes' = probes \ {p}
          \/ SetRun(u, r) /\ NextProbe(p) /\ UNCHANGED calls
      BY <1>7 DEF OnProbeFailed
    <2>4. "exit1" \in Thens /\ TRUE \in BOOLEAN
      BY DEF Thens
    <2> HIDE DEF u, r
    <2>5. /\ run' \in [Units -> UnitRun] /\ calls' \in SUBSET Call
          /\ probes' \in SUBSET Probe
      <3>1. CASE Deactivate(u, r, TRUE, "exit1", calls) /\ probes' = probes \ {p}
        BY <1>2, <2>1, <2>2, <2>4, <3>1, DeactivateType
      <3>2. CASE SetRun(u, r) /\ NextProbe(p) /\ UNCHANGED calls
        BY <1>2, <2>1, <2>2, <3>2, EffectTypes
      <3> QED
        BY <2>3, <3>1, <3>2
    <2> QED
      BY <1>7, <2>5, StepAllType DEF OnProbeFailed, TypeOK, decls, shutdown
  <1> QED
    BY <1>3, <1>4, <1>5, <1>6, <1>7 DEF ProbeVerdict, ProbeFault

\* Handling a provider event or a timer keeps the types.
LEMMA NewsType ==
    ASSUME TypeOK,
           \/ \E e \in pevents : ProviderNews(e)
           \/ \E t \in timers : OnTimer(t)
    PROVE  TypeOK'
  <1>1. ASSUME NEW e \in pevents, OnProviderExit(e)
        PROVE  TypeOK'
    <2>1. /\ e \in ProviderEvent /\ e.unit \in Units /\ run[e.unit] \in UnitRun
          /\ calls \in SUBSET Call
      BY DEF TypeOK, ProviderEvent
    <2>2. ExitCodes(e) \subseteq Thens /\ FALSE \in BOOLEAN
      BY <1>1 DEF OnProviderExit, ExitCodes, Thens
    <2>3. run' \in [Units -> UnitRun] /\ calls' \in SUBSET Call
      <3>1. \/ \E code \in ExitCodes(e) :
                  Deactivate(e.unit, run[e.unit], FALSE, code, calls)
            \/ UNCHANGED <<run, calls>>
        BY <1>1 DEF OnProviderExit
      <3>2. UNCHANGED <<run, calls>>
              => run' \in [Units -> UnitRun] /\ calls' \in SUBSET Call
        BY DEF TypeOK
      <3> QED
        BY <2>1, <2>2, <3>1, <3>2, DeactivateType
    <2> QED
      BY <1>1, <2>3, StepAllType DEF OnProviderExit, TypeOK, decls, shutdown
  <1>2. ASSUME NEW e \in pevents, OnProviderUp(e)
        PROVE  TypeOK'
    <2>1. e.unit \in Units
      BY DEF TypeOK, ProviderEvent
    <2>2. [unit |-> e.unit, by |-> Judge(e.unit), life |-> e.life,
           gen |-> e.gen, verdict |-> "ok"] \in Probe
      BY <2>1, DeclTypes DEF TypeOK, ProviderEvent, Probe
    <2>3. probes' \in SUBSET Probe
      BY <1>2, <2>2 DEF OnProviderUp, TypeOK
    <2> QED
      BY <1>2, <2>3, StepAllType DEF OnProviderUp, TypeOK, decls, shutdown
  <1>3. ASSUME NEW t \in timers, OnTimer(t)
        PROVE  TypeOK'
    <2>1. t.unit \in Units /\ run[t.unit] \in UnitRun
      BY DEF TypeOK, Timer
    <2>2. [run[t.unit] EXCEPT !.waiting = FALSE] \in UnitRun
      BY <2>1, FieldTypes, FALSE \in BOOLEAN, 0 \in Nat, "failed" \in States
      DEF States
    <2>3. run' \in [Units -> UnitRun]
      BY <1>3, <2>1, <2>2 DEF OnTimer, SetRun, TypeOK
    <2> QED
      BY <1>3, <2>3, StepAllType DEF OnTimer, TypeOK, decls, shutdown
  <1> QED
    BY <1>1, <1>2, <1>3 DEF ProviderNews

\* Reloading, by poll or by request, keeps the types.
LEMMA ReloadType ==
    ASSUME TypeOK, Poll \/ ControlReload
    PROVE  TypeOK'
  <1>1. Reload
    BY DEF Poll, ControlReload
  <1>2. run' \in [Units -> UnitRun]
    BY <1>1, ReloadUnitType DEF Reload
  <1>3. life' \in [Units -> Nat]
    BY <1>1 DEF Reload, TypeOK
  <1>4. monitored' \subseteq Units
    BY <1>1 DEF Reload, Declared, TypeOK
  <1>5. /\ pc' \in {"select", "sweep", "done"}
        /\ sweep' \in [pass : Nat, at : Nat, changed : BOOLEAN]
    BY StepAllType DEF Poll, ControlReload, TypeOK
  <1>6. decl' \in [Units -> Declaration]
    <2>1. \A u \in Units : registry[u].decl \in Declaration /\ decl[u] \in Declaration
      BY DEF TypeOK, Registry
    <2> QED
      BY <1>1, <2>1 DEF Reload
  <1> QED
    BY <1>1, <1>2, <1>3, <1>4, <1>5, <1>6 DEF Reload, TypeOK, msgs, shutdown

\* An operator's request or a signal keeps the types.
LEMMA RequestType ==
    ASSUME TypeOK, ControlQuery \/ Operator \/ Signal
    PROVE  TypeOK'
  <1>1. CASE ControlQuery
    BY <1>1, StepAllType DEF ControlQuery, TypeOK, decls, msgs, shutdown
  <1>2. ASSUME NEW u \in Units, Control(u), run' \in [Units -> UnitRun],
               calls' \in SUBSET Call
        PROVE  TypeOK'
    BY <1>2, StepAllType DEF Control, TypeOK, decls, shutdown
  <1>3. ASSUME NEW u \in Units
        PROVE  run[u] \in UnitRun /\ calls \in SUBSET Call
    BY DEF TypeOK
  <1>4. ASSUME NEW u \in Units, ControlStart(u)
        PROVE  TypeOK'
    <2>1. [run[u] EXCEPT !.held = FALSE, !.latched = FALSE, !.waiting = FALSE,
                         !.starts = 0, !.adhoc = ~run[u].enabled] \in UnitRun
      BY <1>3 DEF UnitRun
    <2>2. run' \in [Units -> UnitRun] /\ calls' \in SUBSET Call
      BY <1>3, <1>4, <2>1, EffectTypes DEF ControlStart
    <2> QED
      BY <1>2, <1>4, <2>2 DEF ControlStart
  <1>5. ASSUME NEW u \in Units, ControlStop(u)
        PROVE  TypeOK'
    <2>1. [run[u] EXCEPT !.held = TRUE, !.adhoc = FALSE, !.waiting = FALSE]
             \in UnitRun
      BY <1>3 DEF UnitRun
    <2>2. run' \in [Units -> UnitRun] /\ calls' \in SUBSET Call
      BY <1>3, <1>5, <2>1, EffectTypes DEF ControlStop
    <2> QED
      BY <1>2, <1>5, <2>2 DEF ControlStop
  <1>6. ASSUME NEW u \in Units, ControlRestart(u)
        PROVE  TypeOK'
    <2> DEFINE r == [run[u] EXCEPT !.held = FALSE, !.latched = FALSE,
                                   !.waiting = FALSE, !.starts = 0]
    <2>1. r \in UnitRun
      BY <1>3 DEF UnitRun
    <2>2. \/ Deactivate(u, r, TRUE, "restart", calls)
          \/ SetRun(u, r) /\ UNCHANGED calls
      BY <1>6 DEF ControlRestart
    <2>3. "restart" \in Thens /\ TRUE \in BOOLEAN
      BY DEF Thens
    <2> HIDE DEF r
    <2>4. run' \in [Units -> UnitRun] /\ calls' \in SUBSET Call
      <3>1. CASE Deactivate(u, r, TRUE, "restart", calls)
        BY <1>3, <2>1, <2>3, <3>1, DeactivateType
      <3>2. CASE SetRun(u, r) /\ UNCHANGED calls
        BY <1>3, <2>1, <3>2, EffectTypes
      <3> QED
        BY <2>2, <3>1, <3>2
    <2> QED
      BY <1>2, <1>6, <2>4 DEF ControlRestart
  <1>7. CASE Signal
    <2>1. \A u \in Units : [run[u] EXCEPT !.waiting = FALSE] \in UnitRun
      BY <1>3 DEF UnitRun
    <2>2. run' \in [Units -> UnitRun]
      BY <1>7, <2>1 DEF Signal, NoLongerWaiting
    <2> QED
      BY <1>7, <2>2, StepAllType DEF Signal, TypeOK, decls, msgs
  <1> QED
    BY <1>1, <1>4, <1>5, <1>6, <1>7 DEF Operator

\* What happens around the monitor keeps the types.
LEMMA WorldType ==
    ASSUME TypeOK, ConstantsAssumption, Edit \/ Reports
    PROVE  TypeOK'
  <1>1. ASSUME NEW u \in Units, NEW d \in Registry, EditRegistry(u, d)
        PROVE  TypeOK'
    BY <1>1 DEF EditRegistry, TypeOK, msgs, shutdown, loop
  <1>2. CASE Edit
    <2>1. \A u \in Units : /\ registry[u] \in Registry
                           /\ registry[u].rev + 1 \in Nat
      BY DEF TypeOK, Registry
    <2>2. \A u \in Units :
             /\ [registry[u] EXCEPT !.enabled = ~@] \in Registry
             /\ [registry[u] EXCEPT !.present = FALSE] \in Registry
      BY <2>1 DEF Registry
    <2>3. \A u \in Units, n \in Nat, d \in Declaration :
             /\ [registry[u] EXCEPT !.rev = n, !.decl = d] \in Registry
             /\ [registry[u] EXCEPT !.present = TRUE, !.decl = d] \in Registry
      BY <2>1 DEF Registry
    <2>4. \A u \in Units : Declarations[u] \subseteq Declaration
      BY DEF ConstantsAssumption
    <2> QED
      BY <1>1, <1>2, <2>1, <2>2, <2>3, <2>4
      DEF Edit, SetEnabled, ChangeDeclaration, Remove, Declare
  <1>3. ASSUME NEW u \in Units, NEW to \in {"exit0", "exit1", "up"},
               NEW k \in Providers, EmitEvent(u, k, to)
        PROVE  pevents' \in SUBSET ProviderEvent
    <2>1. [unit |-> u, via |-> k, life |-> prov[u][k].life,
           gen |-> prov[u][k].gen, to |-> to] \in ProviderEvent
      BY DEF TypeOK, ProviderEvent
    <2> QED
      BY <1>3, <2>1 DEF EmitEvent, TypeOK
  <1>4. ASSUME NEW u \in Units, NEW code \in {"exit0", "exit1"},
               ChildExits(u, code)
        PROVE  TypeOK'
    <2>1. pevents' \in SUBSET ProviderEvent
      BY <1>3, <1>4 DEF ChildExits, Providers
    <2>2. prov' \in [Units -> [Providers -> [life : Nat, gen : Nat]]]
      BY <1>4, ChildTypes, NoChildType DEF ChildExits, Providers
    <2> QED
      BY <1>4, <2>1, <2>2 DEF ChildExits, TypeOK, decls, shutdown, loop
  <1>5. ASSUME NEW u \in Units, NEW to \in {"up", "exit1"}, OwnerReports(u, to)
        PROVE  TypeOK'
    <2>1. pevents' \in SUBSET ProviderEvent
      BY <1>3, <1>5 DEF OwnerReports, Providers
    <2> QED
      BY <1>5, <2>1 DEF OwnerReports, TypeOK, decls, shutdown, loop
  <1> QED
    BY <1>2, <1>4, <1>5 DEF Reports

\* The initial state is well typed.
LEMMA InitType ==
    ASSUME ConstantsAssumption, Init
    PROVE  TypeOK
  <1>1. registry \in [Units -> Registry] /\ decl \in [Units -> Declaration]
    <2>1. \A u \in Units : registry[u].decl \in Declaration
      BY DEF Init, ConstantsAssumption
    <2>2. \A u \in Units : registry[u] \in Registry
      BY <2>1 DEF Init, Registry
    <2>3. DOMAIN registry = Units /\ registry = [u \in Units |-> registry[u]]
      BY DEF Init
    <2> QED
      BY <2>1, <2>2, <2>3 DEF Init
  <1>2. \A u \in Units : NewRun(u) \in UnitRun /\ NoRun \in UnitRun
    <2>1. ASSUME NEW u \in Units
          PROVE  NewRun(u) \in UnitRun /\ NoRun \in UnitRun
      <3>1. registry[u].enabled \in BOOLEAN /\ registry[u].rev \in Nat
        BY <1>1 DEF Registry
      <3>2. DeclFingerprint(u) \in DeclPrint /\ [enabled |-> FALSE, rev |-> 0] \in DeclPrint
        BY <3>1 DEF DeclFingerprint, DeclPrint
      <3> QED
        BY <3>1, <3>2 DEF NewRun, NoRun, UnitRun, States
    <2> QED
      BY <2>1
  <1>3. run \in [Units -> UnitRun]
    BY <1>2 DEF Init
  <1>4. prov \in [Units -> [Providers -> [life : Nat, gen : Nat]]]
    BY NoChildType DEF Init
  <1>5. monitored \subseteq Units /\ life \in [Units -> Nat]
    BY DEF Init, Declared
  <1> QED
    BY <1>1, <1>3, <1>4, <1>5 DEF Init, TypeOK

\* Every step of the monitor, its providers and its operators is well typed.
LEMMA NextType ==
    ASSUME TypeOK, [Next]_vars
    PROVE  TypeOK'
  <1>1. CASE UNCHANGED vars
    BY <1>1 DEF TypeOK, vars
  <1>2. CASE Exit
    BY <1>2 DEF Exit, TypeOK, decls, msgs, shutdown
  <1> QED
    BY <1>1, <1>2, ConstantsAssumption, SweepType, AnswerType, CallType,
       LossType, ProbeType, NewsType, ReloadType, RequestType, WorldType DEF Next, Idle

\* Type correctness of the service monitor.
THEOREM TypeCorrect == Spec => []TypeOK
  <1>1. Init => TypeOK
    BY ConstantsAssumption, InitType
  <1>2. TypeOK /\ [Next]_vars => TypeOK'
    BY NextType
  <1> QED
    BY <1>1, <1>2, PTL DEF Spec

(***************************************************************************)
(* Safety.  While no name is declared twice in one run of the monitor, a   *)
(* latched unit stays down, a busy unit has its answer coming and a unit   *)
(* in backoff has its timer.  None of the three is inductive: an answer is *)
(* matched by generation only, so the proof carries the bookkeeping of     *)
(* generations (Bookkeeping) along.                                        *)
(***************************************************************************)
IInv == TypeOK /\ Bookkeeping /\ BusyIsAnswered /\ WaitingHasTimer
Rest == Bookkeeping /\ BusyIsAnswered /\ WaitingHasTimer

\* The current calls of u, given the generation u has.
CurrentCalls(u, r, cs) == {c \in cs : c.unit = u /\ c.gen = r.gen}

\* What a step that rewrites the record of one unit owes the invariant.
LEMMA UnitStep ==
    ASSUME IInv, NEW u \in monitored, NEW r \in UnitRun, SetRun(u, r),
           UNCHANGED decls, UNCHANGED cancelled, calls' \in SUBSET Call,
           timers \subseteq timers', FlagsFit(r), r.gone = run[u].gone,
           \A c \in calls \cup calls' : c.unit # u => (c \in calls <=> c \in calls'),
           \A c \in calls' : c.unit = u => c.gen <= r.gen /\ (c.gen = r.gen => r.busy),
           \A c, d \in CurrentCalls(u, r, calls') : c = d,
           \A c \in CurrentCalls(u, r, calls') :
              c.kind # "deactivate" => r.st \in RunningStates,
           r.busy /\ ~cancelled => CurrentCalls(u, r, calls') # {},
           r.waiting => cancelled \/ \E t \in timers' : t.unit = u /\ t.gen = r.gen
    PROVE  Rest'
  <1>1. /\ run' = [run EXCEPT ![u] = r] /\ u \in Units
        /\ run'[u] = r /\ \A v \in Units : v # u => run'[v] = run[v]
    BY DEF SetRun, IInv, TypeOK
  <1>2. monitored' = monitored /\ life' = life /\ registry' = registry
    BY DEF decls
  <1>3. monitored \subseteq Units /\ \A c \in calls \cup calls' : c.unit \in Units
    BY DEF IInv, TypeOK, Call
  <1>4. FlagsFitState'
    BY <1>1, <1>2, <1>3 DEF IInv, Bookkeeping, FlagsFitState, FlagsFit
  <1>5. OneCurrentCall'
    <2>1. ASSUME NEW c \in calls', c.unit \in monitored'
          PROVE  /\ c.gen <= run'[c.unit].gen
                 /\ Matches(c)' => /\ run'[c.unit].busy
                                   /\ c.kind # "deactivate" => Running(c.unit)'
      <3>1. CASE c.unit = u
        BY <1>1, <1>2, <2>1, <3>1 DEF Matches, CurrentCalls, Running
      <3>2. CASE c.unit # u
        <4>1. c \in calls /\ run'[c.unit] = run[c.unit]
          BY <1>1, <1>3, <3>2
        <4> QED
          BY <1>2, <2>1, <4>1
          DEF Matches, IInv, Bookkeeping, OneCurrentCall, Running
      <3> QED
        BY <3>1, <3>2
    <2>2. ASSUME NEW c \in calls', NEW d \in calls', c.unit = d.unit,
                 Matches(c)', Matches(d)'
          PROVE  c = d
      <3>1. CASE c.unit = u
        <4>1. /\ c \in CurrentCalls(u, r, calls')
              /\ d \in CurrentCalls(u, r, calls')
          BY <1>1, <2>2, <3>1 DEF Matches, CurrentCalls
        <4> QED
          BY <4>1
      <3>2. CASE c.unit # u
        <4>1. c \in calls /\ d \in calls /\ run'[c.unit] = run[c.unit]
          BY <1>1, <1>3, <2>2, <3>2
        <4> QED
          BY <1>2, <2>2, <4>1 DEF Matches, IInv, Bookkeeping, OneCurrentCall
      <3> QED
        BY <3>1, <3>2
    <2> QED
      BY <2>1, <2>2 DEF OneCurrentCall
  <1>6. NamesUsedOnce'
    <2>1. \A v \in monitored' : life'[v] > 0
      BY <1>2 DEF IInv, Bookkeeping, NamesUsedOnce
    <2>2. \A v \in monitored' : run'[v].gone => ~registry'[v].present
      BY <1>1, <1>2, <1>3 DEF IInv, Bookkeeping, NamesUsedOnce
    <2>3. \A v \in (Declared \ monitored)' : life'[v] = 0
      BY <1>2 DEF IInv, Bookkeeping, NamesUsedOnce, Declared
    <2>4. \A c \in calls' : life'[c.unit] > 0
      BY <1>2 DEF IInv, Bookkeeping, NamesUsedOnce
    <2> QED
      BY <2>1, <2>2, <2>3, <2>4 DEF NamesUsedOnce
  <1>7. BusyIsAnswered'
    <2>1. ASSUME ~cancelled, NEW v \in monitored, run'[v].busy
          PROVE  \E c \in calls' : c.unit = v /\ Matches(c)'
      <3>1. CASE v = u
        <4>1. PICK c \in calls' : c.unit = u /\ c.gen = r.gen
          BY <1>1, <2>1, <3>1 DEF CurrentCalls
        <4>2. Matches(c)'
          BY <1>1, <1>2, <4>1 DEF Matches
        <4> QED
          BY <3>1, <4>1, <4>2
      <3>2. CASE v # u
        <4>1. run'[v] = run[v]
          BY <1>1, <1>3, <3>2
        <4>2. PICK c \in calls : c.unit = v /\ Matches(c)
          BY <2>1, <4>1 DEF IInv, BusyIsAnswered
        <4>3. c \in calls' /\ Matches(c)'
          BY <1>2, <3>2, <4>1, <4>2 DEF Matches
        <4> QED
          BY <4>2, <4>3
      <3> QED
        BY <3>1, <3>2
    <2> QED
      BY <1>2, <2>1 DEF BusyIsAnswered
  <1>8. WaitingHasTimer'
    <2>1. ASSUME NEW v \in monitored, run'[v].waiting
          PROVE  /\ ~Running(v)' /\ ~run'[v].busy
                 /\ cancelled' \/ \E t \in timers' : t.unit = v /\ Matches(t)'
      <3>1. CASE v = u
        <4>1. cancelled \/ \E t \in timers' : t.unit = u /\ t.gen = r.gen
          BY <1>1, <2>1, <3>1
        <4>2. cancelled' \/ \E t \in timers' : t.unit = u /\ Matches(t)'
          BY <1>1, <1>2, <4>1 DEF Matches
        <4>3. ~Running(v)' /\ ~run'[v].busy
          BY <1>1, <2>1, <3>1 DEF FlagsFit, Running, Transient
        <4> QED
          BY <3>1, <4>2, <4>3
      <3>2. CASE v # u
        <4>1. run'[v] = run[v]
          BY <1>1, <1>3, <3>2
        <4>2. cancelled \/ \E t \in timers : t.unit = v /\ Matches(t)
          BY <2>1, <4>1 DEF IInv, WaitingHasTimer
        <4>3. cancelled' \/ \E t \in timers' : t.unit = v /\ Matches(t)'
          BY <1>2, <4>1, <4>2 DEF Matches
        <4>4. ~Running(v)' /\ ~run'[v].busy
          BY <2>1, <4>1 DEF IInv, WaitingHasTimer, Running
        <4> QED
          BY <4>3, <4>4
      <3> QED
        BY <3>1, <3>2
    <2> QED
      BY <1>2, <2>1 DEF WaitingHasTimer
  <1> QED
    BY <1>4, <1>5, <1>6, <1>7, <1>8 DEF Rest, Bookkeeping

\* What the invariant says of one monitored unit.
LEMMA UnitFacts ==
    ASSUME IInv, NEW u \in monitored
    PROVE  /\ u \in Units /\ run[u] \in UnitRun /\ FlagsFit(run[u])
           /\ calls \in SUBSET Call
           /\ \A c \in calls : c.unit = u =>
                 c.gen <= run[u].gen /\ (c.gen = run[u].gen => run[u].busy)
           /\ \A c, d \in CurrentCalls(u, run[u], calls) : c = d
           /\ \A c \in CurrentCalls(u, run[u], calls) :
                 c.kind # "deactivate" => run[u].st \in RunningStates
           /\ run[u].busy /\ ~cancelled => CurrentCalls(u, run[u], calls) # {}
           /\ run[u].waiting => \/ cancelled
                                \/ \E t \in timers : t.unit = u /\ t.gen = run[u].gen
  <1>1. u \in Units /\ run[u] \in UnitRun /\ calls \in SUBSET Call
    BY DEF IInv, TypeOK
  <1>2. FlagsFit(run[u])
    BY DEF IInv, Bookkeeping, FlagsFitState
  <1>3. \A c \in calls : c.unit = u =>
           c.gen <= run[u].gen /\ (c.gen = run[u].gen => run[u].busy)
    BY DEF IInv, Bookkeeping, OneCurrentCall, Matches
  <1>4. /\ \A c, d \in CurrentCalls(u, run[u], calls) : c = d
        /\ \A c \in CurrentCalls(u, run[u], calls) :
              c.kind # "deactivate" => run[u].st \in RunningStates
    BY DEF IInv, Bookkeeping, OneCurrentCall, Matches, CurrentCalls, Running
  <1>5. run[u].busy /\ ~cancelled => CurrentCalls(u, run[u], calls) # {}
    BY DEF IInv, BusyIsAnswered, Matches, CurrentCalls
  <1>6. run[u].waiting => \/ cancelled
                         \/ \E t \in timers : t.unit = u /\ t.gen = run[u].gen
    BY DEF IInv, WaitingHasTimer, Matches
  <1> QED
    BY <1>1, <1>2, <1>3, <1>4, <1>5, <1>6

\* A step that rewrites a unit's record within its generation.
LEMMA QuietStep ==
    ASSUME IInv, NEW u \in monitored, NEW r \in UnitRun, SetRun(u, r),
           UNCHANGED <<calls, cancelled>>, UNCHANGED decls, timers \subseteq timers',
           r.gen = run[u].gen, r.busy = run[u].busy, r.gone = run[u].gone,
           FlagsFit(r), r.waiting => run[u].waiting,
           run[u].busy => r.st = run[u].st
    PROVE  Rest'
  <1>1. CurrentCalls(u, r, calls') = CurrentCalls(u, run[u], calls)
    BY DEF CurrentCalls
  <1>2. \A c \in CurrentCalls(u, run[u], calls) : run[u].busy
    BY UnitFacts DEF CurrentCalls
  <1> QED
    BY <1>1, <1>2, UnitFacts, UnitStep

\* A step that opens a new generation with one call in flight.
LEMMA NewGeneration ==
    ASSUME IInv, NEW u \in monitored, NEW r \in UnitRun, SetRun(u, r),
           NEW kind \in {"activate", "deactivate"}, NEW then \in Thens,
           NEW rest \in SUBSET calls,
           \A c \in calls : c.unit # u => c \in rest,
           AskProvider(u, r, kind, then, rest),
           UNCHANGED cancelled, UNCHANGED decls, timers \subseteq timers',
           r.gen = run[u].gen + 1, r.busy, r.gone = run[u].gone,
           r.st \in Transient, ~r.waiting, ~r.latched,
           kind = "activate" => r.st \in RunningStates
    PROVE  Rest'
  <1> DEFINE new == [kind |-> kind, unit |-> u, via |-> decl[u].provider,
                     life |-> life[u], gen |-> r.gen, then |-> then]
  <1>1. calls' = rest \cup {new}
    BY DEF AskProvider
  <1>2. /\ u \in Units /\ run[u].gen \in Nat /\ r.gen \in Nat /\ life[u] \in Nat
        /\ decl[u].provider \in Providers
    BY DeclTypes DEF IInv, TypeOK, UnitRun
  <1>3. new \in Call /\ new.unit = u /\ new.gen = r.gen /\ new.kind = kind
    BY <1>2 DEF Call
  <1> HIDE DEF new
  <1>4. calls' \in SUBSET Call
    BY <1>1, <1>3 DEF IInv, TypeOK
  <1>5. FlagsFit(r)
    BY DEF FlagsFit
  <1>6. ASSUME NEW c \in calls, c.unit = u
        PROVE  c.gen \in Nat /\ c.gen < r.gen
    <2>1. c \in Call /\ c.gen <= run[u].gen
      BY <1>6, UnitFacts
    <2>2. c.gen \in Nat
      BY <2>1 DEF Call
    <2> QED
      BY <1>2, <2>1, <2>2
  <1>7. \A c \in calls' : c.unit = u => c.gen <= r.gen /\ (c.gen = r.gen => r.busy)
    BY <1>1, <1>2, <1>3, <1>6
  <1>8. CurrentCalls(u, r, calls') = {new}
    BY <1>1, <1>2, <1>3, <1>6 DEF CurrentCalls
  <1>9. \A c \in calls \cup calls' : c.unit # u => (c \in calls <=> c \in calls')
    BY <1>1, <1>3
  <1>10. /\ \A c, d \in CurrentCalls(u, r, calls') : c = d
         /\ CurrentCalls(u, r, calls') # {}
         /\ \A c \in CurrentCalls(u, r, calls') :
               c.kind # "deactivate" => r.st \in RunningStates
    BY <1>3, <1>8
  <1> QED
    BY <1>4, <1>5, <1>7, <1>9, <1>10, UnitStep

\* A step that consumes the current answer of a unit.
LEMMA AnsweredStep ==
    ASSUME IInv, NEW c \in calls, Matches(c), NEW r \in UnitRun, SetRun(c.unit, r),
           calls' = calls \ {c},
           UNCHANGED cancelled, UNCHANGED decls, timers \subseteq timers',
           r.gen = run[c.unit].gen, ~r.busy, r.gone = run[c.unit].gone, FlagsFit(r),
           r.waiting => \/ cancelled
                        \/ \E t \in timers' : t.unit = c.unit /\ t.gen = r.gen
    PROVE  Rest'
  <1> DEFINE u == c.unit
  <1>1. u \in monitored /\ c \in CurrentCalls(u, run[u], calls)
    BY DEF Matches, CurrentCalls
  <1>2. CurrentCalls(u, r, calls') = {}
    BY <1>1, UnitFacts DEF CurrentCalls
  <1>3. calls' \in SUBSET Call
    BY DEF IInv, TypeOK
  <1>4. \A d \in calls' : d.unit = u => d.gen <= r.gen /\ (d.gen = r.gen => r.busy)
    BY <1>1, <1>2, UnitFacts DEF CurrentCalls
  <1> QED
    BY <1>1, <1>2, <1>3, <1>4, UnitStep

\* The current answer finds its unit busy, in a state that calls fit.
LEMMA MatchedUnit ==
    ASSUME IInv, NEW c \in calls, Matches(c)
    PROVE  /\ c.unit \in monitored /\ run[c.unit].busy
           /\ run[c.unit].st \in Transient
           /\ c.kind # "deactivate" => run[c.unit].st \in RunningStates
           /\ ~run[c.unit].waiting /\ ~run[c.unit].latched
  <1>1. /\ c.unit \in monitored /\ c.gen = run[c.unit].gen
        /\ c \in CurrentCalls(c.unit, run[c.unit], calls)
    BY DEF Matches, CurrentCalls
  <1> QED
    BY <1>1, UnitFacts DEF FlagsFit

(***************************************************************************)
(* The effects the handlers share.                                         *)
(***************************************************************************)
\* deactivate, asked of a unit that is up or whose call just ended.
LEMMA DeactivateStep ==
    ASSUME IInv, NEW u \in monitored, NEW r \in UnitRun,
           NEW announce \in BOOLEAN, NEW then \in Thens,
           NEW rest \in SUBSET calls, \A c \in calls : c.unit # u => c \in rest,
           Deactivate(u, r, announce, then, rest),
           UNCHANGED cancelled, UNCHANGED decls, timers \subseteq timers',
           r.gen = run[u].gen, r.gone = run[u].gone,
           r.st \in Transient, ~r.waiting, ~r.latched
    PROVE  Rest'
  <1> DEFINE d == [r EXCEPT !.gen = @ + 1, !.busy = TRUE,
                            !.st = IF announce THEN "stopping" ELSE @]
  <1>1. SetRun(u, d) /\ AskProvider(u, d, "deactivate", then, rest)
    BY DEF Deactivate
  <1>2. /\ d.gen = run[u].gen + 1 /\ d.busy /\ d.gone = run[u].gone
        /\ ~d.waiting /\ ~d.latched
    BY DEF UnitRun
  <1>3. d.st \in Transient
    BY DEF UnitRun, Transient
  <1>4. d \in UnitRun
    <2>1. r.gen + 1 \in Nat /\ r.st \in States /\ "stopping" \in States
      BY DEF UnitRun, States
    <2>2. \A g \in Nat, s \in States :
             [r EXCEPT !.gen = g, !.busy = TRUE, !.st = s] \in UnitRun
      BY DEF UnitRun
    <2>3. (IF announce THEN "stopping" ELSE r.st) \in States
      BY <2>1
    <2> QED
      BY <2>1, <2>2, <2>3
  <1> HIDE DEF d
  <1> QED
    BY <1>1, <1>2, <1>3, <1>4, NewGeneration

\* activate launches the unit under a new generation or fails it as it was.
LEMMA ActivateCases ==
    ASSUME TypeOK, NEW u \in Units, NEW r \in UnitRun, NEW rest,
           NEW exempt \in BOOLEAN, Activate(u, r, exempt, rest)
    PROVE  \E n \in Nat : LET s == [r EXCEPT !.starts = n] IN
              Launch(u, s, rest) \/ Refuse(u, s, rest)
  <1>1. CASE exempt
    <2>1. [r EXCEPT !.starts = r.starts] = r /\ r.starts \in Nat
      BY DEF UnitRun
    <2> QED
      BY <1>1, <2>1 DEF Activate
  <1>2. CASE ~exempt
    <2>1. PICK kept \in 0 .. r.starts :
             \/ LET s == [r EXCEPT !.starts = kept + 1]
                IN  Launch(u, s, rest) \/ Refuse(u, s, rest)
             \/ Refuse(u, [r EXCEPT !.starts = kept], rest)
      BY <1>2 DEF Activate
    <2>2. kept \in Nat /\ kept + 1 \in Nat
      BY DEF UnitRun
    <2> QED
      BY <2>1, <2>2
  <1> QED
    BY <1>1, <1>2

\* A launch of a unit that is down, or whose call just ended.
LEMMA LaunchStep ==
    ASSUME IInv, NEW u \in monitored, NEW s \in UnitRun,
           NEW rest \in SUBSET calls, \A c \in calls : c.unit # u => c \in rest,
           Launch(u, s, rest),
           UNCHANGED cancelled, UNCHANGED decls, timers \subseteq timers',
           s.gen = run[u].gen, s.gone = run[u].gone, ~s.waiting, ~s.latched
    PROVE  Rest'
  <1> DEFINE d == [s EXCEPT !.gen = @ + 1, !.busy = TRUE, !.fails = 0,
                            !.dirty = FALSE, !.st = "starting"]
  <1>1. SetRun(u, d) /\ AskProvider(u, d, "activate", "none", rest)
    BY DEF Launch
  <1>2. /\ d.gen = run[u].gen + 1 /\ d.busy /\ d.gone = run[u].gone
        /\ ~d.waiting /\ ~d.latched /\ d.st = "starting"
    BY DEF UnitRun
  <1>3. d.st \in Transient /\ d.st \in RunningStates /\ "none" \in Thens
    BY <1>2 DEF Transient, RunningStates, Thens
  <1>4. d \in UnitRun
    <2>1. s.gen + 1 \in Nat /\ "starting" \in States
      BY DEF UnitRun, States
    <2>2. \A g \in Nat, x \in States :
             [s EXCEPT !.gen = g, !.busy = TRUE, !.fails = 0,
                       !.dirty = FALSE, !.st = x] \in UnitRun
      BY DEF UnitRun
    <2> QED
      BY <2>1, <2>2
  <1> HIDE DEF d
  <1> QED
    BY <1>1, <1>2, <1>3, <1>4, NewGeneration

\* What fail leaves of a record.
LEMMA FailFacts ==
    ASSUME NEW r \in UnitRun
    PROVE  /\ Fail(r) \in UnitRun
           /\ Fail(r).gen = r.gen /\ Fail(r).busy = r.busy
           /\ Fail(r).gone = r.gone /\ Fail(r).waiting = r.waiting
           /\ ~r.busy /\ ~r.waiting => FlagsFit(Fail(r))
  BY DEF Fail, UnitRun, States, FlagsFit, Transient, RunningStates

\* afterExit, run when the cleanup call of the exited incarnation ended.
LEMMA AfterExitStep ==
    ASSUME IInv, NEW c \in calls, Matches(c), NEW r \in UnitRun, NEW code,
           r = [run[c.unit] EXCEPT !.busy = FALSE],
           AfterExit(c.unit, r, code), calls' = calls \ {c},
           UNCHANGED cancelled, UNCHANGED decls
    PROVE  Rest'
  <1> DEFINE u == c.unit
             e == [RefreshEnabled(u, r) EXCEPT !.st = "inactive"]
  <1>1. /\ u \in monitored /\ u \in Units /\ run[u] \in UnitRun
        /\ ~run[u].waiting /\ ~run[u].latched
    BY MatchedUnit, UnitFacts
  <1>2. /\ r.gen = run[u].gen /\ r.busy = FALSE /\ r.gone = run[u].gone
        /\ r.waiting = FALSE /\ r.latched = FALSE
    BY <1>1 DEF UnitRun
  <1>3. /\ e \in UnitRun /\ e.gen = run[u].gen /\ e.busy = FALSE
        /\ e.gone = run[u].gone /\ e.waiting = FALSE /\ e.latched = FALSE
        /\ e.st = "inactive"
    <2>1. registry[u].enabled \in BOOLEAN
      BY <1>1 DEF IInv, TypeOK, Registry
    <2>2. /\ RefreshEnabled(u, r) \in UnitRun
          /\ RefreshEnabled(u, r).gen = run[u].gen
          /\ RefreshEnabled(u, r).busy = FALSE
          /\ RefreshEnabled(u, r).gone = run[u].gone
          /\ RefreshEnabled(u, r).waiting = FALSE
          /\ RefreshEnabled(u, r).latched = FALSE
      BY <1>2, <2>1 DEF RefreshEnabled, UnitRun
    <2> QED
      BY <2>2 DEF UnitRun, States
  <1>4. \/ SetRun(u, e) /\ UNCHANGED timers
        \/ /\ SetRun(u, [e EXCEPT !.waiting = TRUE])
           /\ timers' = timers \cup {RestartTimer(u, r)}
        \/ SetRun(u, [e EXCEPT !.latched = TRUE]) /\ UNCHANGED timers
        \/ SetRun(u, Fail(e)) /\ UNCHANGED timers
    BY DEF AfterExit
  <1> HIDE DEF e
  <1>5. CASE SetRun(u, e) /\ UNCHANGED timers
    <2>1. FlagsFit(e)
      BY <1>3 DEF FlagsFit, Transient, RunningStates
    <2> QED
      BY <1>3, <1>5, <2>1, AnsweredStep
  <1>6. CASE /\ SetRun(u, [e EXCEPT !.waiting = TRUE])
             /\ timers' = timers \cup {RestartTimer(u, r)}
    <2> DEFINE w == [e EXCEPT !.waiting = TRUE]
    <2>1. /\ w \in UnitRun /\ w.gen = run[u].gen /\ ~w.busy /\ w.gone = run[u].gone
          /\ FlagsFit(w)
      BY <1>3 DEF UnitRun, FlagsFit, Transient, RunningStates
    <2>2. RestartTimer(u, r).unit = u /\ RestartTimer(u, r).gen = w.gen
      BY <1>2, <2>1 DEF RestartTimer
    <2> HIDE DEF w
    <2> QED
      BY <1>6, <2>1, <2>2, AnsweredStep DEF w
  <1>7. CASE SetRun(u, [e EXCEPT !.latched = TRUE]) /\ UNCHANGED timers
    <2> DEFINE l == [e EXCEPT !.latched = TRUE]
    <2>1. /\ l \in UnitRun /\ l.gen = run[u].gen /\ ~l.busy /\ l.gone = run[u].gone
          /\ ~l.waiting /\ FlagsFit(l)
      BY <1>3 DEF UnitRun, FlagsFit, Transient, RunningStates
    <2> HIDE DEF l
    <2> QED
      BY <1>7, <2>1, AnsweredStep DEF l
  <1>8. CASE SetRun(u, Fail(e)) /\ UNCHANGED timers
    BY <1>3, <1>8, FailFacts, AnsweredStep
  <1> QED
    BY <1>4, <1>5, <1>6, <1>7, <1>8

(***************************************************************************)
(* Steps.                                                                  *)
(***************************************************************************)
\* A step that touches no record, call, declaration or timer.
LEMMA UnchangedStep ==
    ASSUME IInv, UNCHANGED <<run, calls, cancelled>>, UNCHANGED decls,
           cancelled \/ UNCHANGED timers
    PROVE  Rest'
  <1>1. UNCHANGED <<registry, monitored, life>>
    BY DEF decls
  <1> QED
    BY <1>1 DEF Rest, IInv, Bookkeeping, FlagsFitState, OneCurrentCall, Matches,
                NamesUsedOnce, Declared, BusyIsAnswered, WaitingHasTimer, Running

\* One step of the sweep on one unit.
LEMMA SweepUnitStep ==
    ASSUME IInv, NEW u \in Units,
           \/ StepStop(u) \/ StepConfigure(u) \/ StepClear(u)
           \/ StepBlock(u) \/ StepStart(u)
    PROVE  Rest'
  <1>1. /\ u \in monitored /\ ~run[u].busy /\ Stepped(u)
    BY DEF StepStop, StepConfigure, StepClear, StepBlock, StepStart,
           NextInSweep, Effective
  <1>2. UNCHANGED cancelled /\ UNCHANGED decls /\ UNCHANGED timers
    BY <1>1 DEF Stepped, shutdown
  <1>3. run[u] \in UnitRun /\ FlagsFit(run[u])
    BY <1>1, UnitFacts
  <1>4. CASE StepStop(u)
    <2>1. /\ Deactivate(u, run[u], TRUE, "inactive", calls)
          /\ run[u].st \in Transient /\ "inactive" \in Thens /\ TRUE \in BOOLEAN
      BY <1>4 DEF StepStop, MustStop, Running, Transient, Thens
    <2>2. ~run[u].waiting /\ ~run[u].latched
      BY <1>3, <2>1 DEF FlagsFit
    <2> QED
      BY <1>1, <1>2, <1>3, <2>1, <2>2, DeactivateStep
  <1>5. CASE StepConfigure(u)
    <2> DEFINE r == [run[u] EXCEPT !.dirty = FALSE, !.busy = TRUE]
               new == [kind |-> "configure", unit |-> u, via |-> decl[u].provider,
                       life |-> life[u], gen |-> r.gen, then |-> "none"]
    <2>1. SetRun(u, r) /\ calls' = calls \cup {new}
      BY <1>5 DEF StepConfigure, AskProvider
    <2>2. run[u].st \in RunningStates /\ run[u].st \in Transient
      BY <1>5 DEF StepConfigure, MustConfigure, Running, Transient
    <2>3. /\ r \in UnitRun /\ r.st = run[u].st /\ r.gen = run[u].gen /\ r.busy /\ r.gone = run[u].gone
          /\ r.waiting = run[u].waiting
          /\ FlagsFit(r)
      BY <1>3, <2>2 DEF UnitRun, FlagsFit
    <2>4. new \in Call /\ new.unit = u /\ new.gen = r.gen
      <3>1. /\ u \in Units /\ life[u] \in Nat /\ r.gen \in Nat
            /\ decl[u].provider \in Providers
        BY <2>3, DeclTypes DEF IInv, TypeOK, UnitRun
      <3> QED
        BY <3>1 DEF Call, Thens
    <2> HIDE DEF r, new
    <2>5. CurrentCalls(u, run[u], calls) = {}
      BY <1>1, UnitFacts DEF CurrentCalls
    <2>6. CurrentCalls(u, r, calls') = {new}
      BY <2>1, <2>3, <2>4, <2>5 DEF CurrentCalls
    <2>7. \A c \in calls' : c.unit = u => c.gen <= r.gen /\ (c.gen = r.gen => r.busy)
      <3>1. r.gen \in Nat
        BY <2>3 DEF UnitRun
      <3> QED
        BY <1>1, <2>1, <2>3, <2>4, <3>1, UnitFacts
    <2>8. calls' \in SUBSET Call
      BY <2>1, <2>4 DEF IInv, TypeOK
    <2>9. ~r.waiting
      BY <1>3, <2>2, <2>3 DEF FlagsFit
    <2>10. \A c \in calls \cup calls' : c.unit # u => (c \in calls <=> c \in calls')
      BY <2>1, <2>4
    <2>11. /\ \A c, d \in CurrentCalls(u, r, calls') : c = d
           /\ CurrentCalls(u, r, calls') # {}
           /\ \A c \in CurrentCalls(u, r, calls') :
                 c.kind # "deactivate" => r.st \in RunningStates
      BY <2>2, <2>3, <2>6
    <2>12. r \in UnitRun /\ SetRun(u, r) /\ timers \subseteq timers'
      BY <1>2, <2>1, <2>3
    <2> QED
      BY <1>1, <1>2, <2>3, <2>7, <2>8, <2>9, <2>10, <2>11, <2>12, UnitStep
  <1>6. ASSUME NEW s \in {"inactive", "failed"},
               SetRun(u, [run[u] EXCEPT !.st = s]), UNCHANGED calls
        PROVE  Rest'
    <2> DEFINE r == [run[u] EXCEPT !.st = s]
    <2>1. /\ r \in UnitRun /\ r.gen = run[u].gen /\ r.busy = run[u].busy
          /\ r.gone = run[u].gone /\ r.waiting = run[u].waiting /\ FlagsFit(r)
      BY <1>1, <1>3 DEF UnitRun, States, FlagsFit, Transient, RunningStates
    <2> HIDE DEF r
    <2> QED
      BY <1>1, <1>2, <1>6, <2>1, QuietStep DEF r
  <1>7. CASE StepClear(u)
    BY <1>6, <1>7 DEF StepClear
  <1>8. CASE StepBlock(u)
    BY <1>6, <1>8 DEF StepBlock, BlockedState
  <1>9. CASE StepStart(u)
    <2>1. Activate(u, run[u], FALSE, calls) /\ ~run[u].waiting /\ ~run[u].latched
      BY <1>9 DEF StepStart, MustStart, Startable
    <2>2. PICK n \in Nat : LET s == [run[u] EXCEPT !.starts = n] IN
             Launch(u, s, calls) \/ Refuse(u, s, calls)
      BY <1>3, <2>1, ActivateCases, FALSE \in BOOLEAN DEF IInv
    <2> DEFINE s == [run[u] EXCEPT !.starts = n]
    <2>3. /\ s \in UnitRun /\ s.gen = run[u].gen /\ s.gone = run[u].gone
          /\ ~s.waiting /\ ~s.latched /\ ~s.busy /\ s.busy = run[u].busy
          /\ s.waiting = run[u].waiting
      BY <1>1, <1>3, <2>1 DEF UnitRun
    <2>4. Launch(u, s, calls) \/ Refuse(u, s, calls)
      BY <2>2
    <2> HIDE DEF s
    <2>5. CASE Launch(u, s, calls)
      BY <1>1, <1>2, <2>3, <2>5, LaunchStep
    <2>6. CASE Refuse(u, s, calls)
      BY <1>1, <1>2, <2>3, <2>6, FailFacts, QuietStep DEF Refuse
    <2> QED
      BY <2>4, <2>5, <2>6
  <1> QED
    BY <1>4, <1>5, <1>7, <1>8, <1>9

\* The end of a pass, which may forget units that are gone and idle.
LEMMA EndPassStep == ASSUME IInv, EndPass PROVE Rest'
  <1>1. /\ UNCHANGED <<registry, life, calls, timers, cancelled>>
        /\ monitored' \subseteq monitored
        /\ \A u \in monitored' : run'[u] = run[u]
        /\ \A u \in monitored \ monitored' : run[u].gone /\ ~run[u].busy
    <2>1. UNCHANGED <<registry, life, calls, timers, cancelled>>
      BY DEF EndPass, msgs, shutdown
    <2>2. CASE MorePasses
      BY <2>1, <2>2 DEF EndPass
    <2>3. CASE ~MorePasses
      <3>1. /\ monitored' = {u \in monitored : ~Prunable(u)}
            /\ run' = [u \in Units |-> IF u \in monitored' THEN run[u] ELSE NoRun]
        BY <2>3 DEF EndPass
      <3>2. monitored \subseteq Units
        BY DEF IInv, TypeOK
      <3> QED
        BY <2>1, <3>1, <3>2 DEF Prunable
    <2> QED
      BY <2>2, <2>3
  <1>2. \A m : Matches(m)' => Matches(m) /\ m.unit \in monitored'
    BY <1>1 DEF Matches
  <1>3. FlagsFitState'
    BY <1>1 DEF IInv, Bookkeeping, FlagsFitState, FlagsFit
  <1>4. OneCurrentCall'
    BY <1>1, <1>2 DEF IInv, Bookkeeping, OneCurrentCall, Matches, Running
  <1>5. NamesUsedOnce'
    BY <1>1 DEF IInv, Bookkeeping, NamesUsedOnce, Declared
  <1>6. BusyIsAnswered'
    BY <1>1 DEF IInv, BusyIsAnswered, Matches
  <1>7. WaitingHasTimer'
    BY <1>1 DEF IInv, WaitingHasTimer, Matches, Running
  <1> QED
    BY <1>3, <1>4, <1>5, <1>6, <1>7 DEF Rest, Bookkeeping

(***************************************************************************)
(* Answers.                                                                *)
(***************************************************************************)
\* The current answer of a call that was not a stop.
LEMMA UpAnswerStep ==
    ASSUME IInv, NEW c \in calls, Matches(c), c.kind # "deactivate",
           \/ OnActivated(c) \/ OnActivateError(c)
           \/ \E live \in BOOLEAN : OnConfigured(c, live)
    PROVE  Rest'
  <1> DEFINE u == c.unit
             r == [run[u] EXCEPT !.busy = FALSE]
  <1>1. /\ u \in monitored /\ run[u] \in UnitRun /\ run[u].st \in RunningStates
        /\ run[u].st \in Transient /\ ~run[u].waiting /\ ~run[u].latched
    BY MatchedUnit, UnitFacts
  <1>2. UNCHANGED cancelled /\ UNCHANGED decls /\ timers \subseteq timers'
    BY DEF OnActivated, OnActivateError, OnConfigured, shutdown
  <1>3. /\ r \in UnitRun /\ r.gen = run[u].gen /\ ~r.busy /\ r.gone = run[u].gone
        /\ ~r.waiting /\ ~r.latched /\ r.st = run[u].st
    BY <1>1 DEF UnitRun
  <1>4. FlagsFit(r)
    BY <1>1, <1>3 DEF FlagsFit, RunningStates
  <1>5. \/ SetRun(u, r) /\ calls' = calls \ {c}
        \/ SetRun(u, Fail(r)) /\ calls' = calls \ {c}
        \/ Deactivate(u, r, TRUE, "reconfigured", calls \ {c})
    BY DEF OnActivated, OnActivateError, OnConfigured
  <1> HIDE DEF r
  <1>6. CASE SetRun(u, r) /\ calls' = calls \ {c}
    BY <1>2, <1>3, <1>4, <1>6, AnsweredStep
  <1>7. CASE SetRun(u, Fail(r)) /\ calls' = calls \ {c}
    BY <1>2, <1>3, <1>7, FailFacts, AnsweredStep
  <1>8. CASE Deactivate(u, r, TRUE, "reconfigured", calls \ {c})
    <2>1. TRUE \in BOOLEAN /\ "reconfigured" \in Thens /\ r.st \in Transient
          /\ calls \ {c} \in SUBSET calls
          /\ \A d \in calls : d.unit # u => d \in calls \ {c}
      BY <1>1, <1>3 DEF Thens
    <2> QED
      BY <1>1, <1>2, <1>3, <1>8, <2>1, DeactivateStep
  <1> QED
    BY <1>5, <1>6, <1>7, <1>8

\* The current answer of a stop, and what was to follow the stop.
LEMMA DownAnswerStep ==
    ASSUME IInv, NEW c \in calls, OnDeactivated(c)
    PROVE  Rest'
  <1> DEFINE u == c.unit
             r == [run[u] EXCEPT !.busy = FALSE]
             down == [r EXCEPT !.st = "inactive"]
             rest == calls \ {c}
  <1>1. Matches(c)
    BY DEF OnDeactivated
  <1>2. /\ u \in monitored /\ u \in Units /\ run[u] \in UnitRun
        /\ ~run[u].waiting /\ ~run[u].latched
    BY <1>1, MatchedUnit, UnitFacts
  <1>3. UNCHANGED cancelled /\ UNCHANGED decls
    BY DEF OnDeactivated, shutdown
  <1>4. /\ r \in UnitRun /\ down \in UnitRun
        /\ down.gen = run[u].gen /\ ~down.busy
        /\ down.gone = run[u].gone /\ ~down.waiting /\ ~down.latched
        /\ down.st = "inactive"
    BY <1>2 DEF UnitRun, States
  <1>5. FlagsFit(down)
    BY <1>4 DEF FlagsFit, Transient, RunningStates
  <1>6. \/ AfterExit(u, r, c.then) /\ calls' = rest
        \/ SetRun(u, down) /\ calls' = rest /\ UNCHANGED timers
        \/ Activate(u, down, TRUE, rest) /\ UNCHANGED timers
    BY DEF OnDeactivated
  <1>7. CASE AfterExit(u, r, c.then) /\ calls' = rest
    BY <1>1, <1>3, <1>4, <1>7, AfterExitStep
  <1> HIDE DEF r, down
  <1>8. CASE SetRun(u, down) /\ calls' = rest /\ UNCHANGED timers
    BY <1>1, <1>3, <1>4, <1>5, <1>8, AnsweredStep
  <1>9. CASE Activate(u, down, TRUE, rest) /\ UNCHANGED timers
    <2>1. Launch(u, down, rest) \/ Refuse(u, down, rest)
      BY <1>9 DEF Activate
    <2>2. rest \in SUBSET calls /\ \A d \in calls : d.unit # u => d \in rest
      OBVIOUS
    <2>3. CASE Launch(u, down, rest)
      BY <1>2, <1>3, <1>4, <1>9, <2>2, <2>3, LaunchStep
    <2>4. CASE Refuse(u, down, rest)
      BY <1>1, <1>3, <1>4, <1>9, <2>4, FailFacts, AnsweredStep DEF Refuse
    <2> QED
      BY <2>1, <2>3, <2>4
  <1> QED
    BY <1>6, <1>7, <1>8, <1>9

\* A step that changes no record and keeps the calls that match, unless the
\* second signal has come, though an activate call may now have started.
LEMMA SameCallsStep ==
    ASSUME IInv, UNCHANGED <<run, cancelled, timers>>, UNCHANGED decls,
           NEW gone \in SUBSET calls,
           \A c \in gone : cancelled \/ ~Matches(c),
           calls' = calls \ gone
    PROVE  Rest'
  <1>1. UNCHANGED <<registry, monitored, life>>
    BY DEF decls
  <1>2. \A m : Matches(m)' <=> Matches(m)
    BY <1>1 DEF Matches
  <1>3. OneCurrentCall'
    BY <1>1, <1>2 DEF IInv, Bookkeeping, OneCurrentCall, Running
  <1>4. BusyIsAnswered'
    BY <1>1, <1>2 DEF IInv, BusyIsAnswered
  <1> QED
    BY <1>1, <1>2, <1>3, <1>4
    DEF Rest, IInv, Bookkeeping, FlagsFitState, NamesUsedOnce, Declared,
        WaitingHasTimer, Running

\* Activate started the child: the same call, now answered.
LEMMA ProviderStartsStep ==
    ASSUME IInv, NEW c \in calls, ProviderStarts(c)
    PROVE  Rest'
  <1> DEFINE d == [c EXCEPT !.kind = "activated"]
  <1>1. /\ UNCHANGED <<registry, monitored, life, run, cancelled, timers>>
        /\ c.kind = "activate" /\ calls' = (calls \ {c}) \cup {d}
    BY DEF ProviderStarts, decls, shutdown
  <1>2. c \in Call
    BY DEF IInv, TypeOK
  <1>3. d.unit = c.unit /\ d.gen = c.gen /\ d.life = c.life /\ d.kind = "activated"
    BY <1>2 DEF Call
  <1> HIDE DEF d
  <1>4. /\ \A m : Matches(m)' <=> Matches(m)
        /\ Matches(d) <=> Matches(c)
    BY <1>1, <1>3 DEF Matches
  <1>5. OneCurrentCall'
    <2>1. ASSUME NEW x \in calls', x.unit \in monitored'
          PROVE  /\ x.gen <= run'[x.unit].gen
                 /\ Matches(x)' => /\ run'[x.unit].busy
                                   /\ x.kind # "deactivate" => Running(x.unit)'
      BY <1>1, <1>3, <1>4, <2>1 DEF IInv, Bookkeeping, OneCurrentCall, Running
    <2>2. ASSUME NEW x \in calls', NEW y \in calls', x.unit = y.unit,
                 Matches(x)', Matches(y)'
          PROVE  x = y
      BY <1>1, <1>3, <1>4, <2>2 DEF IInv, Bookkeeping, OneCurrentCall
    <2> QED
      BY <2>1, <2>2 DEF OneCurrentCall
  <1>6. BusyIsAnswered'
    BY <1>1, <1>3, <1>4 DEF IInv, BusyIsAnswered
  <1>7. NamesUsedOnce'
    BY <1>1, <1>3 DEF IInv, Bookkeeping, NamesUsedOnce, Declared
  <1> QED
    BY <1>1, <1>4, <1>5, <1>6, <1>7
    DEF Rest, IInv, Bookkeeping, FlagsFitState, WaitingHasTimer, Running

\* Every answer, current, stale or lost.
LEMMA CallStep ==
    ASSUME IInv, NEW c \in calls,
           \/ Answer(c) \/ OnActivateError(c)
           \/ ProviderStarts(c) \/ LoseAnswer(c)
    PROVE  Rest'
  <1>1. CASE OnStaleAnswer(c) \/ LoseAnswer(c)
    <2>1. /\ UNCHANGED <<run, cancelled, timers>> /\ UNCHANGED decls
          /\ calls' = calls \ {c} /\ (cancelled \/ ~Matches(c))
      BY <1>1 DEF OnStaleAnswer, LoseAnswer, LosePost, shutdown
    <2>2. {c} \in SUBSET calls
      OBVIOUS
    <2> QED
      BY <2>1, <2>2, SameCallsStep
  <1>2. CASE \/ OnActivated(c) \/ OnActivateError(c)
             \/ \E live \in BOOLEAN : OnConfigured(c, live)
    <2>1. Matches(c) /\ c.kind # "deactivate"
      BY <1>2 DEF OnActivated, OnActivateError, OnConfigured
    <2> QED
      BY <1>2, <2>1, UpAnswerStep
  <1> QED
    BY <1>1, <1>2, DownAnswerStep, ProviderStartsStep DEF Answer

(***************************************************************************)
(* Probes, provider events and timers.                                     *)
(***************************************************************************)
\* A verdict on the unit's health.
LEMMA ProbeStep ==
    ASSUME IInv, NEW p \in probes, ProbeVerdict(p) \/ ProbeFault(p)
    PROVE  Rest'
  <1> DEFINE u == p.unit
  <1>1. UNCHANGED <<cancelled, timers>> /\ UNCHANGED decls
    BY DEF ProbeVerdict, ProbeFault, OnProbeGone, OnProbeOK, OnProbePending,
           OnProbeGrace, OnProbeFailed, shutdown
  <1>2. CASE UNCHANGED <<run, calls>>
    BY <1>1, <1>2, UnchangedStep
  <1>3. CASE OnProbeOK(p)
    <2>1. CASE run[u].busy
      BY <1>2, <1>3, <2>1 DEF OnProbeOK
    <2>2. CASE ~run[u].busy
      <3> DEFINE r == [run[u] EXCEPT !.fails = 0, !.st = "active"]
      <3>1. /\ SetRun(u, r) /\ UNCHANGED calls
            /\ u \in monitored /\ run[u].st \in Transient
        BY <1>3, <2>2
        DEF OnProbeOK, ProbeApplies, Matches, Running, Transient
      <3>2. /\ run[u] \in UnitRun /\ FlagsFit(run[u])
        BY <3>1, UnitFacts
      <3>3. /\ r \in UnitRun /\ r.gen = run[u].gen /\ r.busy = run[u].busy
            /\ r.gone = run[u].gone /\ r.waiting = run[u].waiting /\ FlagsFit(r)
        BY <2>2, <3>1, <3>2
        DEF UnitRun, States, FlagsFit, Transient, RunningStates
      <3> HIDE DEF r
      <3> QED
        BY <1>1, <2>2, <3>1, <3>3, QuietStep
    <2> QED
      BY <2>1, <2>2
  <1>4. CASE OnProbeFailed(p)
    <2> DEFINE r == [run[u] EXCEPT !.fails = @ + 1,
                                   !.st = IF @ = "active" THEN "degraded" ELSE @]
    <2>1. /\ \/ Deactivate(u, r, TRUE, "exit1", calls)
             \/ SetRun(u, r) /\ UNCHANGED calls
          /\ u \in monitored /\ run[u].st \in RunningStates /\ ~run[u].busy
      BY <1>4 DEF OnProbeFailed, CanFail, ProbeApplies, Matches, Running
    <2>2. /\ run[u] \in UnitRun /\ FlagsFit(run[u])
      BY <2>1, UnitFacts
    <2>3. /\ r.gen = run[u].gen /\ r.busy = run[u].busy
          /\ r.gone = run[u].gone /\ r.waiting = run[u].waiting
          /\ r.latched = run[u].latched /\ r.st \in RunningStates
      BY <2>1, <2>2 DEF UnitRun, RunningStates
    <2>4. r \in UnitRun
      <3>1. run[u].fails + 1 \in Nat
        BY <2>2 DEF UnitRun
      <3>2. (IF run[u].st = "active" THEN "degraded" ELSE run[u].st) \in States
        BY <2>2 DEF UnitRun, States
      <3>3. \A n \in Nat, s \in States :
               [run[u] EXCEPT !.fails = n, !.st = s] \in UnitRun
        BY <2>2 DEF UnitRun
      <3> QED
        BY <3>1, <3>2, <3>3
    <2> HIDE DEF r
    <2>5. FlagsFit(r) /\ r.st \in Transient /\ ~r.waiting /\ ~r.latched
      BY <2>1, <2>2, <2>3 DEF FlagsFit, Transient, RunningStates
    <2>6. CASE Deactivate(u, r, TRUE, "exit1", calls)
      <3>1. "exit1" \in Thens /\ TRUE \in BOOLEAN /\ calls \in SUBSET calls
        BY DEF Thens
      <3> QED
        BY <1>1, <2>1, <2>3, <2>4, <2>5, <2>6, <3>1, DeactivateStep
    <2>7. CASE SetRun(u, r) /\ UNCHANGED calls
      BY <1>1, <2>1, <2>3, <2>4, <2>5, <2>7, QuietStep
    <2> QED
      BY <2>1, <2>6, <2>7
  <1> QED
    BY <1>2, <1>3, <1>4
    DEF ProbeVerdict, ProbeFault, OnProbeGone, OnProbePending, OnProbeGrace

\* The child exited, or the owner reported.
LEMMA NewsStep ==
    ASSUME IInv, NEW e \in pevents, ProviderNews(e)
    PROVE  Rest'
  <1> DEFINE u == e.unit
  <1>1. UNCHANGED <<cancelled, timers>> /\ UNCHANGED decls
    BY DEF ProviderNews, OnProviderExit, OnProviderUp, shutdown
  <1>2. CASE UNCHANGED <<run, calls>>
    BY <1>1, <1>2, UnchangedStep
  <1>3. CASE /\ Matches(e) /\ Running(u) /\ e.to \in {"exit0", "exit1"}
             /\ \E code \in ExitCodes(e) :
                   Deactivate(u, run[u], FALSE, code, calls)
    <2>1. /\ u \in monitored /\ run[u].st \in Transient
          /\ ExitCodes(e) \subseteq Thens /\ FALSE \in BOOLEAN
          /\ calls \in SUBSET calls
      BY <1>3 DEF Matches, Running, Transient, ExitCodes, Thens
    <2>2. run[u] \in UnitRun /\ FlagsFit(run[u])
      BY <2>1, UnitFacts
    <2>3. ~run[u].waiting /\ ~run[u].latched
      BY <2>1, <2>2 DEF FlagsFit
    <2> QED
      BY <1>1, <1>3, <2>1, <2>2, <2>3, DeactivateStep
  <1> QED
    BY <1>2, <1>3 DEF ProviderNews, OnProviderExit, OnProviderUp

\* A timer fires: the unit it was armed for, if still in backoff, is startable.
LEMMA TimerStep ==
    ASSUME IInv, NEW t \in timers, OnTimer(t)
    PROVE  Rest'
  <1>1. /\ timers' = timers \ {t}
        /\ UNCHANGED <<registry, monitored, life, calls, cancelled>>
    BY DEF OnTimer, decls, shutdown
  <1>2. \/ run' = run /\ ~Matches(t)
        \/ /\ Matches(t)
           /\ run' = [run EXCEPT ![t.unit] = [@ EXCEPT !.waiting = FALSE]]
    BY DEF OnTimer, SetRun
  <1>3. \A v \in Units :
           /\ \A f \in {"st", "gen", "busy", "latched", "gone"} :
                 run'[v][f] = run[v][f]
           /\ run'[v].waiting => run[v].waiting /\ ~(Matches(t) /\ t.unit = v)
    <2>1. run \in [Units -> UnitRun]
      BY DEF IInv, TypeOK
    <2> QED
      BY <1>2, <2>1 DEF UnitRun
  <1>4. /\ \A v \in Units : /\ run'[v].st = run[v].st /\ run'[v].gen = run[v].gen
                            /\ run'[v].busy = run[v].busy
                            /\ run'[v].latched = run[v].latched
                            /\ run'[v].gone = run[v].gone
        /\ monitored \subseteq Units
    BY <1>3 DEF IInv, TypeOK
  <1>5. \A m : Matches(m)' <=> Matches(m)
    BY <1>1, <1>4 DEF Matches
  <1>6. FlagsFitState'
    BY <1>1, <1>3, <1>4 DEF IInv, Bookkeeping, FlagsFitState, FlagsFit
  <1>7. OneCurrentCall'
    BY <1>1, <1>4, <1>5 DEF IInv, Bookkeeping, OneCurrentCall, Running
  <1>8. NamesUsedOnce'
    BY <1>1, <1>4 DEF IInv, Bookkeeping, NamesUsedOnce, Declared
  <1>9. BusyIsAnswered'
    BY <1>1, <1>4, <1>5 DEF IInv, BusyIsAnswered
  <1>10. WaitingHasTimer'
    <2>1. ASSUME NEW v \in monitored, run'[v].waiting
          PROVE  /\ ~Running(v)' /\ ~run'[v].busy
                 /\ cancelled' \/ \E x \in timers' : x.unit = v /\ Matches(x)'
      <3>1. run[v].waiting /\ ~(Matches(t) /\ t.unit = v)
        BY <1>3, <1>4, <2>1
      <3>2. cancelled \/ \E x \in timers \ {t} : x.unit = v /\ Matches(x)
        BY <3>1 DEF IInv, WaitingHasTimer
      <3>3. ~Running(v)' /\ ~run'[v].busy
        BY <1>4, <3>1 DEF IInv, WaitingHasTimer, Running
      <3> QED
        BY <1>1, <1>5, <3>2, <3>3
    <2> QED
      BY <1>1, <2>1 DEF WaitingHasTimer
  <1> QED
    BY <1>6, <1>7, <1>8, <1>9, <1>10 DEF Rest, Bookkeeping

(***************************************************************************)
(* Declarations, requests and signals.                                     *)
(***************************************************************************)
\* What reload leaves of the record of a unit that was monitored already.
LEMMA ReloadKeeps ==
    ASSUME IInv, NEW u \in monitored
    PROVE  LET r == ReloadUnit(u) IN
           /\ r.st = run[u].st /\ r.gen = run[u].gen /\ r.busy = run[u].busy
           /\ r.waiting = run[u].waiting /\ (r.latched => run[u].latched)
           /\ r.gone => ~registry[u].present
  <1>1. run[u] \in UnitRun /\ (run[u].gone => ~registry[u].present)
    BY UnitFacts DEF IInv, Bookkeeping, NamesUsedOnce
  <1> QED
    BY <1>1 DEF ReloadUnit, UnitRun

\* Declared units join, removed ones are marked gone, changed ones unlatched.
LEMMA ReloadStep ==
    ASSUME IInv, Poll \/ ControlReload
    PROVE  Rest'
  <1>1. /\ monitored' = monitored \cup Declared
        /\ UNCHANGED <<registry, calls, timers, cancelled>>
        /\ run' = [u \in Units |-> ReloadUnit(u)]
        /\ life' = [u \in Units |-> IF u \in Declared \ monitored
                                    THEN life[u] + 1 ELSE life[u]]
    BY DEF Poll, ControlReload, Reload, msgs, shutdown
  <1>2. monitored \subseteq Units /\ Declared \subseteq Units /\ Declared' = Declared
        /\ calls \in SUBSET Call
        /\ \A u \in Units : life[u] \in Nat /\ registry[u] \in Registry
    BY <1>1 DEF Declared, IInv, TypeOK
  <1>3. ASSUME NEW u \in Declared \ monitored
        PROVE  /\ run'[u] = NewRun(u) /\ life'[u] = 1
               /\ \A c \in calls : c.unit # u
    <2>1. life[u] = 0 /\ \A c \in calls : life[c.unit] > 0
      BY DEF IInv, Bookkeeping, NamesUsedOnce
    <2>2. life'[u] = 1 /\ \A c \in calls : c.unit # u
      BY <1>1, <1>2, <2>1
    <2>3. run'[u] = NewRun(u)
      BY <1>1, <1>2 DEF ReloadUnit
    <2> QED
      BY <2>2, <2>3
  <1>4. \A u \in Declared \ monitored :
           /\ FlagsFit(run'[u]) /\ ~run'[u].busy /\ ~run'[u].waiting
           /\ ~run'[u].gone
    <2>1. \A u : /\ FlagsFit(NewRun(u)) /\ ~NewRun(u).busy
                 /\ ~NewRun(u).waiting /\ ~NewRun(u).gone
      BY DEF NewRun, FlagsFit, Transient, RunningStates
    <2> QED
      BY <1>3, <2>1
  <1>5. ASSUME NEW u \in monitored
        PROVE  /\ run'[u].st = run[u].st /\ run'[u].gen = run[u].gen
               /\ run'[u].busy = run[u].busy
               /\ run'[u].waiting = run[u].waiting
               /\ run'[u].latched => run[u].latched
               /\ run'[u].gone => ~registry[u].present
               /\ life'[u] = life[u]
    BY <1>1, <1>2, ReloadKeeps
  <1>6. FlagsFitState'
    BY <1>1, <1>4, <1>5 DEF IInv, Bookkeeping, FlagsFitState, FlagsFit
  <1>7. \A c \in calls : /\ c.unit \in monitored' => c.unit \in monitored
                         /\ Matches(c)' <=> Matches(c)
    BY <1>1, <1>3, <1>5 DEF Matches
  <1>8. OneCurrentCall'
    BY <1>1, <1>5, <1>7 DEF IInv, Bookkeeping, OneCurrentCall, Running, Matches
  <1>9. NamesUsedOnce'
    <2>1. \A u \in monitored' : /\ life'[u] > 0
                                /\ run'[u].gone => ~registry'[u].present
      BY <1>1, <1>3, <1>4, <1>5 DEF IInv, Bookkeeping, NamesUsedOnce
    <2>2. (Declared \ monitored)' = {}
      BY <1>1, <1>2
    <2>3. \A c \in calls' : life'[c.unit] > 0
      <3>1. \A c \in calls : c.unit \in Units /\ life[c.unit] > 0
        BY <1>2 DEF Call, IInv, Bookkeeping, NamesUsedOnce
      <3>2. \A u \in Units : life[u] \in Nat /\ life'[u] \in {life[u], life[u] + 1}
        BY <1>1, <1>2
      <3>3. \A u \in Units : life[u] > 0 => life'[u] > 0
        BY <3>2
      <3> QED
        BY <1>1, <3>1, <3>3
    <2> QED
      BY <2>1, <2>2, <2>3 DEF NamesUsedOnce
  <1>10. BusyIsAnswered'
    BY <1>1, <1>4, <1>5, <1>7 DEF IInv, BusyIsAnswered
  <1>11. WaitingHasTimer'
    <2>1. ASSUME NEW v \in monitored', run'[v].waiting
          PROVE  /\ ~Running(v)' /\ ~run'[v].busy
                 /\ cancelled' \/ \E t \in timers' : t.unit = v /\ Matches(t)'
      <3>1. v \in monitored /\ run[v].waiting
        BY <1>1, <1>4, <1>5, <2>1
      <3>2. cancelled \/ \E t \in timers : t.unit = v /\ Matches(t)
        BY <3>1 DEF IInv, WaitingHasTimer
      <3>3. cancelled' \/ \E t \in timers' : t.unit = v /\ Matches(t)'
        BY <1>1, <1>5, <3>1, <3>2 DEF Matches
      <3>4. ~Running(v)' /\ ~run'[v].busy
        BY <1>5, <3>1 DEF IInv, WaitingHasTimer, Running
      <3> QED
        BY <3>3, <3>4
    <2> QED
      BY <2>1 DEF WaitingHasTimer
  <1> QED
    BY <1>6, <1>8, <1>9, <1>10, <1>11 DEF Rest, Bookkeeping

\* An operator's request for one unit.
LEMMA RequestStep ==
    ASSUME IInv, NEW u \in Units,
           ControlStart(u) \/ ControlStop(u) \/ ControlRestart(u)
    PROVE  Rest'
  <1>1. /\ u \in monitored /\ UNCHANGED <<cancelled, timers>> /\ UNCHANGED decls
    BY DEF ControlStart, ControlStop, ControlRestart, Control, shutdown
  <1>2. run[u] \in UnitRun /\ FlagsFit(run[u])
    BY <1>1, UnitFacts
  <1>3. ASSUME NEW r \in UnitRun, SetRun(u, r), UNCHANGED calls,
               r.st = run[u].st, r.gen = run[u].gen, r.busy = run[u].busy,
               r.gone = run[u].gone, ~r.waiting, r.latched => run[u].latched
        PROVE  Rest'
    <2>1. FlagsFit(r)
      BY <1>2, <1>3 DEF FlagsFit
    <2> QED
      BY <1>1, <1>3, <2>1, QuietStep
  <1>4. CASE ControlStart(u)
    <2> DEFINE r == [run[u] EXCEPT !.held = FALSE, !.latched = FALSE,
                                   !.waiting = FALSE, !.starts = 0,
                                   !.adhoc = ~run[u].enabled]
    <2>1. SetRun(u, r) /\ UNCHANGED calls
      BY <1>4 DEF ControlStart
    <2>2. /\ r \in UnitRun /\ r.st = run[u].st /\ r.gen = run[u].gen
          /\ r.busy = run[u].busy /\ r.gone = run[u].gone /\ ~r.waiting
          /\ ~r.latched
      BY <1>2 DEF UnitRun
    <2> HIDE DEF r
    <2> QED
      BY <1>3, <2>1, <2>2
  <1>5. CASE ControlStop(u)
    <2> DEFINE r == [run[u] EXCEPT !.held = TRUE, !.adhoc = FALSE,
                                   !.waiting = FALSE]
    <2>1. SetRun(u, r) /\ UNCHANGED calls
      BY <1>5 DEF ControlStop
    <2>2. /\ r \in UnitRun /\ r.st = run[u].st /\ r.gen = run[u].gen
          /\ r.busy = run[u].busy /\ r.gone = run[u].gone /\ ~r.waiting
          /\ r.latched = run[u].latched
      BY <1>2 DEF UnitRun
    <2> HIDE DEF r
    <2> QED
      BY <1>3, <2>1, <2>2
  <1>6. CASE ControlRestart(u)
    <2> DEFINE r == [run[u] EXCEPT !.held = FALSE, !.latched = FALSE,
                                   !.waiting = FALSE, !.starts = 0]
    <2>1. \/ SetRun(u, r) /\ UNCHANGED calls
          \/ Running(u) /\ Deactivate(u, r, TRUE, "restart", calls)
      BY <1>6 DEF ControlRestart
    <2>2. /\ r \in UnitRun /\ r.st = run[u].st /\ r.gen = run[u].gen
          /\ r.busy = run[u].busy /\ r.gone = run[u].gone /\ ~r.waiting
          /\ ~r.latched
      BY <1>2 DEF UnitRun
    <2> HIDE DEF r
    <2>3. CASE SetRun(u, r) /\ UNCHANGED calls
      BY <1>3, <2>2, <2>3
    <2>4. CASE Running(u) /\ Deactivate(u, r, TRUE, "restart", calls)
      <3>1. /\ r.st \in Transient /\ "restart" \in Thens /\ TRUE \in BOOLEAN
            /\ calls \in SUBSET calls
        BY <2>2, <2>4 DEF Running, Transient, Thens
      <3> QED
        BY <1>1, <2>2, <2>4, <3>1, DeactivateStep
    <2> QED
      BY <2>1, <2>3, <2>4
  <1> QED
    BY <1>4, <1>5, <1>6

\* A signal takes every unit out of backoff.
LEMMA SignalStep == ASSUME IInv, Signal PROVE Rest'
  <1>1. /\ UNCHANGED <<registry, monitored, life, calls, timers>>
        /\ cancelled => cancelled'
        /\ run' = [u \in Units |-> [run[u] EXCEPT !.waiting = FALSE]]
    BY DEF Signal, NoLongerWaiting, decls, msgs, IInv, TypeOK
  <1>2. \A u \in Units : /\ run'[u].st = run[u].st /\ run'[u].gen = run[u].gen
                         /\ run'[u].busy = run[u].busy
                         /\ run'[u].latched = run[u].latched
                         /\ run'[u].gone = run[u].gone /\ ~run'[u].waiting
    BY <1>1 DEF IInv, TypeOK, UnitRun
  <1>3. monitored \subseteq Units
    BY DEF IInv, TypeOK
  <1>4. \A m : Matches(m)' <=> Matches(m)
    BY <1>1, <1>2, <1>3 DEF Matches
  <1>5. FlagsFitState'
    BY <1>1, <1>2, <1>3 DEF IInv, Bookkeeping, FlagsFitState, FlagsFit
  <1>6. OneCurrentCall'
    BY <1>1, <1>2, <1>3, <1>4 DEF IInv, Bookkeeping, OneCurrentCall, Running
  <1>7. NamesUsedOnce'
    BY <1>1, <1>2, <1>3 DEF IInv, Bookkeeping, NamesUsedOnce, Declared
  <1>8. BusyIsAnswered'
    BY <1>1, <1>2, <1>3, <1>4 DEF IInv, BusyIsAnswered
  <1>9. WaitingHasTimer'
    BY <1>1, <1>2, <1>3 DEF WaitingHasTimer
  <1> QED
    BY <1>5, <1>6, <1>7, <1>8, <1>9 DEF Rest, Bookkeeping

\* An edit of the catalog, which declares no name a second time.
LEMMA EditStep ==
    ASSUME IInv, ReAdd = FALSE, Edit
    PROVE  Rest'
  <1>1. PICK u \in Units :
           \/ SetEnabled(u) \/ Remove(u)
           \/ \E d \in Declarations[u] : ChangeDeclaration(u, d) \/ Declare(u, d)
    BY DEF Edit
  <1>2. UNCHANGED <<monitored, life, run, calls, timers, cancelled>>
    BY <1>1 DEF SetEnabled, ChangeDeclaration, Remove, Declare, EditRegistry,
                msgs, shutdown
  <1>3. /\ registry \in [Units -> Registry]
        /\ \A v \in Units : v # u => registry'[v] = registry[v]
    BY <1>1 DEF SetEnabled, ChangeDeclaration, Remove, Declare, EditRegistry,
                IInv, TypeOK
  <1>4. \/ registry'[u].present => registry[u].present
        \/ ~registry[u].present /\ life[u] = 0
    BY <1>1, <1>3 DEF SetEnabled, ChangeDeclaration, Remove, Declare,
                      EditRegistry, Registry
  <1>5. NamesUsedOnce'
    <2>1. \A v \in monitored : v \in Units /\ life[v] > 0
      BY DEF IInv, TypeOK, Bookkeeping, NamesUsedOnce
    <2>2. \A v \in monitored : run[v].gone => ~registry'[v].present
      <3>1. ASSUME NEW v \in monitored, run[v].gone, registry'[v].present
            PROVE  FALSE
        <4>1. ~registry[v].present /\ life[v] > 0 /\ life[v] # 0
          BY <2>1, <3>1 DEF IInv, Bookkeeping, NamesUsedOnce
        <4> QED
          BY <1>3, <1>4, <2>1, <3>1, <4>1
      <3> QED
        BY <3>1
    <2>3. \A v \in Units : registry'[v].present /\ v \notin monitored => life[v] = 0
      BY <1>3, <1>4 DEF IInv, Bookkeeping, NamesUsedOnce, Declared
    <2> QED
      BY <1>2, <2>1, <2>2, <2>3 DEF IInv, Bookkeeping, NamesUsedOnce, Declared
  <1> QED
    BY <1>2, <1>5 DEF Rest, IInv, Bookkeeping, FlagsFitState, OneCurrentCall,
                      Matches, BusyIsAnswered, WaitingHasTimer, Running

(***************************************************************************)
(* The theorems.                                                           *)
(***************************************************************************)
\* Initially nothing is in flight and every declared unit is at rest.
LEMMA InitRest == ASSUME Init PROVE IInv
  <1>1. TypeOK
    BY ConstantsAssumption, InitType
  <1>2. \A u \in monitored : run[u] = NewRun(u) /\ life[u] = 1 /\ u \in Units
    BY <1>1 DEF Init, TypeOK
  <1>3. \A u : /\ FlagsFit(NewRun(u)) /\ ~NewRun(u).busy
               /\ ~NewRun(u).waiting /\ ~NewRun(u).gone
    BY DEF NewRun, FlagsFit, Transient, RunningStates
  <1>4. calls = {} /\ Declared \ monitored = {}
    BY DEF Init
  <1> QED
    BY <1>1, <1>2, <1>3, <1>4
    DEF IInv, Bookkeeping, FlagsFitState, OneCurrentCall, NamesUsedOnce,
        BusyIsAnswered, WaitingHasTimer

\* Every step preserves the bookkeeping of generations.
LEMMA NextRest ==
    ASSUME IInv, ReAdd = FALSE, [Next]_vars
    PROVE  Rest'
  <1>1. CASE UNCHANGED vars \/ Exit \/ ControlQuery \/ Reports
    <2>1. UNCHANGED <<run, calls, cancelled, timers>> /\ UNCHANGED decls
      BY <1>1 DEF vars, Exit, ControlQuery, Reports, ChildExits, OwnerReports,
                  decls, msgs, shutdown
    <2> QED
      BY <2>1, UnchangedStep
  <1>5. CASE \/ \E p \in probes : LoseProbe(p)
             \/ \E e \in pevents : LoseEvent(e)
             \/ \E t \in timers : LoseTimer(t)
    <2>1. UNCHANGED <<run, calls, cancelled>> /\ UNCHANGED decls /\ cancelled
      BY <1>5 DEF LoseProbe, LoseEvent, LoseTimer, LosePost, shutdown
    <2> QED
      BY <2>1, UnchangedStep
  <1>2. CASE Sweep
    BY <1>2, SweepUnitStep, EndPassStep DEF Sweep
  <1>3. CASE \E t \in timers : OnTimer(t)
    BY <1>3, TimerStep
  <1>4. CASE Operator
    BY <1>4, RequestStep DEF Operator
  <1> QED
    BY <1>1, <1>2, <1>3, <1>4, <1>5, CallStep, ProbeStep, NewsStep, ReloadStep,
       SignalStep, EditStep DEF Next, Idle

\* The bookkeeping invariant: an answer that carries the current generation
\* finds its unit busy, up unless it is being stopped, and it is the only one.
THEOREM Bookkept == ReAdd = FALSE /\ Spec => []IInv
  <1> SUFFICES ASSUME ReAdd = FALSE PROVE Spec => []IInv
    OBVIOUS
  <1>1. IInv /\ [Next]_vars => IInv'
    <2>1. IInv /\ [Next]_vars => TypeOK'
      BY NextType DEF IInv
    <2>2. IInv /\ [Next]_vars => Rest'
      BY NextRest
    <2> QED
      BY <2>1, <2>2 DEF Rest, IInv
  <1>2. Init => IInv
    BY InitRest
  <1> QED
    BY <1>1, <1>2, PTL DEF Spec

\* An answer of the current generation finds its unit busy, and up unless it
\* is being stopped; it is the only one, and every other answer is late.
THEOREM AnswersFindTheirUnit == ReAdd = FALSE /\ Spec => []Bookkeeping
  BY Bookkept, PTL DEF IInv

\* onActivated, onConfigured and deactivate clear busy only with an answer:
\* until a second signal every busy unit has its answer still to come.
THEOREM BusyIsAlwaysAnswered == ReAdd = FALSE /\ Spec => []BusyIsAnswered
  BY Bookkept, PTL DEF IInv

\* afterExit never leaves a unit in backoff without the timer that ends it.
THEOREM WaitingAlwaysHasTimer == ReAdd = FALSE /\ Spec => []WaitingHasTimer
  BY Bookkept, PTL DEF IInv

\* A failed or completed unit stays down, idle and out of backoff while the
\* latch is set.
THEOREM LatchedStaysDown == ReAdd = FALSE /\ Spec => []LatchedIsDown
  <1>1. IInv => LatchedIsDown
    BY DEF IInv, TypeOK, UnitRun, States, Bookkeeping, FlagsFitState, FlagsFit,
           Transient, RunningStates, LatchedIsDown
  <1> QED
    BY <1>1, Bookkept, PTL

(***************************************************************************)
(* Every unit stays with the provider it was declared for, as long as no   *)
(* declaration it may be given names another one.                          *)
(***************************************************************************)
\* No edit takes a unit to another provider.
OneProvider ==
    \A u \in Units : \A d, e \in Declarations[u] : d.provider = e.provider

\* The provider that every declaration of a unit names.
Home(u) == CHOOSE k \in Providers : \A d \in Declarations[u] : d.provider = k

AtHome ==
    /\ \A u \in Units : /\ registry[u].decl \in Declarations[u]
                        /\ decl[u] \in Declarations[u]
    /\ \A c \in calls : c.via = Home(c.unit)
    /\ \A u \in Units, k \in Providers : k # Home(u) => prov[u][k] = NoChild

\* The one incarnation a unit has.
child == [u \in Units |-> prov[u][Home(u)]]

\* Home is what it is meant to be.
LEMMA HomeOf ==
    ASSUME OneProvider, NEW u \in Units, Declarations[u] # {}
    PROVE  Home(u) \in Providers /\ \A d \in Declarations[u] : d.provider = Home(u)
  <1>1. PICK d \in Declarations[u] : TRUE
    OBVIOUS
  <1>2. d.provider \in Providers
    BY <1>1, ConstantsAssumption DEF Declaration
  <1>3. \E k \in Providers : \A e \in Declarations[u] : e.provider = k
    BY <1>1, <1>2 DEF OneProvider
  <1> QED
    BY <1>3 DEF Home

\* A unit is asked of its home.
LEMMA DeclaredHome ==
    ASSUME OneProvider, AtHome, NEW u \in Units
    PROVE  Home(u) \in Providers /\ decl[u].provider = Home(u)
  <1>1. decl[u] \in Declarations[u]
    BY DEF AtHome
  <1> QED
    BY <1>1, HomeOf

\* What a call is asked under.
LEMMA AskedOf ==
    ASSUME TypeOK, NEW u \in Units, NEW r, NEW rest \in SUBSET calls,
           \/ \E kind, then : AskProvider(u, r, kind, then, rest)
           \/ \E announce, then : Deactivate(u, r, announce, then, rest)
           \/ Launch(u, r, rest)
           \/ \E exempt : Activate(u, r, exempt, rest)
    PROVE  \A c \in calls' \ calls : c.unit = u /\ c.via = decl[u].provider
  <1>1. ASSUME NEW s, NEW kind, NEW then, AskProvider(u, s, kind, then, rest)
        PROVE  \A c \in calls' \ calls : c.unit = u /\ c.via = decl[u].provider
    <2> DEFINE new == [kind |-> kind, unit |-> u, via |-> decl[u].provider,
                       life |-> life[u], gen |-> s.gen, then |-> then]
    <2>1. new.unit = u /\ new.via = decl[u].provider
      OBVIOUS
    <2>2. calls' = rest \cup {new}
      BY <1>1 DEF AskProvider
    <2> HIDE DEF new
    <2> QED
      BY <2>1, <2>2
  <1>2. ASSUME NEW s, Launch(u, s, rest) \/ Refuse(u, s, rest)
        PROVE  \A c \in calls' \ calls : c.unit = u /\ c.via = decl[u].provider
    BY <1>1, <1>2 DEF Launch, Refuse
  <1>3. ASSUME NEW announce, NEW then, Deactivate(u, r, announce, then, rest)
        PROVE  \A c \in calls' \ calls : c.unit = u /\ c.via = decl[u].provider
    BY <1>1, <1>3 DEF Deactivate
  <1>4. ASSUME NEW exempt, Activate(u, r, exempt, rest)
        PROVE  \A c \in calls' \ calls : c.unit = u /\ c.via = decl[u].provider
    BY <1>2, <1>4 DEF Activate
  <1> QED
    BY <1>1, <1>2, <1>3, <1>4

\* The steps that leave the declarations and the providers alone.
LEMMA AskedAtHome ==
    ASSUME OneProvider, TypeOK, AtHome, UNCHANGED <<registry, decl, prov>>,
           \A c \in calls' \ calls :
               c.unit \in Units /\ c.via = decl[c.unit].provider
    PROVE  AtHome'
  BY DeclaredHome DEF AtHome

\* A provider's incarnation is set where its unit is at home, or cleared.
LEMMA SetAtHome ==
    ASSUME OneProvider, TypeOK, AtHome, UNCHANGED <<registry, decl>>,
           NEW u \in Units, NEW k \in Providers, NEW x, SetChild(u, k, x),
           k = Home(u) \/ x = NoChild,
           \A c \in calls' : c.via = Home(c.unit)
    PROVE  AtHome'
  <1>1. prov \in [Units -> [Providers -> [life : Nat, gen : Nat]]]
    BY DEF TypeOK
  <1>2. /\ \A v \in Units \ {u} : prov'[v] = prov[v]
        /\ \A h \in Providers \ {k} : prov'[u][h] = prov[u][h]
        /\ prov'[u][k] = x
    <2>1. prov[u] \in [Providers -> [life : Nat, gen : Nat]]
      BY <1>1
    <2>2. prov' = [prov EXCEPT ![u] = [prov[u] EXCEPT ![k] = x]]
      BY DEF SetChild
    <2>3. prov'[u] = [prov[u] EXCEPT ![k] = x]
      BY <1>1, <2>2
    <2> QED
      BY <1>1, <2>1, <2>2, <2>3
  <1> QED
    BY <1>2 DEF AtHome

\* The sweep and the loop's handlers ask at home.
LEMMA LoopAtHome ==
    ASSUME OneProvider, TypeOK, AtHome,
           \/ Sweep \/ Exit \/ Idle \/ Operator \/ Signal \/ ControlQuery
           \/ \E c \in calls : \/ OnActivated(c) \/ OnActivateError(c)
                               \/ \E live \in BOOLEAN : OnConfigured(c, live)
           \/ \E p \in probes : ProbeVerdict(p) \/ ProbeFault(p) \/ LoseProbe(p)
           \/ \E e \in pevents : ProviderNews(e) \/ LoseEvent(e)
           \/ \E t \in timers : OnTimer(t) \/ LoseTimer(t)
    PROVE  AtHome'
  <1> DEFINE Quietly == /\ UNCHANGED <<registry, decl, prov>>
                        /\ \A c \in calls' \ calls :
                              c.unit \in Units /\ c.via = decl[c.unit].provider
  <1>1. /\ monitored \subseteq Units /\ \A c \in calls : c.unit \in Units
        /\ \A p \in probes : p.unit \in Units
        /\ \A e \in pevents : e.unit \in Units
    BY DEF TypeOK, Call, Probe, ProviderEvent
  <1>2. ASSUME UNCHANGED <<registry, decl, prov, calls>> PROVE Quietly
    BY <1>2
  <1>3. ASSUME UNCHANGED <<registry, decl, prov>>, NEW u \in Units, NEW r,
               NEW rest \in SUBSET calls,
               \/ \E kind, then : AskProvider(u, r, kind, then, rest)
               \/ \E announce, then : Deactivate(u, r, announce, then, rest)
               \/ Launch(u, r, rest)
               \/ \E exempt : Activate(u, r, exempt, rest)
        PROVE  Quietly
    <2>1. \A c \in calls' \ calls : c.unit = u /\ c.via = decl[u].provider
      <3> HIDE DEF Quietly
      <3> QED
        BY <1>3, AskedOf
    <2> QED
      BY <1>3, <2>1
  <1>4. ASSUME Sweep PROVE Quietly
    <2>1. ASSUME NEW u \in Units, StepStop(u) \/ StepStart(u) PROVE Quietly
      <3>1. UNCHANGED <<registry, decl, prov>> /\ calls \in SUBSET calls
        BY <2>1 DEF StepStop, StepStart, Stepped, decls
      <3> QED
        BY <1>3, <2>1, <3>1 DEF StepStop, StepStart
    <2>2. ASSUME NEW u \in Units, StepConfigure(u) PROVE Quietly
      <3>1. UNCHANGED <<registry, decl, prov>> /\ calls \in SUBSET calls
        BY <2>2 DEF StepConfigure, Stepped, decls
      <3>2. \E r : AskProvider(u, r, "configure", "none", calls)
        BY <2>2 DEF StepConfigure
      <3> QED
        BY <1>3, <3>1, <3>2
    <2>3. ASSUME NEW u \in Units, StepClear(u) \/ StepBlock(u) PROVE Quietly
      BY <1>2, <2>3 DEF StepClear, StepBlock, Stepped, decls
    <2>4. ASSUME EndPass PROVE Quietly
      BY <1>2, <2>4 DEF EndPass, msgs
    <2> QED
      BY <1>4, <2>1, <2>2, <2>3, <2>4 DEF Sweep
  <1>5. ASSUME Operator PROVE Quietly
    <2>1. ASSUME NEW u \in Units, ControlStart(u) \/ ControlStop(u) PROVE Quietly
      BY <1>2, <2>1 DEF ControlStart, ControlStop, Control, decls
    <2>2. ASSUME NEW u \in Units, ControlRestart(u) PROVE Quietly
      <3>1. UNCHANGED <<registry, decl, prov>> /\ calls \in SUBSET calls
        BY <2>2 DEF ControlRestart, Control, decls
      <3>2. \/ UNCHANGED calls
            \/ \E r : Deactivate(u, r, TRUE, "restart", calls)
        BY <2>2 DEF ControlRestart
      <3> QED
        BY <1>2, <1>3, <3>1, <3>2
    <2> QED
      BY <1>5, <2>1, <2>2 DEF Operator
  <1>6. ASSUME NEW c \in calls, OnActivated(c) \/ OnActivateError(c) PROVE Quietly
    BY <1>6 DEF OnActivated, OnActivateError, decls
  <1>7. ASSUME NEW c \in calls, NEW live \in BOOLEAN, OnConfigured(c, live)
        PROVE  Quietly
    <2>1. UNCHANGED <<registry, decl, prov>> /\ c.unit \in Units
      BY <1>1, <1>7 DEF OnConfigured, decls
    <2>2. \/ calls' = calls \ {c}
          \/ \E r : Deactivate(c.unit, r, TRUE, "reconfigured", calls \ {c})
      BY <1>7 DEF OnConfigured
    <2>3. calls \ {c} \in SUBSET calls
      OBVIOUS
    <2> QED
      BY <1>3, <2>1, <2>2, <2>3
  <1>8. ASSUME NEW p \in probes, ProbeVerdict(p) \/ ProbeFault(p) \/ LoseProbe(p)
        PROVE  Quietly
    <2>1. UNCHANGED <<registry, decl, prov>> /\ p.unit \in Units /\ calls \in SUBSET calls
      BY <1>1, <1>8 DEF ProbeVerdict, ProbeFault, LoseProbe, LosePost, OnProbeGone,
                        OnProbeOK, OnProbePending, OnProbeGrace, OnProbeFailed, decls
    <2>2. \/ UNCHANGED calls
          \/ \E r : Deactivate(p.unit, r, TRUE, "exit1", calls)
      BY <1>8 DEF ProbeVerdict, ProbeFault, LoseProbe, OnProbeGone, OnProbeOK,
                  OnProbePending, OnProbeGrace, OnProbeFailed
    <2> QED
      BY <1>2, <1>3, <2>1, <2>2
  <1>9. ASSUME NEW e \in pevents, ProviderNews(e) \/ LoseEvent(e) PROVE Quietly
    <2>1. UNCHANGED <<registry, decl, prov>> /\ e.unit \in Units /\ calls \in SUBSET calls
      BY <1>1, <1>9 DEF ProviderNews, LoseEvent, LosePost, OnProviderExit,
                        OnProviderUp, decls
    <2>2. \/ UNCHANGED calls
          \/ \E code : Deactivate(e.unit, run[e.unit], FALSE, code, calls)
      BY <1>9 DEF ProviderNews, LoseEvent, OnProviderExit, OnProviderUp
    <2> QED
      BY <1>2, <1>3, <2>1, <2>2
  <1>10. ASSUME NEW t \in timers, OnTimer(t) \/ LoseTimer(t) PROVE Quietly
    BY <1>2, <1>10 DEF OnTimer, LoseTimer, LosePost, decls
  <1>11. ASSUME Exit \/ Idle \/ Signal \/ ControlQuery PROVE Quietly
    BY <1>2, <1>11 DEF Exit, Idle, Signal, ControlQuery, decls, msgs, vars
  <1>12. Quietly
    BY <1>4, <1>5, <1>6, <1>7, <1>8, <1>9, <1>10, <1>11
  <1> QED
    BY <1>12, AskedAtHome

\* The provider that ends, or starts, what it was asked to is the home.
LEMMA ProviderAtHome ==
    ASSUME OneProvider, TypeOK, AtHome, NEW c \in calls,
           \/ OnDeactivated(c) \/ OnStaleAnswer(c)
           \/ LoseAnswer(c) \/ ProviderStarts(c)
    PROVE  AtHome'
  <1>1. /\ UNCHANGED <<registry, decl>> /\ c.unit \in Units /\ c.via \in Providers
        /\ c.via = Home(c.unit) /\ c \in Call
    BY DEF OnDeactivated, OnStaleAnswer, LoseAnswer, LosePost, ProviderStarts,
           decls, TypeOK, Call, AtHome
  <1>2. \/ \E x : SetChild(c.unit, c.via, x)
        \/ UNCHANGED prov
    BY DEF OnDeactivated, OnStaleAnswer, LoseAnswer, DoneUnheard, ProviderStarts
  <1>3. ASSUME NEW d \in calls' PROVE d.via = Home(d.unit)
    <2>1. CASE d \in calls
      BY <2>1 DEF AtHome
    <2>2. CASE OnStaleAnswer(c) \/ LoseAnswer(c)
      BY <2>1, <2>2 DEF OnStaleAnswer, LoseAnswer
    <2>3. CASE ProviderStarts(c)
      <3>1. d \in calls \/ d = [c EXCEPT !.kind = "activated"]
        BY <2>3 DEF ProviderStarts
      <3> QED
        BY <1>1, <2>1, <3>1 DEF Call
    <2>4. CASE OnDeactivated(c)
      <3>1. calls \ {c} \in SUBSET calls
        OBVIOUS
      <3>2. \/ calls' = calls \ {c}
            \/ \E r : Activate(c.unit, r, TRUE, calls \ {c})
        BY <2>4 DEF OnDeactivated
      <3>3. d \in calls \/ (d.unit = c.unit /\ d.via = decl[c.unit].provider)
        BY <1>1, <3>1, <3>2, AskedOf
      <3> QED
        BY <1>1, <2>1, <3>3, DeclaredHome
    <2> QED
      BY <2>2, <2>3, <2>4
  <1>4. CASE UNCHANGED prov
    BY <1>1, <1>3, <1>4 DEF AtHome
  <1> QED
    BY <1>1, <1>2, <1>3, <1>4, SetAtHome

\* Reports, reloads and edits move no unit.
LEMMA WorldAtHome ==
    ASSUME OneProvider, TypeOK, AtHome, Reports \/ Poll \/ ControlReload \/ Edit
    PROVE  AtHome'
  <1>1. CASE Reports
    <2>1. ASSUME NEW u \in Units, NEW code, ChildExits(u, code) PROVE AtHome'
      <3>1. /\ UNCHANGED <<registry, decl, calls>> /\ "process" \in Providers
            /\ SetChild(u, "process", NoChild)
        BY <2>1 DEF ChildExits, decls, Providers
      <3>2. \A c \in calls' : c.via = Home(c.unit)
        BY <3>1 DEF AtHome
      <3> QED
        BY <3>1, <3>2, SetAtHome
    <2>2. ASSUME NEW u \in Units, NEW to, OwnerReports(u, to) PROVE AtHome'
      BY <2>2 DEF OwnerReports, decls, AtHome
    <2> QED
      BY <1>1, <2>1, <2>2 DEF Reports
  <1>2. CASE Poll \/ ControlReload
    <2>1. /\ UNCHANGED <<registry, prov, calls>>
          /\ decl' = [u \in Units |-> IF Redeclared(u) THEN registry[u].decl
                                                       ELSE decl[u]]
      BY <1>2 DEF Poll, ControlReload, Reload, msgs
    <2> QED
      BY <2>1 DEF AtHome
  <1>3. CASE Edit
    <2>1. UNCHANGED <<decl, prov, calls>>
      BY <1>3 DEF Edit, SetEnabled, ChangeDeclaration, Remove, Declare,
                  EditRegistry, msgs
    <2>2. PICK u \in Units, entry \in Registry :
             /\ registry' = [registry EXCEPT ![u] = entry]
             /\ entry.decl \in Declarations[u]
      <3>1. ASSUME NEW u \in Units, SetEnabled(u) \/ Remove(u)
            PROVE  \E entry \in Registry :
                        /\ registry' = [registry EXCEPT ![u] = entry]
                        /\ entry.decl \in Declarations[u]
        <4>1. registry[u] \in Registry /\ registry[u].decl \in Declarations[u]
          BY DEF TypeOK, AtHome
        <4>2. CASE SetEnabled(u)
          <5> DEFINE entry == [registry[u] EXCEPT !.enabled = ~@]
          <5>1. registry' = [registry EXCEPT ![u] = entry]
            BY <4>2 DEF SetEnabled, EditRegistry
          <5>2. entry \in Registry /\ entry.decl = registry[u].decl
            BY <4>1 DEF Registry
          <5> HIDE DEF entry
          <5> QED
            BY <4>1, <5>1, <5>2
        <4>3. CASE Remove(u)
          <5> DEFINE entry == [registry[u] EXCEPT !.present = FALSE]
          <5>1. registry' = [registry EXCEPT ![u] = entry]
            BY <4>3 DEF Remove, EditRegistry
          <5>2. entry \in Registry /\ entry.decl = registry[u].decl
            BY <4>1 DEF Registry
          <5> HIDE DEF entry
          <5> QED
            BY <4>1, <5>1, <5>2
        <4> QED
          BY <3>1, <4>2, <4>3
      <3>2. ASSUME NEW u \in Units, NEW d \in Declarations[u],
                   ChangeDeclaration(u, d) \/ Declare(u, d)
            PROVE  \E entry \in Registry :
                        /\ registry' = [registry EXCEPT ![u] = entry]
                        /\ entry.decl \in Declarations[u]
        <4>1. registry[u] \in Registry /\ d \in Declaration
          BY ConstantsAssumption DEF TypeOK
        <4>2. CASE ChangeDeclaration(u, d)
          <5> DEFINE entry == [registry[u] EXCEPT !.rev = @ + 1, !.decl = d]
          <5>1. registry' = [registry EXCEPT ![u] = entry]
            BY <4>2 DEF ChangeDeclaration, EditRegistry
          <5>2. entry \in Registry /\ entry.decl = d
            <6>1. registry[u].rev + 1 \in Nat
              BY <4>1 DEF Registry
            <6>2. PICK n \in Nat : n = registry[u].rev + 1
              BY <6>1
            <6>3. entry = [registry[u] EXCEPT !.rev = n, !.decl = d]
              BY <6>2
            <6> QED
              BY <4>1, <6>3 DEF Registry
          <5> HIDE DEF entry
          <5> QED
            BY <5>1, <5>2
        <4>3. CASE Declare(u, d)
          <5> DEFINE entry == [registry[u] EXCEPT !.present = TRUE, !.decl = d]
          <5>1. registry' = [registry EXCEPT ![u] = entry]
            BY <4>3 DEF Declare, EditRegistry
          <5>2. entry \in Registry /\ entry.decl = d
            BY <4>1 DEF Registry
          <5> HIDE DEF entry
          <5> QED
            BY <5>1, <5>2
        <4> QED
          BY <3>2, <4>2, <4>3
      <3> QED
        BY <1>3, <3>1, <3>2 DEF Edit
    <2>3. registry \in [Units -> Registry]
      BY DEF TypeOK
    <2>4. \A v \in Units : registry'[v].decl \in Declarations[v]
      BY <2>2, <2>3 DEF AtHome
    <2> QED
      BY <2>1, <2>4 DEF AtHome
  <1> QED
    BY <1>1, <1>2, <1>3

\* No step takes a unit from its home.
LEMMA NextAtHome ==
    ASSUME OneProvider, TypeOK, AtHome, [Next]_vars
    PROVE  AtHome'
  <1>1. CASE UNCHANGED vars
    BY <1>1 DEF vars, AtHome
  <1>2. CASE \E c \in calls : \/ Answer(c) \/ OnActivateError(c)
                              \/ ProviderStarts(c) \/ LoseAnswer(c)
    BY <1>2, LoopAtHome, ProviderAtHome DEF Answer
  <1>3. CASE Reports \/ Poll \/ ControlReload \/ Edit
    BY <1>3, WorldAtHome
  <1>4. CASE \/ Sweep \/ Exit \/ Idle \/ Operator \/ Signal \/ ControlQuery
             \/ \E p \in probes : ProbeVerdict(p) \/ ProbeFault(p) \/ LoseProbe(p)
             \/ \E e \in pevents : ProviderNews(e) \/ LoseEvent(e)
             \/ \E t \in timers : OnTimer(t) \/ LoseTimer(t)
    BY <1>4, LoopAtHome
  <1> QED
    BY <1>1, <1>2, <1>3, <1>4 DEF Next

\* A unit that no declaration moves has one provider, and no process anywhere
\* else.
LEMMA StaysAtHome == OneProvider /\ Spec => []AtHome
  <1> SUFFICES ASSUME OneProvider PROVE Spec => []AtHome
    OBVIOUS
  <1>1. Init => AtHome
    BY DEF Init, AtHome
  <1>2. AtHome /\ TypeOK /\ [Next]_vars => AtHome'
    BY NextAtHome
  <1> QED
    BY <1>1, <1>2, TypeCorrect, PTL DEF Spec

\* What is set at home is the child.
LEMMA ChildSet ==
    ASSUME TypeOK, NEW u \in Units, Home(u) \in Providers, NEW x,
           SetChild(u, Home(u), x)
    PROVE  child' = [child EXCEPT ![u] = x]
  <1>1. prov \in [Units -> [Providers -> [life : Nat, gen : Nat]]]
    BY DEF TypeOK
  <1>2. /\ \A v \in Units \ {u} : prov'[v] = prov[v]
        /\ prov'[u][Home(u)] = x
    <2>1. prov[u] \in [Providers -> [life : Nat, gen : Nat]]
      BY <1>1
    <2>2. prov' = [prov EXCEPT ![u] = [prov[u] EXCEPT ![Home(u)] = x]]
      BY DEF SetChild
    <2>3. prov'[u] = [prov[u] EXCEPT ![Home(u)] = x]
      BY <1>1, <2>2
    <2> QED
      BY <1>1, <2>1, <2>2, <2>3
  <1> QED
    BY <1>2 DEF child

LEMMA ChildSame == ASSUME prov' = prov PROVE child' = child
  BY DEF child

\* What the unit's one incarnation says of all its providers.
LEMMA ChildIs ==
    ASSUME OneProvider, TypeOK, AtHome
    PROVE  /\ child \in [Units -> [life : Nat, gen : Nat]]
           /\ \A u \in Units : /\ Alive(u) <=> child[u] # NoChild
                               /\ Current(u) = child[u]
                               /\ child[u] = prov[u][Home(u)]
                               /\ Home(u) \in Providers
                               /\ \A k \in Providers :
                                     prov[u][k] = child[u] \/ prov[u][k] = NoChild
  <1>1. ASSUME NEW u \in Units
        PROVE  /\ Home(u) \in Providers /\ decl[u].provider = Home(u)
               /\ child[u] = prov[u][Home(u)]
               /\ prov[u] \in [Providers -> [life : Nat, gen : Nat]]
               /\ \A k \in Providers : k # Home(u) => prov[u][k] = NoChild
    BY DeclaredHome DEF child, TypeOK, AtHome
  <1> QED
    BY <1>1 DEF child, Alive, Current

(***************************************************************************)
(* Every process of the monitor is accounted for, and each unit lives the  *)
(* life of UnitLifecycle, while no name is declared twice in one run of    *)
(* the monitor and no unit is moved to another provider: then a unit has   *)
(* one incarnation, the child.                                             *)
(*                                                                         *)
(* A step does one of eight things to the processes and calls: nothing, it *)
(* asks for a start, a stop or a configuration of one unit, it takes the   *)
(* answer of one call, it drops one, a provider starts a process, or one   *)
(* is reported.  What each of the eight owes the invariant and the unit's  *)
(* life is shown once; then every action is shown to be one of them.       *)
(***************************************************************************)

StartsOrStops == {"activate", "deactivate"}

\* The child runs, or the report of its exit is on the way.
ChildKnown(u) ==
    \/ child[u] = [life |-> life[u], gen |-> run[u].gen]
    \/ \E e \in pevents : e.unit = u /\ Matches(e) /\ e.to # "up"

\* The life of a unit with one provider.
Lives(u) == INSTANCE UnitLifecycle WITH
                stage <- Stage(u),
                alive <- child[u] # NoChild,
                wanted <- u \in monitored /\ WantUp(u) /\ ~run[u].latched

\* Custody of one unit.
UnitCustody(u) ==
    /\ \A c \in calls : c.unit = u =>
          /\ c.life = life[u]
          /\ c.kind \in StartsOrStops =>
                /\ u \in monitored /\ run[u].gen = c.gen
                /\ child[u].gen < c.gen
                /\ \A e \in pevents : e.unit = u => e.gen < c.gen
          /\ c.kind = "activate" => child[u] = NoChild
    /\ \A e \in pevents : e.unit = u => life[u] > 0
    /\ u \in monitored =>
          /\ child[u].gen <= run[u].gen
          /\ \A e \in pevents : e.unit = u => e.gen <= run[u].gen
          /\ Running(u) /\ ~cancelled =>
                /\ ~run[u].busy \/ Awaits(u, "configure")
                      => ProbeDue(u) /\ ChildKnown(u)
                /\ Awaits(u, "activated") => ChildKnown(u)
    /\ child[u] # NoChild => u \in monitored /\ (Running(u) \/ run[u].busy)

EveryCustody == \A u \in Units : UnitCustody(u)

\* Custody is the custody of every unit.
LEMMA CustodyByUnit ==
    OneProvider /\ TypeOK /\ AtHome => (Custody <=> EveryCustody)
  <1> SUFFICES ASSUME OneProvider, TypeOK, AtHome
               PROVE  Custody <=> EveryCustody
    OBVIOUS
  <1>h. \A u \in Units : /\ Alive(u) <=> child[u] # NoChild
                         /\ Current(u) = child[u]
                         /\ child[u] = prov[u][Home(u)]
                         /\ Home(u) \in Providers
                         /\ \A k \in Providers :
                               prov[u][k] = child[u] \/ prov[u][k] = NoChild
                         /\ ProcessKnown(u) <=> ChildKnown(u)
    BY ChildIs DEF ProcessKnown, ChildKnown
  <1>1. /\ \A c \in calls : c.unit \in Units
        /\ \A e \in pevents : e.unit \in Units
        /\ monitored \subseteq Units
    BY DEF TypeOK, Call, ProviderEvent
  <1>n. /\ NoChild.gen = 0
        /\ \A c \in calls : c.gen \in Nat /\ (c.kind = "activate" \/
              c.kind = "deactivate" \/ c.kind \notin StartsOrStops)
        /\ \A u \in Units : run[u].gen \in Nat
    BY DEF TypeOK, Call, UnitRun, NoChild, StartsOrStops
  <1>2. ASSUME Custody, NEW u \in Units PROVE UnitCustody(u)
    <2>1. ASSUME NEW c \in calls, c.unit = u
          PROVE  /\ c.life = life[u]
                 /\ c.kind \in StartsOrStops =>
                       /\ u \in monitored /\ run[u].gen = c.gen
                       /\ child[u].gen < c.gen
                       /\ \A e \in pevents : e.unit = u => e.gen < c.gen
                 /\ c.kind = "activate" => child[u] = NoChild
      BY <1>2, <1>h, <2>1
      DEF StartsOrStops, Custody, CallsInTime, NothingAhead, StartsAlone, Matches
    <2>2. \A e \in pevents : e.unit = u => life[u] > 0
      BY <1>2 DEF Custody, NothingAhead
    <2>3. u \in monitored =>
             /\ child[u].gen <= run[u].gen
             /\ \A e \in pevents : e.unit = u => e.gen <= run[u].gen
      BY <1>2, <1>h DEF Custody, NothingAhead
    <2>4. u \in monitored /\ Running(u) /\ ~cancelled =>
             /\ ~run[u].busy \/ Awaits(u, "configure")
                   => ProbeDue(u) /\ ChildKnown(u)
             /\ Awaits(u, "activated") => ChildKnown(u)
      BY <1>2, <1>h DEF Custody, UpIsWatched
    <2>5. child[u] # NoChild => u \in monitored /\ (Running(u) \/ run[u].busy)
      BY <1>2, <1>h DEF Custody, ProcessesOwned
    <2> QED
      BY <2>1, <2>2, <2>3, <2>4, <2>5 DEF UnitCustody
  <1>3. ASSUME \A u \in Units : UnitCustody(u) PROVE Custody
    <2>1. CallsInTime
      BY <1>1, <1>3 DEF UnitCustody, StartsOrStops, CallsInTime, Matches
    <2>2. NothingAhead
      <3>1. \A e \in pevents : life[e.unit] > 0
        BY <1>1, <1>3 DEF UnitCustody
      <3>2. ASSUME NEW u \in monitored
            PROVE  /\ \A k \in Providers : prov[u][k].gen <= run[u].gen
                   /\ \A e \in pevents : e.unit = u => e.gen <= run[u].gen
        BY <1>1, <1>3, <1>h, <1>n DEF UnitCustody
      <3>3. ASSUME NEW c \in calls, c.kind \in {"activate", "deactivate"}
            PROVE  /\ \A k \in Providers : prov[c.unit][k].gen < c.gen
                   /\ \A e \in pevents : e.unit = c.unit => e.gen < c.gen
        <4>1. /\ child[c.unit].gen < c.gen
              /\ \A e \in pevents : e.unit = c.unit => e.gen < c.gen
          BY <1>1, <1>3, <3>3 DEF UnitCustody, StartsOrStops
        <4>2. NoChild.gen < c.gen
          <5>1. child[c.unit].gen \in Nat /\ c.gen \in Nat
            BY <1>1, <1>n, ChildIs
          <5> QED
            BY <4>1, <5>1, <1>n
        <4> QED
          BY <1>1, <1>h, <4>1, <4>2
      <3> QED
        BY <3>1, <3>2, <3>3 DEF NothingAhead
    <2>3. StartsAlone
      BY <1>1, <1>3, <1>h DEF UnitCustody, StartsAlone
    <2>4. ProcessesOwned /\ UpIsWatched
      BY <1>1, <1>3, <1>h DEF UnitCustody, ProcessesOwned, UpIsWatched
    <2> QED
      BY <2>1, <2>2, <2>3, <2>4 DEF Custody
  <1> QED
    BY <1>2, <1>3 DEF EveryCustody

\* What a step owes a unit, and what it may rely on.
Kept(u) == UnitCustody(u)' /\ Lives(u)!LifecycleStep

Hyp == /\ OneProvider /\ IInv /\ AtHome /\ TypeOK'
       /\ \A u \in Units : UnitCustody(u)

\* The numbers and messages of a unit.
LEMMA UnitNumbers ==
    ASSUME OneProvider, TypeOK, AtHome, NEW u \in Units
    PROVE  /\ child[u].gen \in Nat /\ life[u] \in Nat /\ run[u].gen \in Nat
           /\ run[u].busy \in BOOLEAN
           /\ \A c \in calls : c.gen \in Nat /\ c.unit \in Units
           /\ \A e \in pevents : e.gen \in Nat /\ e.unit \in Units
           /\ NoChild.gen = 0 /\ NoChild.life = 0
           /\ monitored \subseteq Units
  BY ChildIs DEF TypeOK, UnitRun, Call, ProviderEvent, NoChild

\* The calls that match: they keep their unit busy, one at a time.
LEMMA Matching ==
    ASSUME IInv, NEW c \in calls, Matches(c)
    PROVE  /\ c.unit \in monitored /\ c.unit \in Units /\ run[c.unit].busy
           /\ c.gen = run[c.unit].gen
           /\ c.kind # "deactivate" => Running(c.unit)
           /\ \A d \in calls : d.unit = c.unit /\ Matches(d) => d = c
           /\ \A k : Awaits(c.unit, k) <=> k = c.kind
  <1>1. /\ c.unit \in monitored /\ c.gen = run[c.unit].gen /\ monitored \subseteq Units
    BY DEF Matches, IInv, TypeOK
  <1>2. /\ run[c.unit].busy
        /\ c.kind # "deactivate" => Running(c.unit)
        /\ \A d \in calls : d.unit = c.unit /\ Matches(d) => d = c
    BY <1>1 DEF IInv, Bookkeeping, OneCurrentCall
  <1> QED
    BY <1>1, <1>2 DEF Awaits

(***************************************************************************)
(* The forms.                                                              *)
(***************************************************************************)
\* A step that concerns u leaves the rest of the world to the others.
OnlyOf(u) ==
    /\ UNCHANGED <<monitored, life, cancelled>>
    /\ \A v \in Units \ {u} :
          /\ run'[v] = run[v] /\ child'[v] = child[v]
          /\ \A c \in calls \cup calls' : c.unit = v => (c \in calls <=> c \in calls')
          /\ \A e \in pevents \cup pevents' : e.unit = v => (e \in pevents <=> e \in pevents')
          /\ \A p \in probes \cup probes' : p.unit = v => (p \in probes <=> p \in probes')

\* Units that are not concerned are kept.
LEMMA OthersKept ==
    ASSUME Hyp, NEW u \in Units, OnlyOf(u), NEW v \in Units \ {u}
    PROVE  Kept(v)
  <1>1. /\ run'[v] = run[v] /\ child'[v] = child[v] /\ life'[v] = life[v]
        /\ (v \in monitored') = (v \in monitored) /\ cancelled' = cancelled
        /\ Running(v)' = Running(v)
    BY DEF OnlyOf, Running
  <1>2. /\ \A c \in calls' : c.unit = v => c \in calls
        /\ \A c \in calls : c.unit = v => c \in calls'
        /\ \A e \in pevents' : e.unit = v => e \in pevents
        /\ \A e \in pevents : e.unit = v => e \in pevents'
        /\ \A p \in probes : p.unit = v => p \in probes'
    BY DEF OnlyOf
  <1>3. \A m : m.unit = v => (Matches(m)' <=> Matches(m))
    BY <1>1 DEF Matches
  <1>4. \A k : Awaits(v, k)' <=> Awaits(v, k)
    BY <1>1, <1>2, <1>3 DEF Awaits
  <1>5. /\ ProbeDue(v) => ProbeDue(v)'
        /\ ChildKnown(v) => ChildKnown(v)'
    BY <1>1, <1>2, <1>3 DEF ProbeDue, ChildKnown
  <1>6. UnitCustody(v)
    BY DEF Hyp
  <1>7. UnitCustody(v)'
    <2>1. ASSUME NEW c \in calls', c.unit = v
          PROVE  /\ c.life = life'[v]
                 /\ c.kind \in StartsOrStops =>
                       /\ v \in monitored' /\ run'[v].gen = c.gen
                       /\ child'[v].gen < c.gen
                       /\ \A e \in pevents' : e.unit = v => e.gen < c.gen
                 /\ c.kind = "activate" => child'[v] = NoChild
      BY <1>1, <1>2, <1>6, <2>1 DEF UnitCustody
    <2>2. \A e \in pevents' : e.unit = v => life'[v] > 0
      BY <1>1, <1>2, <1>6 DEF UnitCustody
    <2>3. ASSUME v \in monitored'
          PROVE  /\ child'[v].gen <= run'[v].gen
                 /\ \A e \in pevents' : e.unit = v => e.gen <= run'[v].gen
      BY <1>1, <1>2, <1>6, <2>3 DEF UnitCustody
    <2>4. ASSUME v \in monitored', Running(v)', ~cancelled'
          PROVE  /\ ~run'[v].busy \/ Awaits(v, "configure")'
                      => ProbeDue(v)' /\ ChildKnown(v)'
                 /\ Awaits(v, "activated")' => ChildKnown(v)'
      BY <1>1, <1>4, <1>5, <1>6, <2>4 DEF UnitCustody
    <2>5. child'[v] # NoChild =>
             v \in monitored' /\ (Running(v)' \/ run'[v].busy)
      BY <1>1, <1>6 DEF UnitCustody
    <2> QED
      BY <2>1, <2>2, <2>3, <2>4, <2>5 DEF UnitCustody
  <1>8. Stage(v)' = Stage(v)
    BY <1>1, <1>4 DEF Stage
  <1>9. Lives(v)!LifecycleStep
    BY <1>1, <1>8 DEF Lives!LifecycleStep
  <1> QED
    BY <1>7, <1>9 DEF Kept

(***************************************************************************)
(* Nothing that matters here: no call, no process, and of a unit neither   *)
(* its generation nor whether it is up or busy.  Names come and go.        *)
(***************************************************************************)
Quiet(u) ==
    /\ UNCHANGED <<child, calls>> /\ pevents' \subseteq pevents
    /\ cancelled => cancelled'
    /\ life[u] > 0 => life'[u] = life[u]
    /\ u \in monitored \cap monitored' =>
          /\ Running(u)' = Running(u) /\ run'[u].busy = run[u].busy
          /\ run'[u].gen = run[u].gen
    /\ u \in monitored' \ monitored =>
          life[u] = 0 /\ life'[u] > 0 /\ run'[u].gen = 0 /\ ~run'[u].busy /\ ~Running(u)'
    /\ u \in monitored \ monitored' => ~run[u].busy /\ ~Running(u)
    /\ u \in monitored /\ Running(u) /\ ~cancelled' =>
          /\ ProbeDue(u) => ProbeDue(u)'
          /\ ChildKnown(u) => ChildKnown(u)'

\* A quiet step keeps its unit: learned, forgotten or as it was.
LEMMA QuietKept ==
    ASSUME Hyp, NEW u \in Units, Quiet(u)
    PROVE  Kept(u)
  <1>1. UnitCustody(u) /\ TypeOK
    BY DEF Hyp, IInv
  <1>2. u \in monitored => life[u] > 0
    BY DEF Hyp, IInv, Bookkeeping, NamesUsedOnce
  <1>3. \A c \in calls : c.unit = u => life[u] > 0
    BY DEF Hyp, IInv, Bookkeeping, NamesUsedOnce
  <1>4. CASE u \in monitored /\ u \in monitored'
    <2>1. /\ Running(u)' = Running(u) /\ run'[u].busy = run[u].busy
          /\ run'[u].gen = run[u].gen /\ life'[u] = life[u]
          /\ child' = child /\ calls' = calls /\ pevents' \subseteq pevents
      BY <1>2, <1>4 DEF Quiet
    <2>2. \A m : m.unit = u => (Matches(m)' <=> Matches(m))
      BY <1>4, <2>1 DEF Matches
    <2>3. \A k : Awaits(u, k)' <=> Awaits(u, k)
      BY <2>1, <2>2 DEF Awaits
    <2>4. UnitCustody(u)'
      BY <1>1, <1>4, <2>1, <2>3 DEF UnitCustody, Quiet
    <2>5. cancelled' = cancelled => Stage(u)' = Stage(u)
      BY <1>4, <2>1, <2>3 DEF Stage
    <2>6. Lives(u)!LifecycleStep
      <3>1. CASE cancelled'
        BY <3>1 DEF Lives!LifecycleStep, Lives!LifecycleNext, Lives!Abandon, Stage
      <3>2. CASE ~cancelled'
        BY <2>1, <2>5, <3>2 DEF Lives!LifecycleStep, Quiet, Hyp, IInv, TypeOK
      <3> QED
        BY <3>1, <3>2
    <2> QED
      BY <2>4, <2>6 DEF Kept
  <1>5. CASE u \notin monitored /\ u \in monitored'
    <2>1. /\ life[u] = 0 /\ life'[u] > 0 /\ run'[u].gen = 0 /\ ~run'[u].busy
          /\ ~Running(u)' /\ child' = child /\ calls' = calls /\ pevents' \subseteq pevents
      BY <1>5 DEF Quiet
    <2>2. child[u] = NoChild /\ \A c \in calls : c.unit # u
      BY <1>1, <1>3, <1>5, <2>1 DEF UnitCustody
    <2>3. \A e \in pevents : e.unit # u
      BY <1>1, <2>1 DEF UnitCustody
    <2>4. UnitCustody(u)'
      BY <1>5, <2>1, <2>2, <2>3 DEF UnitCustody, NoChild
    <2>5. Lives(u)!LifecycleStep
      <3>1. CASE cancelled'
        BY <3>1 DEF Lives!LifecycleStep, Lives!LifecycleNext, Lives!Abandon, Stage
      <3>2. CASE ~cancelled'
        <4>1. Stage(u) = "unknown"
          BY <1>5, <3>2 DEF Stage, Quiet
        <4>2. ~Awaits(u, "activate")' /\ ~Awaits(u, "deactivate")'
          BY <2>1 DEF Awaits
        <4>3. Stage(u)' = "down"
          BY <1>5, <2>1, <3>2, <4>2 DEF Stage
        <4> QED
          BY <2>1, <4>1, <4>3
          DEF Lives!LifecycleStep, Lives!LifecycleNext, Lives!Learn
      <3> QED
        BY <3>1, <3>2
    <2> QED
      BY <2>4, <2>5 DEF Kept
  <1>6. CASE u \in monitored /\ u \notin monitored'
    <2>1. /\ ~run[u].busy /\ ~Running(u) /\ life'[u] = life[u]
          /\ child' = child /\ calls' = calls /\ pevents' \subseteq pevents
      BY <1>2, <1>6 DEF Quiet
    <2>2. child[u] = NoChild
      BY <1>1, <2>1 DEF UnitCustody
    <2>3. \A c \in calls : c.unit = u => c.kind \notin StartsOrStops
      <3>1. ASSUME NEW c \in calls, c.unit = u, c.kind \in StartsOrStops PROVE FALSE
        <4>1. Matches(c)
          BY <1>1, <3>1 DEF UnitCustody, Matches
        <4> QED
          BY <2>1, <3>1, <4>1, Matching DEF Hyp
      <3> QED
        BY <3>1
    <2>4. UnitCustody(u)'
      BY <1>1, <1>6, <2>1, <2>2, <2>3 DEF UnitCustody, StartsOrStops
    <2>5. Lives(u)!LifecycleStep
      <3>1. CASE cancelled'
        BY <3>1 DEF Lives!LifecycleStep, Lives!LifecycleNext, Lives!Abandon, Stage
      <3>2. CASE ~cancelled'
        <4>1. ~Awaits(u, "activate") /\ ~Awaits(u, "deactivate") /\ ~cancelled
          BY <2>1, <3>2 DEF Awaits, Quiet
        <4>2. Stage(u) = "down" /\ Stage(u)' = "unknown"
          BY <1>6, <2>1, <3>2, <4>1 DEF Stage
        <4> QED
          BY <2>1, <2>2, <4>2
          DEF Lives!LifecycleStep, Lives!LifecycleNext, Lives!Forget
      <3> QED
        BY <3>1, <3>2
    <2> QED
      BY <2>4, <2>5 DEF Kept
  <1>7. CASE u \notin monitored /\ u \notin monitored'
    <2>1. /\ child' = child /\ calls' = calls /\ pevents' \subseteq pevents
          /\ child[u] = NoChild
          /\ life[u] > 0 => life'[u] = life[u]
      BY <1>1, <1>7 DEF Quiet, UnitCustody
    <2>2. UnitCustody(u)'
      BY <1>1, <1>3, <1>7, <2>1 DEF UnitCustody
    <2>3. Lives(u)!LifecycleStep
      <3>1. CASE cancelled'
        BY <3>1 DEF Lives!LifecycleStep, Lives!LifecycleNext, Lives!Abandon, Stage
      <3>2. CASE ~cancelled'
        <4>1. Stage(u)' = Stage(u)
          BY <1>7, <3>2 DEF Stage, Quiet
        <4> QED
          BY <2>1, <4>1 DEF Lives!LifecycleStep
      <3> QED
        BY <3>1, <3>2
    <2> QED
      BY <2>2, <2>3 DEF Kept
  <1> QED
    BY <1>4, <1>5, <1>6, <1>7

(***************************************************************************)
(* A start and a stop: a new generation with its one call in flight.       *)
(***************************************************************************)
NewCall(kind, u, then) == [kind |-> kind, unit |-> u, via |-> decl[u].provider,
                           life |-> life[u], gen |-> run'[u].gen, then |-> then]

\* The unit waits for the call of its new generation and for no other.
Opens(u, kind) ==
    /\ OnlyOf(u) /\ u \in monitored /\ pevents' \subseteq pevents
    /\ run'[u].gen = run[u].gen + 1 /\ run'[u].busy
    /\ \E rest, then :
          /\ rest \in SUBSET calls
          /\ calls' = rest \cup {NewCall(kind, u, then)}
          /\ \A c \in rest : c.unit = u => c.kind \notin StartsOrStops

\* What every new generation owes, whichever call opens it.
LEMMA OpensAwaits ==
    ASSUME Hyp, NEW u \in Units, NEW kind \in StartsOrStops, Opens(u, kind)
    PROVE  /\ u \in monitored' /\ life'[u] = life[u] /\ cancelled' = cancelled
           /\ \A k : Awaits(u, k)' <=> k = kind
           /\ \A e \in pevents' : e.unit = u => e.gen <= run[u].gen
           /\ \A c \in calls' : c.unit = u =>
                 /\ c.life = life'[u]
                 /\ c.kind \in StartsOrStops => c.kind = kind /\ c.gen = run[u].gen + 1
  <1>1. /\ u \in monitored' /\ u \in monitored /\ life'[u] = life[u]
        /\ cancelled' = cancelled /\ run'[u].gen = run[u].gen + 1
        /\ run'[u].busy /\ pevents' \subseteq pevents /\ UnitCustody(u)
    BY DEF Opens, OnlyOf, Hyp
  <1>2a. PICK rest \in SUBSET calls :
            \E then :
               /\ calls' = rest \cup {NewCall(kind, u, then)}
               /\ \A c \in rest : c.unit = u => c.kind \notin StartsOrStops
    BY DEF Opens
  <1>2. PICK then :
           /\ calls' = rest \cup {NewCall(kind, u, then)}
           /\ \A c \in rest : c.unit = u => c.kind \notin StartsOrStops
    BY <1>2a
  <1>3. PICK new :
           /\ new = NewCall(kind, u, then)
           /\ new.unit = u /\ new.life = life[u] /\ new.gen = run[u].gen + 1
           /\ new.kind = kind
    <2> DEFINE m == NewCall(kind, u, then)
    <2>1. /\ m.unit = u /\ m.life = life[u] /\ m.gen = run[u].gen + 1
          /\ m.kind = kind
      BY <1>1 DEF NewCall
    <2> HIDE DEF m
    <2> QED
      BY <2>1 DEF m
  <1>4. \A c \in rest : c.unit = u => c.gen \in Nat /\ c.gen <= run[u].gen /\ c.life = life[u]
    BY <1>1, UnitNumbers DEF Hyp, IInv, Bookkeeping, OneCurrentCall, UnitCustody
  <1>5. run[u].gen \in Nat
    BY UnitNumbers DEF Hyp, IInv
  <1>6. \A c \in calls' : c.unit = u /\ Matches(c)' => c = new
    BY <1>1, <1>2, <1>3, <1>4, <1>5 DEF Matches
  <1>7. new \in calls' /\ Matches(new)'
    BY <1>1, <1>2, <1>3 DEF Matches
  <1>8. ASSUME NEW k PROVE Awaits(u, k)' <=> k = kind
    <2>1. Awaits(u, k)' => k = kind
      BY <1>3, <1>6 DEF Awaits
    <2>2. Awaits(u, kind)'
      BY <1>1, <1>3, <1>7 DEF Awaits
    <2> QED
      BY <2>1, <2>2
  <1>9. \A e \in pevents' : e.unit = u => e.gen <= run[u].gen
    BY <1>1 DEF UnitCustody
  <1>10. \A c \in calls' : c.unit = u =>
            /\ c.life = life'[u]
            /\ c.kind \in StartsOrStops => c.kind = kind /\ c.gen = run[u].gen + 1
    BY <1>1, <1>2, <1>3, <1>4
  <1> QED
    BY <1>1, <1>8, <1>9, <1>10

\* A start: of a wanted unit that is down, or has just been stopped.
Starts(u) ==
    /\ Opens(u, "activate") /\ Running(u)'
    /\ WantUp(u) /\ ~run[u].latched
    /\ child'[u] = NoChild
    /\ \/ ~Running(u) /\ ~run[u].busy /\ child'[u] = child[u]
       \/ Awaits(u, "deactivate") /\ ~Awaits(u, "activate")

\* A start keeps its unit, which goes from down, or from stopping, to starting.
LEMMA StartKept == ASSUME Hyp, NEW u \in Units, Starts(u) PROVE Kept(u)
  <1>1. /\ Opens(u, "activate") /\ child'[u] = NoChild /\ u \in monitored
        /\ run'[u].gen = run[u].gen + 1 /\ run'[u].busy
    BY DEF Starts, Opens
  <1>2. /\ u \in monitored' /\ life'[u] = life[u] /\ cancelled' = cancelled
        /\ \A k : Awaits(u, k)' <=> k = "activate"
        /\ \A e \in pevents' : e.unit = u => e.gen <= run[u].gen
        /\ \A c \in calls' : c.unit = u =>
              /\ c.life = life'[u]
              /\ c.kind \in StartsOrStops => c.gen = run[u].gen + 1
    BY <1>1, OpensAwaits DEF StartsOrStops
  <1>3. /\ run[u].gen \in Nat /\ NoChild.gen = 0
        /\ \A e \in pevents' : e.gen \in Nat
    <2>1. TypeOK' /\ TypeOK
      BY DEF Hyp, IInv
    <2>2. \A e \in pevents' : e.gen \in Nat
      BY <2>1 DEF TypeOK, ProviderEvent
    <2> QED
      BY <2>1, <2>2, UnitNumbers DEF Hyp
  <1>4. \A e \in pevents' : e.unit = u => life'[u] > 0
    BY <1>1, <1>2 DEF Hyp, IInv, Bookkeeping, NamesUsedOnce
  <1>5. UnitCustody(u)'
    <2>1. ASSUME NEW c \in calls', c.unit = u
          PROVE  /\ c.life = life'[u]
                 /\ c.kind \in StartsOrStops =>
                       /\ u \in monitored' /\ run'[u].gen = c.gen
                       /\ child'[u].gen < c.gen
                       /\ \A e \in pevents' : e.unit = u => e.gen < c.gen
                 /\ c.kind = "activate" => child'[u] = NoChild
      BY <1>1, <1>2, <1>3, <2>1
    <2>2. /\ child'[u].gen <= run'[u].gen
          /\ \A e \in pevents' : e.unit = u => e.gen <= run'[u].gen
      BY <1>1, <1>2, <1>3
    <2> QED
      BY <1>1, <1>2, <1>4, <2>1, <2>2 DEF UnitCustody
  <1>6. CASE cancelled
    BY <1>2, <1>5, <1>6
    DEF Kept, Lives!LifecycleStep, Lives!LifecycleNext, Lives!Abandon, Stage
  <1>7. CASE ~cancelled
    <2>1. Stage(u)' = "starting"
      BY <1>2, <1>7 DEF Stage
    <2>2. \/ Stage(u) = "down" /\ child'[u] = child[u]
          \/ Stage(u) = "stopping"
      BY <1>1, <1>7 DEF Stage, Starts, Awaits
    <2>3. WantUp(u) /\ ~run[u].latched
      BY DEF Starts
    <2> QED
      BY <1>1, <1>5, <2>1, <2>2, <2>3
      DEF Kept, Lives!LifecycleStep, Lives!LifecycleNext, Lives!Ask, Lives!Stopped
  <1> QED
    BY <1>6, <1>7

\* A stop: of a unit that is up and neither being started nor stopped.
Stops(u) ==
    /\ Opens(u, "deactivate") /\ Running(u) /\ child'[u] = child[u]
    /\ ~Awaits(u, "activate") /\ ~Awaits(u, "deactivate")

\* A stop keeps its unit, which goes from up to stopping.
LEMMA StopKept == ASSUME Hyp, NEW u \in Units, Stops(u) PROVE Kept(u)
  <1>1. /\ Opens(u, "deactivate") /\ child'[u] = child[u] /\ u \in monitored
        /\ run'[u].gen = run[u].gen + 1 /\ run'[u].busy /\ Running(u)
    BY DEF Stops, Opens
  <1>2. /\ u \in monitored' /\ life'[u] = life[u] /\ cancelled' = cancelled
        /\ \A k : Awaits(u, k)' <=> k = "deactivate"
        /\ \A e \in pevents' : e.unit = u => e.gen <= run[u].gen
        /\ \A c \in calls' : c.unit = u =>
              /\ c.life = life'[u]
              /\ c.kind \in StartsOrStops => c.kind = "deactivate" /\ c.gen = run[u].gen + 1
    BY <1>1, OpensAwaits DEF StartsOrStops
  <1>3. /\ run[u].gen \in Nat /\ child[u].gen \in Nat /\ child[u].gen <= run[u].gen
        /\ \A e \in pevents' : e.gen \in Nat
    <2>1. TypeOK' /\ TypeOK
      BY DEF Hyp, IInv
    <2>2. \A e \in pevents' : e.gen \in Nat
      BY <2>1 DEF TypeOK, ProviderEvent
    <2> QED
      BY <1>1, <2>1, <2>2, UnitNumbers DEF Hyp, UnitCustody
  <1>4. \A e \in pevents' : e.unit = u => life'[u] > 0
    BY <1>1, <1>2 DEF Hyp, IInv, Bookkeeping, NamesUsedOnce
  <1>5. UnitCustody(u)'
    <2>1. ASSUME NEW c \in calls', c.unit = u
          PROVE  /\ c.life = life'[u]
                 /\ c.kind \in StartsOrStops =>
                       /\ u \in monitored' /\ run'[u].gen = c.gen
                       /\ child'[u].gen < c.gen
                       /\ \A e \in pevents' : e.unit = u => e.gen < c.gen
                 /\ c.kind # "activate"
      BY <1>1, <1>2, <1>3, <2>1 DEF StartsOrStops
    <2>2. /\ child'[u].gen <= run'[u].gen
          /\ \A e \in pevents' : e.unit = u => e.gen <= run'[u].gen
      BY <1>1, <1>2, <1>3
    <2> QED
      BY <1>1, <1>2, <1>4, <2>1, <2>2 DEF UnitCustody
  <1>6. CASE cancelled
    BY <1>2, <1>5, <1>6
    DEF Kept, Lives!LifecycleStep, Lives!LifecycleNext, Lives!Abandon, Stage
  <1>7. CASE ~cancelled
    <2>1. Stage(u)' = "stopping" /\ Stage(u) = "up"
      BY <1>1, <1>2, <1>7 DEF Stage, Stops
    <2> QED
      BY <1>1, <1>5, <2>1
      DEF Kept, Lives!LifecycleStep, Lives!LifecycleNext, Lives!AskStop
  <1> QED
    BY <1>6, <1>7

(***************************************************************************)
(* A configuration and the answers.                                        *)
(***************************************************************************)
\* A live configuration of a unit that is up and idle is asked for.
Configures(u) ==
    /\ OnlyOf(u) /\ UNCHANGED <<child, probes, pevents>> /\ u \in monitored
    /\ Running(u) /\ Running(u)' /\ ~run[u].busy /\ run'[u].busy
    /\ run'[u].gen = run[u].gen
    /\ \E c : /\ calls' = calls \cup {c} /\ c.unit = u
              /\ c.life = life[u] /\ c.kind = "configure"

\* A live configuration leaves its unit up, with its probe and its process.
LEMMA ConfigureKept == ASSUME Hyp, NEW u \in Units, Configures(u) PROVE Kept(u)
  <1>1. /\ u \in monitored /\ u \in monitored' /\ life' = life /\ cancelled' = cancelled
        /\ Running(u) /\ Running(u)' /\ ~run[u].busy /\ run'[u].busy
        /\ run'[u].gen = run[u].gen /\ child' = child /\ probes' = probes
        /\ pevents' = pevents /\ UnitCustody(u)
    BY DEF Configures, OnlyOf, Hyp
  <1>2. PICK new : /\ calls' = calls \cup {new} /\ new.unit = u
                   /\ new.life = life[u] /\ new.kind = "configure"
    BY DEF Configures
  <1>3. \A m : m.unit = u => (Matches(m)' <=> Matches(m))
    BY <1>1 DEF Matches
  <1>4. \A c \in calls : c.unit = u => ~Matches(c)
    BY <1>1, Matching DEF Hyp
  <1>5. ~Awaits(u, "activate")' /\ ~Awaits(u, "deactivate")' /\ ~Awaits(u, "activated")'
    BY <1>2, <1>3, <1>4 DEF Awaits
  <1>6. ASSUME ~cancelled PROVE ProbeDue(u)' /\ ChildKnown(u)'
    <2>1. ProbeDue(u) /\ ChildKnown(u)
      BY <1>1, <1>6 DEF UnitCustody
    <2> QED
      BY <1>1, <1>3, <2>1 DEF ProbeDue, ChildKnown
  <1>7. UnitCustody(u)'
    BY <1>1, <1>2, <1>5, <1>6 DEF UnitCustody, StartsOrStops
  <1>8. Stage(u)' = Stage(u)
    BY <1>1, <1>5 DEF Stage, Awaits
  <1> QED
    BY <1>1, <1>7, <1>8 DEF Kept, Lives!LifecycleStep

\* The answer of a unit that is up finds its unit and leaves it up.
UpAnswered(c) ==
    /\ OnlyOf(c.unit) /\ Matches(c) /\ c.kind \in {"activated", "configure"}
    /\ UNCHANGED <<child, pevents>> /\ probes \subseteq probes'
    /\ calls' = calls \ {c}
    /\ Running(c.unit)' /\ ~run'[c.unit].busy
    /\ run'[c.unit].gen = run[c.unit].gen
    /\ c.kind = "activated" => \E p \in probes' : p.unit = c.unit /\ p.gen = c.gen

\* Such an answer keeps its unit: up, probed and with its process known.
LEMMA UpAnswerKept ==
    ASSUME Hyp, NEW c \in calls, UpAnswered(c)
    PROVE  Kept(c.unit)
  <1> DEFINE u == c.unit
  <1>1. /\ u \in monitored /\ u \in monitored' /\ life' = life /\ cancelled' = cancelled
        /\ Running(u) /\ Running(u)' /\ ~run'[u].busy /\ u \in Units
        /\ run'[u].gen = run[u].gen /\ run[u].gen = c.gen
        /\ child' = child /\ probes \subseteq probes'
        /\ pevents' = pevents /\ UnitCustody(u) /\ calls' = calls \ {c}
        /\ c.kind \in {"activated", "configure"}
        /\ \A k : Awaits(u, k) <=> k = c.kind
    BY Matching DEF UpAnswered, OnlyOf, Hyp
  <1> HIDE DEF u
  <1>2. \A m : m.unit = u => (Matches(m)' <=> Matches(m))
    BY <1>1 DEF Matches
  <1>3. ASSUME ~cancelled PROVE ChildKnown(u)'
    <2>1. ChildKnown(u)
      BY <1>1, <1>3 DEF UnitCustody
    <2> QED
      BY <1>1, <1>2, <2>1 DEF ChildKnown
  <1>4. ASSUME ~cancelled PROVE ProbeDue(u)'
    <2>1. CASE c.kind = "activated"
      <3>1. PICK p \in probes' : p.unit = u /\ p.gen = c.gen
        BY <2>1 DEF UpAnswered, u
      <3>2. Matches(p)'
        BY <1>1, <3>1 DEF Matches
      <3> QED
        BY <3>1, <3>2 DEF ProbeDue
    <2>2. CASE c.kind = "configure"
      <3>1. ProbeDue(u)
        BY <1>1, <1>4, <2>2 DEF UnitCustody
      <3> QED
        BY <1>1, <1>2, <3>1 DEF ProbeDue
    <2> QED
      BY <1>1, <2>1, <2>2
  <1>5. UnitCustody(u)'
    BY <1>1, <1>3, <1>4 DEF UnitCustody, StartsOrStops
  <1>6. Stage(u)' = Stage(u)
    BY <1>1 DEF Stage, Awaits
  <1> QED
    BY <1>1, <1>5, <1>6 DEF Kept, Lives!LifecycleStep, u

\* The answer that leaves its unit down: a start refused, a stop done.
DownAnswered(c) ==
    /\ OnlyOf(c.unit) /\ Matches(c) /\ c.kind \in StartsOrStops
    /\ UNCHANGED <<probes, pevents>> /\ calls' = calls \ {c}
    /\ ~Running(c.unit)' /\ ~run'[c.unit].busy
    /\ run'[c.unit].gen = run[c.unit].gen
    /\ child'[c.unit] = IF c.kind = "deactivate" THEN NoChild ELSE child[c.unit]

\* Such an answer keeps its unit, of which no process and no call is left.
LEMMA DownAnswerKept ==
    ASSUME Hyp, NEW c \in calls, DownAnswered(c)
    PROVE  Kept(c.unit)
  <1> DEFINE u == c.unit
  <1>1. /\ u \in monitored /\ u \in monitored' /\ life' = life /\ cancelled' = cancelled
        /\ ~Running(u)' /\ ~run'[u].busy /\ u \in Units
        /\ run'[u].gen = run[u].gen
        /\ pevents' = pevents /\ UnitCustody(u) /\ calls' = calls \ {c}
        /\ c.kind \in StartsOrStops
        /\ \A k : Awaits(u, k) <=> k = c.kind
        /\ \A d \in calls : d.unit = u /\ Matches(d) => d = c
    BY Matching DEF DownAnswered, OnlyOf, Hyp
  <1>2. child'[u] = NoChild /\ (c.kind = "activate" => child[u] = NoChild)
    BY <1>1 DEF DownAnswered, StartsOrStops, UnitCustody
  <1> HIDE DEF u
  <1>3. \A d \in calls' : d.unit = u => d.kind \notin StartsOrStops
    BY <1>1 DEF UnitCustody, Matches
  <1>4. UnitCustody(u)'
    <2>1. run[u].gen \in Nat /\ NoChild.gen = 0
      BY <1>1, UnitNumbers DEF Hyp, IInv
    <2> QED
      BY <1>1, <1>2, <1>3, <2>1 DEF UnitCustody, StartsOrStops
  <1>5. CASE cancelled
    BY <1>1, <1>4, <1>5
    DEF Kept, Lives!LifecycleStep, Lives!LifecycleNext, Lives!Abandon, Stage, u
  <1>6. CASE ~cancelled
    <2>1. Stage(u)' = "down"
      BY <1>1, <1>6 DEF Stage, Awaits
    <2>2. \/ c.kind = "activate" /\ Stage(u) = "starting"
          \/ c.kind = "deactivate" /\ Stage(u) = "stopping"
      BY <1>1, <1>6 DEF Stage, StartsOrStops
    <2>3. Lives(u)!LifecycleStep
      BY <1>2, <2>1, <2>2
      DEF Lives!LifecycleStep, Lives!LifecycleNext, Lives!Refused, Lives!Stopped
    <2> QED
      BY <1>4, <2>3 DEF Kept, u
  <1> QED
    BY <1>5, <1>6

(***************************************************************************)
(* Away from the loop: a process starts, an answer is dropped, a process   *)
(* is reported.                                                            *)
(***************************************************************************)
\* A call goes to its unit's home, and what it sets there is the child.
LEMMA CallAtHome ==
    ASSUME Hyp, NEW c \in calls
    PROVE  /\ c.unit \in Units
           /\ \A x : SetChild(c.unit, c.via, x)
                       => child' = [child EXCEPT ![c.unit] = x]
  <1>1. c.unit \in Units /\ TypeOK
    BY DEF Hyp, IInv, TypeOK, Call
  <1>2. c.via = Home(c.unit) /\ Home(c.unit) \in Providers
    BY <1>1, ChildIs DEF Hyp, AtHome
  <1> QED
    BY <1>1, <1>2, ChildSet

\* The provider has started the process it was asked for.
LEMMA SpawnKept ==
    ASSUME Hyp, NEW c \in calls, ProviderStarts(c)
    PROVE  OnlyOf(c.unit) /\ Kept(c.unit)
  <1> DEFINE u == c.unit
  <1>1. PICK done : done = [c EXCEPT !.kind = "activated"]
    OBVIOUS
  <1>2. c \in Call /\ child \in [Units -> [life : Nat, gen : Nat]]
    BY ChildIs DEF Hyp, IInv, TypeOK
  <1>3. /\ done.unit = u /\ done.gen = c.gen /\ done.life = c.life
        /\ done.kind = "activated" /\ u \in Units /\ c.gen \in Nat
    BY <1>1, <1>2 DEF Call
  <1>4. /\ UNCHANGED <<run, monitored, life, cancelled, probes, pevents>>
        /\ calls' = (calls \ {c}) \cup {done} /\ c.kind = "activate"
        /\ child' = [child EXCEPT ![u] = [life |-> c.life, gen |-> c.gen]]
        /\ child[u] = NoChild
    <2>1. /\ UNCHANGED <<run, monitored, life, cancelled, probes, pevents>>
          /\ calls' = (calls \ {c}) \cup {done} /\ c.kind = "activate"
          /\ SetChild(c.unit, c.via, [life |-> c.life, gen |-> c.gen])
      BY <1>1 DEF ProviderStarts, decls, shutdown
    <2>2. UnitCustody(u)
      BY <1>3 DEF Hyp
    <2> QED
      BY <2>1, <2>2, CallAtHome DEF UnitCustody
  <1>5. UnitCustody(u) /\ life[u] > 0
    BY <1>3 DEF Hyp, IInv, Bookkeeping, NamesUsedOnce
  <1>6. /\ c.gen = run[u].gen /\ c.life = life[u] /\ u \in monitored
        /\ \A e \in pevents : e.unit = u => e.gen < c.gen
    BY <1>4, <1>5 DEF UnitCustody, StartsOrStops
  <1>7. Matches(c) /\ Running(u)
    BY <1>4, <1>6, Matching DEF Matches, Hyp
  <1>8. OnlyOf(u)
    BY <1>2, <1>3, <1>4 DEF OnlyOf
  <1>9. /\ \A k : Awaits(u, k) <=> k = "activate"
        /\ \A d \in calls : d.unit = u /\ Matches(d) => d = c
        /\ run[u].busy
    BY <1>4, <1>7, Matching DEF Hyp
  <1> HIDE DEF u
  <1>10. \A m : Matches(m)' <=> Matches(m)
    BY <1>4 DEF Matches
  <1>11. Matches(done)'
    BY <1>3, <1>4, <1>6 DEF Matches
  <1>12. \A k : Awaits(u, k)' <=> k = "activated"
    <2>1. ASSUME NEW k, Awaits(u, k)' PROVE k = "activated"
      BY <1>3, <1>4, <1>9, <1>10, <2>1 DEF Awaits
    <2>2. Awaits(u, "activated")'
      BY <1>3, <1>4, <1>9, <1>11 DEF Awaits
    <2> QED
      BY <2>1, <2>2
  <1>13. child'[u] = [life |-> life[u], gen |-> run[u].gen] /\ child'[u].gen = run[u].gen
    BY <1>2, <1>3, <1>4, <1>6
  <1>14. UnitCustody(u)'
    <2>1. \A d \in calls' : d.unit = u => d.life = life[u] /\ d.kind \notin StartsOrStops
      BY <1>3, <1>4, <1>5, <1>6, <1>9 DEF UnitCustody, Matches, StartsOrStops
    <2>2. ChildKnown(u)'
      BY <1>4, <1>13 DEF ChildKnown
    <2>3. run[u].gen \in Nat
      BY <1>3, <1>6
    <2> QED
      BY <1>4, <1>5, <1>6, <1>9, <1>12, <1>13, <2>1, <2>2, <2>3
      DEF UnitCustody, StartsOrStops
  <1>15. CASE cancelled
    BY <1>4, <1>8, <1>14, <1>15
    DEF Kept, Lives!LifecycleStep, Lives!LifecycleNext, Lives!Abandon, Stage, u
  <1>16. CASE ~cancelled
    <2>1. Stage(u) = "starting" /\ Stage(u)' = "up"
      BY <1>4, <1>6, <1>9, <1>12, <1>16 DEF Stage
    <2>2. child'[u] # NoChild
      BY <1>5, <1>13 DEF NoChild
    <2> QED
      BY <1>4, <1>8, <1>14, <2>1, <2>2
      DEF Kept, Lives!LifecycleStep, Lives!LifecycleNext, Lives!Spawn, u
  <1> QED
    BY <1>15, <1>16

\* An answer is dropped: late, or after a second signal.
LEMMA DropKept ==
    ASSUME Hyp, NEW c \in calls, OnStaleAnswer(c) \/ LoseAnswer(c)
    PROVE  OnlyOf(c.unit) /\ Kept(c.unit)
  <1> DEFINE u == c.unit
  <1>1. /\ UNCHANGED <<run, monitored, life, cancelled, probes, pevents>>
        /\ calls' = calls \ {c} /\ (cancelled \/ ~Matches(c))
        /\ child' = IF c.kind = "deactivate" THEN [child EXCEPT ![u] = NoChild] ELSE child
    <2>1. DoneUnheard(c)
      BY DEF OnStaleAnswer, LoseAnswer
    <2>2. child' = IF c.kind = "deactivate" THEN [child EXCEPT ![u] = NoChild] ELSE child
      BY <2>1, CallAtHome, ChildSame DEF DoneUnheard
    <2> QED
      BY <2>2 DEF OnStaleAnswer, LoseAnswer, LosePost, decls, shutdown
  <1>2. u \in Units /\ child \in [Units -> [life : Nat, gen : Nat]] /\ UnitCustody(u)
    BY CallAtHome, ChildIs DEF Hyp, IInv
  <1>3. /\ OnlyOf(u) /\ (child'[u] = child[u] \/ child'[u] = NoChild)
        /\ c.kind # "deactivate" => child' = child
    BY <1>1, <1>2 DEF OnlyOf
  <1> HIDE DEF u
  <1>4. \A m : Matches(m)' <=> Matches(m)
    BY <1>1 DEF Matches
  <1>5. /\ \A k : Awaits(u, k)' => Awaits(u, k)
        /\ ProbeDue(u)' <=> ProbeDue(u)
        /\ child' = child /\ ChildKnown(u) => ChildKnown(u)'
    BY <1>1, <1>4 DEF Awaits, ProbeDue, ChildKnown
  <1>6. /\ run[u].gen \in Nat /\ NoChild.gen = 0 /\ child[u].gen \in Nat
        /\ \A d \in calls : d.gen \in Nat
    BY <1>2, UnitNumbers DEF Hyp, IInv
  <1>7. ASSUME u \in monitored, Running(u), ~run[u].busy \/ Awaits(u, "configure")
               \/ Awaits(u, "activated")
        PROVE  child' = child
    <2>1. CASE c.kind # "deactivate"
      BY <1>3, <2>1
    <2>2. CASE c.kind = "deactivate"
      <3>1. Matches(c)
        BY <1>2, <2>2 DEF UnitCustody, StartsOrStops, Matches, u
      <3>2. run[u].busy /\ ~Awaits(u, "configure") /\ ~Awaits(u, "activated")
        BY <2>2, <3>1, Matching DEF Hyp, u
      <3> QED
        BY <1>7, <3>2
    <2> QED
      BY <2>1, <2>2
  <1>8. UnitCustody(u)'
    <2>1. ASSUME NEW d \in calls', d.unit = u
          PROVE  /\ d.life = life'[u]
                 /\ d.kind \in StartsOrStops =>
                       /\ u \in monitored' /\ run'[u].gen = d.gen
                       /\ child'[u].gen < d.gen
                       /\ \A e \in pevents' : e.unit = u => e.gen < d.gen
                 /\ d.kind = "activate" => child'[u] = NoChild
      BY <1>1, <1>2, <1>3, <1>6, <2>1 DEF UnitCustody
    <2>2. ASSUME u \in monitored'
          PROVE  /\ child'[u].gen <= run'[u].gen
                 /\ \A e \in pevents' : e.unit = u => e.gen <= run'[u].gen
      BY <1>1, <1>2, <1>3, <1>6, <2>2 DEF UnitCustody
    <2>3. Running(u)' = Running(u)
      BY <1>1 DEF Running
    <2>4. ASSUME u \in monitored', Running(u)', ~cancelled'
          PROVE  /\ ~run'[u].busy \/ Awaits(u, "configure")'
                       => ProbeDue(u)' /\ ChildKnown(u)'
                 /\ Awaits(u, "activated")' => ChildKnown(u)'
      BY <1>1, <1>2, <1>5, <1>7, <2>3, <2>4 DEF UnitCustody
    <2>5. child'[u] # NoChild => u \in monitored' /\ (Running(u)' \/ run'[u].busy)
      BY <1>1, <1>2, <1>3, <2>3 DEF UnitCustody
    <2>6. \A e \in pevents' : e.unit = u => life'[u] > 0
      BY <1>1, <1>2 DEF UnitCustody
    <2> QED
      BY <2>1, <2>2, <2>4, <2>5, <2>6 DEF UnitCustody
  <1>9. CASE cancelled
    BY <1>1, <1>3, <1>8, <1>9
    DEF Kept, Lives!LifecycleStep, Lives!LifecycleNext, Lives!Abandon, Stage, u
  <1>10. CASE ~cancelled
    <2>1. ~Matches(c) /\ c.kind \notin StartsOrStops
      BY <1>1, <1>2, <1>10 DEF UnitCustody, Matches, u
    <2>2. child' = child
      BY <1>3, <2>1 DEF StartsOrStops
    <2>3. \A k : Awaits(u, k)' <=> Awaits(u, k)
      BY <1>1, <1>4, <2>1 DEF Awaits
    <2>4. Stage(u)' = Stage(u)
      BY <1>1, <2>3 DEF Stage, Running
    <2> QED
      BY <1>3, <1>8, <2>2, <2>4 DEF Kept, Lives!LifecycleStep, u
  <1> QED
    BY <1>9, <1>10

\* A process ends, or its owner speaks of it: the report is of its generation.
LEMMA ReportKept ==
    ASSUME Hyp, NEW u \in Units,
           \/ \E code \in {"exit0", "exit1"} : ChildExits(u, code)
           \/ \E to \in {"up", "exit1"} : OwnerReports(u, to)
    PROVE  OnlyOf(u) /\ Kept(u)
  <1>1. PICK to \in {"up", "exit0", "exit1"} :
           /\ UNCHANGED <<run, monitored, life, cancelled, probes, calls>>
           /\ child[u] # NoChild
           /\ \E k \in Providers : prov[u][k] = child[u] /\ EmitEvent(u, k, to)
           /\ \/ child' = [child EXCEPT ![u] = NoChild] /\ to # "up"
              \/ child' = child
    <2>1. /\ \A k \in Providers : prov[u][k] = child[u] \/ prov[u][k] = NoChild
          /\ Home(u) \in Providers /\ child[u] = prov[u][Home(u)] /\ TypeOK
          /\ \A k \in Providers : k # Home(u) => prov[u][k] = NoChild
      BY ChildIs DEF Hyp, IInv, AtHome
    <2>2. "process" \in Providers /\ "internal" \in Providers
      BY DEF Providers
    <2>3. CASE \E code \in {"exit0", "exit1"} : ChildExits(u, code)
      <3>1. PICK code \in {"exit0", "exit1"} : ChildExits(u, code)
        BY <2>3
      <3>2. prov[u]["process"] # NoChild /\ SetChild(u, "process", NoChild)
        BY <3>1 DEF ChildExits
      <3>3. child' = [child EXCEPT ![u] = NoChild]
        BY <2>1, <2>2, <3>2, ChildSet
      <3> QED
        BY <2>1, <2>2, <3>1, <3>2, <3>3 DEF ChildExits, decls, shutdown
    <2>4. CASE \E to \in {"up", "exit1"} : OwnerReports(u, to)
      BY <2>1, <2>2, <2>4, ChildSame DEF OwnerReports, decls, shutdown
    <2> QED
      BY <2>3, <2>4
  <1>2. PICK e : /\ e.unit = u /\ e.gen = child[u].gen /\ e.to = to
                 /\ pevents' = pevents \cup {e}
    <2>1. PICK k \in Providers : prov[u][k] = child[u] /\ EmitEvent(u, k, to)
      BY <1>1
    <2> DEFINE e == [unit |-> u, via |-> k, life |-> prov[u][k].life,
                     gen |-> prov[u][k].gen, to |-> to]
    <2>2. /\ e.unit = u /\ e.gen = child[u].gen /\ e.to = to
          /\ pevents' = pevents \cup {e}
      BY <2>1 DEF EmitEvent
    <2> HIDE DEF e
    <2> QED
      BY <2>2
  <1>3. /\ e.unit = u /\ e.gen = child[u].gen /\ e.to = to
        /\ pevents' = pevents \cup {e}
    BY <1>2
  <1>4. child \in [Units -> [life : Nat, gen : Nat]] /\ UnitCustody(u)
    BY ChildIs DEF Hyp, IInv
  <1>5. /\ OnlyOf(u) /\ (child'[u] = child[u] \/ child'[u] = NoChild)
    BY <1>1, <1>3, <1>4 DEF OnlyOf
  <1>6. /\ run[u].gen \in Nat /\ NoChild.gen = 0 /\ child[u].gen \in Nat
        /\ \A d \in calls : d.gen \in Nat
        /\ u \in monitored /\ (Running(u) \/ run[u].busy) /\ life[u] > 0
    BY <1>1, <1>4, UnitNumbers
    DEF Hyp, IInv, UnitCustody, Bookkeeping, NamesUsedOnce
  <1>7. \A m : Matches(m)' <=> Matches(m)
    BY <1>1 DEF Matches
  <1>8. /\ \A k : Awaits(u, k)' <=> Awaits(u, k)
        /\ ProbeDue(u)' <=> ProbeDue(u)
        /\ Running(u)' = Running(u)
    BY <1>1, <1>7 DEF Awaits, ProbeDue, Running
  <1>9. ChildKnown(u) => ChildKnown(u)'
    <2>1. CASE child' = child
      BY <1>1, <1>3, <1>7, <2>1 DEF ChildKnown
    <2>2. CASE to # "up" /\ child[u] = [life |-> life[u], gen |-> run[u].gen]
      <3>1. e \in pevents' /\ Matches(e)' /\ e.to # "up"
        BY <1>1, <1>3, <1>6, <2>2 DEF Matches
      <3> QED
        BY <1>3, <3>1 DEF ChildKnown
    <2>3. CASE \E x \in pevents : x.unit = u /\ Matches(x) /\ x.to # "up"
      BY <1>3, <1>7, <2>3 DEF ChildKnown
    <2> QED
      BY <1>1, <2>1, <2>2, <2>3 DEF ChildKnown
  <1>10. UnitCustody(u)'
    <2>1. ASSUME NEW d \in calls', d.unit = u
          PROVE  /\ d.life = life'[u]
                 /\ d.kind \in StartsOrStops =>
                       /\ u \in monitored' /\ run'[u].gen = d.gen
                       /\ child'[u].gen < d.gen
                       /\ \A x \in pevents' : x.unit = u => x.gen < d.gen
                 /\ d.kind = "activate" => child'[u] = NoChild
      BY <1>1, <1>3, <1>4, <1>5, <1>6, <2>1 DEF UnitCustody
    <2>2. /\ child'[u].gen <= run'[u].gen
          /\ \A x \in pevents' : x.unit = u => x.gen <= run'[u].gen
      BY <1>1, <1>3, <1>4, <1>5, <1>6 DEF UnitCustody
    <2>3. ASSUME Running(u)', ~cancelled'
          PROVE  /\ ~run'[u].busy \/ Awaits(u, "configure")'
                       => ProbeDue(u)' /\ ChildKnown(u)'
                 /\ Awaits(u, "activated")' => ChildKnown(u)'
      BY <1>1, <1>4, <1>6, <1>8, <1>9, <2>3 DEF UnitCustody
    <2> QED
      BY <1>1, <1>6, <1>8, <2>1, <2>2, <2>3 DEF UnitCustody
  <1>11. Stage(u)' = Stage(u)
    BY <1>1, <1>8 DEF Stage
  <1>12. CASE child'[u] = child[u]
    BY <1>5, <1>10, <1>11, <1>12 DEF Kept, Lives!LifecycleStep
  <1>13. CASE child'[u] = NoChild
    <2>1. CASE cancelled
      BY <1>1, <1>5, <1>10, <2>1
      DEF Kept, Lives!LifecycleStep, Lives!LifecycleNext, Lives!Abandon, Stage
    <2>2. CASE ~cancelled
      <3>1. ~Awaits(u, "activate")
        BY <1>1, <1>4 DEF Awaits, UnitCustody
      <3>2. Stage(u) \in {"up", "stopping"}
        BY <1>6, <2>2, <3>1 DEF Stage
      <3> QED
        BY <1>1, <1>5, <1>10, <1>11, <1>13, <3>2
        DEF Kept, Lives!LifecycleStep, Lives!LifecycleNext, Lives!Dies
    <2> QED
      BY <2>1, <2>2
  <1> QED
    BY <1>5, <1>12, <1>13

(***************************************************************************)
(* Every action is one of them.                                            *)
(***************************************************************************)
\* What is shown for the unit a step concerns is shown for all.
LEMMA OneKept ==
    ASSUME Hyp, NEW u \in Units, OnlyOf(u), Kept(u)
    PROVE  \A v \in Units : Kept(v)
  <1>1. \A v \in Units \ {u} : Kept(v)
    BY OthersKept
  <1> QED
    BY <1>1

\* A step that leaves calls and processes alone, and of every record the
\* generation, whether it is busy and whether the unit is up.
Calm ==
    /\ UNCHANGED <<monitored, life, child, calls>>
    /\ pevents' \subseteq pevents /\ (cancelled => cancelled')
    /\ \A v \in monitored : /\ Running(v)' = Running(v)
                            /\ run'[v].busy = run[v].busy
                            /\ run'[v].gen = run[v].gen

\* Such a step keeps every unit if the probes of those that are up go on and
\* the exits they are waiting for are not lost.
LEMMA CalmKept ==
    ASSUME Hyp, Calm,
           \/ cancelled'
           \/ /\ \A p \in probes : ProbeApplies(p) =>
                    \E q \in probes' : q.unit = p.unit /\ q.gen = p.gen
              /\ \A e \in pevents : Matches(e) /\ Running(e.unit) /\ e.to # "up"
                    => e \in pevents'
    PROVE  \A v \in Units : Kept(v)
  <1> SUFFICES ASSUME NEW v \in Units PROVE Quiet(v)
    BY QuietKept
  <1>1. \A m : m.unit \in monitored => (Matches(m)' <=> Matches(m))
    BY DEF Calm, Matches
  <1>2. ASSUME v \in monitored, Running(v), ProbeDue(v), ~cancelled'
        PROVE  ProbeDue(v)'
    <2>1. PICK p \in probes : p.unit = v /\ Matches(p)
      BY <1>2 DEF ProbeDue
    <2>2. PICK q \in probes' : q.unit = v /\ q.gen = p.gen
      BY <1>2, <2>1 DEF ProbeApplies
    <2>3. Matches(q)'
      BY <1>2, <2>1, <2>2 DEF Matches, Calm
    <2> QED
      BY <2>2, <2>3 DEF ProbeDue
  <1>3. ASSUME v \in monitored, Running(v), ChildKnown(v), ~cancelled'
        PROVE  ChildKnown(v)'
    <2>1. CASE child[v] = [life |-> life[v], gen |-> run[v].gen]
      BY <1>3, <2>1 DEF ChildKnown, Calm
    <2>2. CASE \E e \in pevents : e.unit = v /\ Matches(e) /\ e.to # "up"
      BY <1>1, <1>3, <2>2 DEF ChildKnown
    <2> QED
      BY <1>3, <2>1, <2>2 DEF ChildKnown
  <1> QED
    BY <1>2, <1>3 DEF Quiet, Calm

\* A record rewritten within its generation, its unit as up and as busy.
LEMMA RewriteCalm ==
    ASSUME Hyp, NEW u \in Units, NEW r \in UnitRun, SetRun(u, r),
           UNCHANGED <<monitored, life, child, calls, probes, pevents, cancelled>>,
           r.gen = run[u].gen, r.busy = run[u].busy,
           r.st \in RunningStates <=> Running(u)
    PROVE  \A v \in Units : Kept(v)
  <1>1. /\ run' = [run EXCEPT ![u] = r] /\ run \in [Units -> UnitRun]
        /\ monitored \subseteq Units
    BY DEF SetRun, Hyp, IInv, TypeOK
  <1>2. Calm
    BY <1>1 DEF Calm, Running
  <1> QED
    BY <1>2, CalmKept

\* Nothing but what is left out above.
LEMMA UntouchedCalm ==
    ASSUME Hyp,
           UNCHANGED <<monitored, life, run, child, calls, probes, pevents, cancelled>>
    PROVE  \A v \in Units : Kept(v)
  <1>1. Calm
    BY DEF Calm, Running
  <1> QED
    BY <1>1, CalmKept

\* A message other than an answer is lost after a second signal.
LEMMA LossKept ==
    ASSUME Hyp,
           \/ \E p \in probes : LoseProbe(p)
           \/ \E e \in pevents : LoseEvent(e)
           \/ \E t \in timers : LoseTimer(t)
    PROVE  \A v \in Units : Kept(v)
  <1>1. /\ UNCHANGED <<monitored, life, run, child, calls>>
        /\ pevents' \subseteq pevents /\ cancelled /\ cancelled'
    BY ChildSame
    DEF LoseProbe, LoseEvent, LoseTimer, LosePost, decls, shutdown
  <1>2. Calm
    BY <1>1 DEF Calm, Running
  <1> QED
    BY <1>1, <1>2, CalmKept

\* What a step leaves of the messages of the units it does not concern.
Apart(u) ==
    /\ UNCHANGED <<monitored, life, cancelled>>
    /\ \A p \in probes \cup probes' : p.unit # u => (p \in probes <=> p \in probes')
    /\ pevents' \subseteq pevents
    /\ \A e \in pevents : e.unit # u => e \in pevents'

\* deactivate, asked of a unit that is up.
LEMMA DeactivateKept ==
    ASSUME Hyp, NEW u \in monitored, NEW r \in UnitRun, NEW announce \in BOOLEAN,
           NEW then, NEW rest \in SUBSET calls,
           \A c \in calls : c.unit # u => c \in rest,
           Deactivate(u, r, announce, then, rest),
           Running(u), r.gen = run[u].gen, Apart(u), UNCHANGED child,
           ~Awaits(u, "activate"), ~Awaits(u, "deactivate")
    PROVE  \A v \in Units : Kept(v)
  <1>1. /\ u \in Units /\ run \in [Units -> UnitRun] /\ r.gen \in Nat
        /\ run[u].gen \in Nat /\ UnitCustody(u) /\ monitored \subseteq Units
    BY DEF Hyp, IInv, TypeOK, UnitRun
  <1> DEFINE d == [r EXCEPT !.gen = @ + 1, !.busy = TRUE,
                            !.st = IF announce THEN "stopping" ELSE @]
  <1>2. /\ run' = [run EXCEPT ![u] = d] /\ d.gen = run[u].gen + 1 /\ d.busy
        /\ calls' = rest \cup {[kind |-> "deactivate", unit |-> u,
                                via |-> decl[u].provider, life |-> life[u],
                                gen |-> d.gen, then |-> then]}
    BY DEF Deactivate, SetRun, AskProvider, UnitRun
  <1> HIDE DEF d
  <1>3. run'[u] = d /\ \A v \in Units \ {u} : run'[v] = run[v]
    BY <1>1, <1>2
  <1>4. calls' = rest \cup {NewCall("deactivate", u, then)}
    BY <1>2, <1>3 DEF NewCall
  <1>5. \A c \in rest : c.unit = u => c.kind \notin StartsOrStops
    <2>1. ASSUME NEW c \in rest, c.unit = u, c.kind \in StartsOrStops PROVE FALSE
      <3>1. c \in calls /\ Matches(c)
        BY <1>1, <2>1 DEF UnitCustody, Matches
      <3>2. Awaits(u, c.kind)
        BY <2>1, <3>1, Matching DEF Hyp
      <3> QED
        BY <2>1, <3>2 DEF StartsOrStops
    <2> QED
      BY <2>1
  <1>6. OnlyOf(u)
    <2>1. NewCall("deactivate", u, then).unit = u
      BY DEF NewCall
    <2>2. \A v \in Units \ {u} :
            \A c \in calls \cup calls' : c.unit = v => (c \in calls <=> c \in calls')
      BY <1>4, <2>1
    <2> QED
      BY <1>3, <2>2 DEF OnlyOf, Apart
  <1>7. Opens(u, "deactivate")
    <2>1. \E s, t :
             /\ s \in SUBSET calls
             /\ calls' = s \cup {NewCall("deactivate", u, t)}
             /\ \A c \in s : c.unit = u => c.kind \notin StartsOrStops
      BY <1>4, <1>5
    <2> QED
      BY <1>2, <1>3, <1>6, <2>1 DEF Opens, Apart
  <1>8. Stops(u)
    BY <1>7 DEF Stops
  <1> QED
    BY <1>1, <1>6, <1>8, StopKept, OneKept

\* A launch of a wanted unit that is down, or that has just been stopped.
LEMMA LaunchKept ==
    ASSUME Hyp, NEW u \in monitored, NEW s \in UnitRun, NEW rest \in SUBSET calls,
           Launch(u, s, rest), s.gen = run[u].gen, Apart(u),
           WantUp(u), ~run[u].latched,
           \/ ~Running(u) /\ ~run[u].busy /\ UNCHANGED child /\ rest = calls
           \/ \E c \in calls : /\ c.unit = u /\ Matches(c) /\ c.kind = "deactivate"
                               /\ rest = calls \ {c}
                               /\ child' = [child EXCEPT ![u] = NoChild]
    PROVE  \A v \in Units : Kept(v)
  <1>1. /\ u \in Units /\ run \in [Units -> UnitRun] /\ s.gen \in Nat
        /\ run[u].gen \in Nat /\ UnitCustody(u) /\ monitored \subseteq Units
        /\ child \in [Units -> [life : Nat, gen : Nat]]
    BY ChildIs DEF Hyp, IInv, TypeOK, UnitRun
  <1> DEFINE d == [s EXCEPT !.gen = @ + 1, !.busy = TRUE, !.fails = 0,
                            !.dirty = FALSE, !.st = "starting"]
  <1>2. /\ run' = [run EXCEPT ![u] = d] /\ d.gen = run[u].gen + 1 /\ d.busy
        /\ d.st = "starting"
        /\ calls' = rest \cup {[kind |-> "activate", unit |-> u,
                                via |-> decl[u].provider, life |-> life[u],
                                gen |-> d.gen, then |-> "none"]}
    BY DEF Launch, SetRun, AskProvider, UnitRun
  <1> HIDE DEF d
  <1>3. run'[u] = d /\ \A v \in Units \ {u} : run'[v] = run[v]
    BY <1>1, <1>2
  <1>4. calls' = rest \cup {NewCall("activate", u, "none")}
    BY <1>2, <1>3 DEF NewCall
  <1>5. ASSUME NEW c \in calls, c.unit = u, c.kind \in StartsOrStops
        PROVE  Matches(c) /\ run[u].busy /\ Awaits(u, c.kind)
    <2>1. Matches(c)
      BY <1>1, <1>5 DEF UnitCustody, Matches
    <2> QED
      BY <1>5, <2>1, Matching DEF Hyp
  <1>6. /\ \A c \in rest : c.unit = u => c.kind \notin StartsOrStops
        /\ \A c \in calls : c.unit # u => c \in rest
        /\ child'[u] = NoChild /\ \A v \in Units \ {u} : child'[v] = child[v]
        /\ \/ ~Running(u) /\ ~run[u].busy /\ child'[u] = child[u]
           \/ Awaits(u, "deactivate") /\ ~Awaits(u, "activate")
    <2>1. CASE ~Running(u) /\ ~run[u].busy /\ UNCHANGED child /\ rest = calls
      BY <1>1, <1>5, <2>1 DEF UnitCustody
    <2>2. CASE \E c \in calls : /\ c.unit = u /\ Matches(c) /\ c.kind = "deactivate"
                                /\ rest = calls \ {c}
                                /\ child' = [child EXCEPT ![u] = NoChild]
      <3>1. PICK c \in calls : /\ c.unit = u /\ Matches(c) /\ c.kind = "deactivate"
                               /\ rest = calls \ {c}
                               /\ child' = [child EXCEPT ![u] = NoChild]
        BY <2>2
      <3>2. /\ \A k : Awaits(u, k) <=> k = c.kind
            /\ \A e \in calls : e.unit = u /\ Matches(e) => e = c
        BY <3>1, Matching DEF Hyp
      <3> QED
        BY <1>1, <1>5, <3>1, <3>2
    <2> QED
      BY <2>1, <2>2
  <1>7. OnlyOf(u)
    <2>1. NewCall("activate", u, "none").unit = u
      BY DEF NewCall
    <2>2. \A v \in Units \ {u} :
            \A c \in calls \cup calls' : c.unit = v => (c \in calls <=> c \in calls')
      BY <1>4, <1>6, <2>1
    <2> QED
      BY <1>3, <1>6, <2>2 DEF OnlyOf, Apart
  <1>8. Opens(u, "activate")
    <2>1. \E x, t :
             /\ x \in SUBSET calls
             /\ calls' = x \cup {NewCall("activate", u, t)}
             /\ \A c \in x : c.unit = u => c.kind \notin StartsOrStops
      BY <1>4, <1>6
    <2> QED
      BY <1>2, <1>3, <1>7, <2>1 DEF Opens, Apart
  <1>9. Starts(u)
    BY <1>2, <1>3, <1>6, <1>8 DEF Starts, Running, RunningStates
  <1> QED
    BY <1>1, <1>7, <1>9, StartKept, OneKept

(***************************************************************************)
(* The sweep.                                                              *)
(***************************************************************************)
\* One step of the sweep on one unit.
LEMMA SweepUnitKept ==
    ASSUME Hyp, NEW u \in Units,
           \/ StepStop(u) \/ StepConfigure(u) \/ StepClear(u)
           \/ StepBlock(u) \/ StepStart(u)
    PROVE  \A v \in Units : Kept(v)
  <1>1. /\ u \in monitored /\ ~run[u].busy /\ Stepped(u) /\ IInv
    BY DEF StepStop, StepConfigure, StepClear, StepBlock, StepStart,
           NextInSweep, Effective, Hyp
  <1>2. /\ UNCHANGED <<monitored, life, child, probes, pevents, cancelled>>
        /\ run[u] \in UnitRun /\ ~Awaits(u, "activate") /\ ~Awaits(u, "deactivate")
    BY <1>1, UnitFacts, ChildSame DEF Stepped, decls, shutdown, Awaits
  <1>3. Apart(u)
    BY <1>2 DEF Apart
  <1>4. CASE StepStop(u)
    <2>1. Deactivate(u, run[u], TRUE, "inactive", calls) /\ Running(u)
      BY <1>4 DEF StepStop, MustStop
    <2> QED
      BY <1>1, <1>2, <1>3, <2>1, DeactivateKept
  <1>5. CASE StepConfigure(u)
    <2> DEFINE r == [run[u] EXCEPT !.dirty = FALSE, !.busy = TRUE]
               new == [kind |-> "configure", unit |-> u, via |-> decl[u].provider,
                       life |-> life[u], gen |-> r.gen, then |-> "none"]
    <2>1. run' = [run EXCEPT ![u] = r] /\ calls' = calls \cup {new} /\ Running(u)
      BY <1>5 DEF StepConfigure, AskProvider, SetRun, MustConfigure
    <2>2. r.st = run[u].st /\ r.gen = run[u].gen /\ r.busy
      BY <1>2 DEF UnitRun
    <2>3. new.unit = u /\ new.life = life[u] /\ new.kind = "configure"
      OBVIOUS
    <2>4. run \in [Units -> UnitRun]
      BY <1>1 DEF IInv, TypeOK
    <2> HIDE DEF r, new
    <2>5. run'[u] = r /\ \A v \in Units \ {u} : run'[v] = run[v]
      BY <2>1, <2>4
    <2>6. OnlyOf(u)
      BY <1>2, <2>1, <2>3, <2>5 DEF OnlyOf
    <2>7. Configures(u)
      BY <1>1, <1>2, <2>1, <2>2, <2>3, <2>5, <2>6 DEF Configures, Running
    <2> QED
      BY <2>6, <2>7, ConfigureKept, OneKept
  <1>6. ASSUME NEW s \in {"inactive", "failed"}, ~Running(u),
               SetRun(u, [run[u] EXCEPT !.st = s]), UNCHANGED calls
        PROVE  \A v \in Units : Kept(v)
    <2> DEFINE r == [run[u] EXCEPT !.st = s]
    <2>1. /\ r \in UnitRun /\ r.gen = run[u].gen /\ r.busy = run[u].busy
          /\ r.st \notin RunningStates
      BY <1>2 DEF UnitRun, States, RunningStates
    <2> HIDE DEF r
    <2> QED
      BY <1>2, <1>6, <2>1, RewriteCalm DEF r
  <1>7. CASE StepClear(u)
    BY <1>6, <1>7 DEF StepClear, MustClear
  <1>8. CASE StepBlock(u)
    BY <1>6, <1>8 DEF StepBlock, MustBlock, Startable, BlockedState
  <1>9. CASE StepStart(u)
    <2>1. /\ Activate(u, run[u], FALSE, calls) /\ ~Running(u) /\ WantUp(u)
          /\ ~run[u].latched
      BY <1>9 DEF StepStart, MustStart, Startable
    <2>2. PICK n \in Nat : LET s == [run[u] EXCEPT !.starts = n] IN
             Launch(u, s, calls) \/ Refuse(u, s, calls)
      BY <1>1, <1>2, <2>1, ActivateCases, FALSE \in BOOLEAN DEF IInv
    <2> DEFINE s == [run[u] EXCEPT !.starts = n]
    <2>3. s \in UnitRun /\ s.gen = run[u].gen /\ s.busy = run[u].busy
      BY <1>2 DEF UnitRun
    <2>4. Launch(u, s, calls) \/ Refuse(u, s, calls)
      BY <2>2
    <2> HIDE DEF s
    <2>5. CASE Launch(u, s, calls)
      <3>1. calls \in SUBSET calls /\ UNCHANGED child /\ calls = calls
        BY <1>2
      <3> QED
        BY <1>1, <1>3, <2>1, <2>3, <2>5, <3>1, LaunchKept
    <2>6. CASE Refuse(u, s, calls)
      <3>1. /\ SetRun(u, Fail(s)) /\ UNCHANGED calls /\ Fail(s) \in UnitRun
            /\ Fail(s).gen = run[u].gen /\ Fail(s).busy = run[u].busy
            /\ Fail(s).st \notin RunningStates
        BY <2>3, <2>6, FailFacts DEF Refuse, Fail, UnitRun, RunningStates
      <3> QED
        BY <1>2, <2>1, <3>1, RewriteCalm
    <2> QED
      BY <2>4, <2>5, <2>6
  <1> QED
    BY <1>4, <1>5, <1>7, <1>8, <1>9

\* The end of a pass forgets only units that are down and have nothing left.
LEMMA EndPassKept ==
    ASSUME Hyp, EndPass
    PROVE  \A v \in Units : Kept(v)
  <1> SUFFICES ASSUME NEW v \in Units PROVE Quiet(v)
    BY QuietKept
  <1>1. /\ UNCHANGED <<life, child, calls, probes, pevents, cancelled>>
        /\ monitored' \subseteq monitored
        /\ v \in monitored' => run'[v] = run[v]
        /\ v \in monitored \ monitored' => ~run[v].busy /\ ~Running(v)
    <2>1. UNCHANGED <<life, child, calls, probes, pevents, cancelled>>
      BY ChildSame DEF EndPass, msgs, shutdown
    <2>2. CASE MorePasses
      BY <2>1, <2>2 DEF EndPass
    <2>3. CASE ~MorePasses
      <3>1. /\ monitored' = {u \in monitored : ~Prunable(u)}
            /\ run' = [u \in Units |-> IF u \in monitored' THEN run[u] ELSE NoRun]
        BY <2>3 DEF EndPass
      <3> QED
        BY <2>1, <3>1 DEF Prunable
    <2> QED
      BY <2>2, <2>3
  <1>2. v \in monitored' => \A m : m.unit = v => (Matches(m)' <=> Matches(m))
    BY <1>1 DEF Matches
  <1>3. ASSUME v \in monitored, Running(v)
        PROVE  /\ ProbeDue(v) => ProbeDue(v)'
               /\ ChildKnown(v) => ChildKnown(v)'
    <2>1. v \in monitored'
      BY <1>1, <1>3
    <2> QED
      BY <1>1, <1>2, <2>1 DEF ProbeDue, ChildKnown
  <1> QED
    BY <1>1, <1>3 DEF Quiet, Running

(***************************************************************************)
(* Answers.                                                                *)
(***************************************************************************)
\* A current answer that leaves its unit down.
LEMMA DownKept ==
    ASSUME Hyp, NEW c \in calls, Matches(c), c.kind \in StartsOrStops,
           NEW r \in UnitRun, SetRun(c.unit, r), calls' = calls \ {c},
           UNCHANGED <<monitored, life, cancelled, probes, pevents>>,
           child' = IF c.kind = "deactivate" THEN [child EXCEPT ![c.unit] = NoChild]
                                            ELSE child,
           r.gen = run[c.unit].gen, ~r.busy, r.st \notin RunningStates
    PROVE  \A v \in Units : Kept(v)
  <1>1. /\ run' = [run EXCEPT ![c.unit] = r] /\ run \in [Units -> UnitRun]
        /\ child \in [Units -> [life : Nat, gen : Nat]] /\ c.unit \in Units
    BY Matching, ChildIs DEF SetRun, Hyp, IInv, TypeOK
  <1>2. /\ run'[c.unit] = r /\ \A v \in Units \ {c.unit} : run'[v] = run[v]
        /\ \A v \in Units \ {c.unit} : child'[v] = child[v]
        /\ child'[c.unit] = IF c.kind = "deactivate" THEN NoChild ELSE child[c.unit]
    BY <1>1
  <1>3. OnlyOf(c.unit)
    BY <1>2 DEF OnlyOf
  <1>4. DownAnswered(c)
    BY <1>2, <1>3 DEF DownAnswered, Running
  <1> QED
    BY <1>1, <1>3, <1>4, DownAnswerKept, OneKept

\* The current answer of a call that was not a stop.
LEMMA UpAnswersKept ==
    ASSUME Hyp, NEW c \in calls, Matches(c), c.kind # "deactivate",
           \/ OnActivated(c) \/ OnActivateError(c)
           \/ \E live \in BOOLEAN : OnConfigured(c, live)
    PROVE  \A v \in Units : Kept(v)
  <1> DEFINE u == c.unit
             r == [run[u] EXCEPT !.busy = FALSE]
  <1>1. /\ u \in monitored /\ u \in Units /\ run[u] \in UnitRun /\ Running(u)
        /\ run \in [Units -> UnitRun]
        /\ \A k : Awaits(u, k) <=> k = c.kind
    BY Matching, UnitFacts DEF Hyp, IInv, TypeOK
  <1>2. UNCHANGED <<monitored, life, cancelled, child, pevents>>
    BY ChildSame DEF OnActivated, OnActivateError, OnConfigured, decls, shutdown
  <1>3. r \in UnitRun /\ r.gen = run[u].gen /\ ~r.busy /\ r.st = run[u].st
    BY <1>1 DEF UnitRun
  <1>4. CASE OnActivateError(c)
    <2>1. /\ SetRun(u, Fail(r)) /\ calls' = calls \ {c} /\ probes' = probes
          /\ c.kind = "activate"
      BY <1>4 DEF OnActivateError
    <2>2. /\ Fail(r) \in UnitRun /\ Fail(r).gen = run[u].gen /\ ~Fail(r).busy
          /\ Fail(r).st \notin RunningStates
      BY <1>3, FailFacts DEF Fail, UnitRun, RunningStates
    <2> HIDE DEF r
    <2> QED
      BY <1>2, <2>1, <2>2, DownKept DEF StartsOrStops
  <1>5. ASSUME SetRun(u, r), calls' = calls \ {c}, probes \subseteq probes',
               c.kind \in {"activated", "configure"},
               \A p \in probes' \ probes : p.unit = u,
               c.kind = "activated" => \E p \in probes' : p.unit = u /\ p.gen = c.gen
        PROVE  \A v \in Units : Kept(v)
    <2>1. run'[u] = r /\ \A v \in Units \ {u} : run'[v] = run[v]
      BY <1>1, <1>5 DEF SetRun
    <2> HIDE DEF r
    <2>2. OnlyOf(u)
      BY <1>2, <1>5, <2>1 DEF OnlyOf
    <2>3. UpAnswered(c)
      BY <1>1, <1>2, <1>3, <1>5, <2>1, <2>2 DEF UpAnswered, Running
    <2> QED
      BY <1>1, <2>2, <2>3, UpAnswerKept, OneKept
  <1>6. CASE OnActivated(c)
    <2>1. PICK p : /\ p.unit = u /\ p.gen = c.gen
                   /\ probes' = probes \cup {p}
      <3> DEFINE q == [unit |-> c.unit, by |-> Judge(c.unit), life |-> c.life,
                       gen |-> c.gen, verdict |-> "open"]
      <3>1. q.unit = u /\ q.gen = c.gen /\ probes' = probes \cup {q}
        BY <1>6 DEF OnActivated
      <3> HIDE DEF q
      <3> QED
        BY <3>1
    <2>2. SetRun(u, r) /\ calls' = calls \ {c} /\ c.kind = "activated"
      BY <1>6 DEF OnActivated
    <2> HIDE DEF r
    <2> QED
      BY <1>5, <2>1, <2>2
  <1>7. ASSUME NEW live \in BOOLEAN, OnConfigured(c, live)
        PROVE  \A v \in Units : Kept(v)
    <2>1. /\ \/ SetRun(u, r) /\ calls' = calls \ {c}
             \/ Deactivate(u, r, TRUE, "reconfigured", calls \ {c})
          /\ probes' = probes /\ c.kind = "configure"
      BY <1>7 DEF OnConfigured
    <2> HIDE DEF r
    <2>2. CASE SetRun(u, r) /\ calls' = calls \ {c}
      BY <1>5, <2>1, <2>2
    <2>3. CASE Deactivate(u, r, TRUE, "reconfigured", calls \ {c})
      <3>1. Apart(u) /\ ~Awaits(u, "activate") /\ ~Awaits(u, "deactivate")
        BY <1>1, <1>2, <2>1 DEF Apart
      <3>2. calls \ {c} \in SUBSET calls /\ \A d \in calls : d.unit # u => d \in calls \ {c}
        OBVIOUS
      <3> QED
        BY <1>1, <1>2, <1>3, <2>3, <3>1, <3>2, DeactivateKept
    <2> QED
      BY <2>1, <2>2, <2>3
  <1> QED
    BY <1>4, <1>6, <1>7

\* The current answer of a stop, and what was to follow the stop.
LEMMA DownAnswersKept ==
    ASSUME Hyp, NEW c \in calls, OnDeactivated(c)
    PROVE  \A v \in Units : Kept(v)
  <1> DEFINE u == c.unit
             r == [run[u] EXCEPT !.busy = FALSE]
             down == [r EXCEPT !.st = "inactive"]
             rest == calls \ {c}
  <1>1. /\ Matches(c) /\ c.kind = "deactivate"
        /\ child' = [child EXCEPT ![u] = NoChild]
        /\ UNCHANGED <<monitored, life, cancelled, probes, pevents>>
    BY CallAtHome DEF OnDeactivated, decls, shutdown
  <1>2. /\ u \in monitored /\ u \in Units /\ run[u] \in UnitRun
        /\ ~run[u].waiting /\ ~run[u].latched /\ IInv
    BY <1>1, MatchedUnit, UnitFacts DEF Hyp
  <1>3. /\ r \in UnitRun /\ r.gen = run[u].gen /\ ~r.busy
        /\ down \in UnitRun /\ down.gen = run[u].gen /\ ~down.busy
        /\ down.st = "inactive"
        /\ WantUpRun(down) <=> WantUp(u)
    BY <1>2 DEF UnitRun, States, WantUpRun, WantUp
  <1>4. \/ AfterExit(u, r, c.then) /\ calls' = rest
        \/ SetRun(u, down) /\ calls' = rest
        \/ WantUp(u) /\ Activate(u, down, TRUE, rest)
    BY <1>3 DEF OnDeactivated
  <1>5. ASSUME NEW s \in UnitRun, SetRun(u, s), s.gen = run[u].gen, ~s.busy,
               s.st \notin RunningStates, calls' = rest
        PROVE  \A v \in Units : Kept(v)
    <2> HIDE DEF r, down
    <2> QED
      BY <1>1, <1>5, DownKept DEF StartsOrStops
  <1>6. CASE AfterExit(u, r, c.then) /\ calls' = rest
    <2> DEFINE e == [RefreshEnabled(u, r) EXCEPT !.st = "inactive"]
    <2>1. \/ SetRun(u, e)
          \/ SetRun(u, [e EXCEPT !.waiting = TRUE])
          \/ SetRun(u, [e EXCEPT !.latched = TRUE])
          \/ SetRun(u, Fail(e))
      BY <1>6 DEF AfterExit
    <2>2. registry[u].enabled \in BOOLEAN
      BY <1>2 DEF IInv, TypeOK, Registry
    <2> HIDE DEF r
    <2>3. /\ e \in UnitRun /\ e.gen = run[u].gen /\ ~e.busy /\ e.st = "inactive"
      BY <1>3, <2>2 DEF RefreshEnabled, UnitRun, States
    <2> HIDE DEF e
    <2>4. ASSUME NEW s \in {e, [e EXCEPT !.waiting = TRUE],
                            [e EXCEPT !.latched = TRUE], Fail(e)}
          PROVE  /\ s \in UnitRun /\ s.gen = run[u].gen /\ ~s.busy
                 /\ s.st \notin RunningStates
      BY <2>3 DEF Fail, UnitRun, States, RunningStates
    <2> QED
      BY <1>5, <1>6, <2>1, <2>4
  <1> HIDE DEF r
  <1>7. CASE SetRun(u, down) /\ calls' = rest
    BY <1>3, <1>5, <1>7 DEF RunningStates
  <1>8. CASE WantUp(u) /\ Activate(u, down, TRUE, rest)
    <2> HIDE DEF down
    <2>1. Launch(u, down, rest) \/ Refuse(u, down, rest)
      BY <1>8 DEF Activate
    <2>2. CASE Launch(u, down, rest)
      <3>1. Apart(u) /\ rest \in SUBSET calls
        BY <1>1 DEF Apart
      <3>2. \E d \in calls : /\ d.unit = u /\ Matches(d) /\ d.kind = "deactivate"
                             /\ rest = calls \ {d}
                             /\ child' = [child EXCEPT ![u] = NoChild]
        BY <1>1
      <3> QED
        BY <1>2, <1>3, <1>8, <2>2, <3>1, <3>2, LaunchKept
    <2>3. CASE Refuse(u, down, rest)
      <3>1. /\ SetRun(u, Fail(down)) /\ calls' = rest /\ Fail(down) \in UnitRun
            /\ Fail(down).gen = run[u].gen /\ ~Fail(down).busy
            /\ Fail(down).st \notin RunningStates
        BY <1>3, <2>3, FailFacts DEF Refuse, Fail, UnitRun, RunningStates
      <3> QED
        BY <1>5, <3>1
    <2> QED
      BY <2>1, <2>2, <2>3
  <1> QED
    BY <1>4, <1>6, <1>7, <1>8

\* Every answer, current, stale or lost.
LEMMA CallKept ==
    ASSUME Hyp, NEW c \in calls,
           \/ Answer(c) \/ OnActivateError(c)
           \/ ProviderStarts(c) \/ LoseAnswer(c)
    PROVE  \A v \in Units : Kept(v)
  <1>1. c.unit \in Units
    BY DEF Hyp, IInv, TypeOK, Call
  <1>2. CASE OnStaleAnswer(c) \/ LoseAnswer(c)
    BY <1>1, <1>2, DropKept, OneKept
  <1>3. CASE ProviderStarts(c)
    BY <1>1, <1>3, SpawnKept, OneKept
  <1>4. CASE \/ OnActivated(c) \/ OnActivateError(c)
             \/ \E live \in BOOLEAN : OnConfigured(c, live)
    <2>1. Matches(c) /\ c.kind # "deactivate"
      BY <1>4 DEF OnActivated, OnActivateError, OnConfigured
    <2> QED
      BY <1>4, <2>1, UpAnswersKept
  <1> QED
    BY <1>2, <1>3, <1>4, DownAnswersKept DEF Answer

(***************************************************************************)
(* Probes, provider events and timers.                                     *)
(***************************************************************************)
\* A verdict on the unit's health.
LEMMA ProbeKept ==
    ASSUME Hyp, NEW p \in probes, ProbeVerdict(p) \/ ProbeFault(p)
    PROVE  \A v \in Units : Kept(v)
  <1> DEFINE u == p.unit
  <1>1. /\ UNCHANGED <<monitored, life, child, pevents, cancelled>>
        /\ p \in Probe /\ run \in [Units -> UnitRun] /\ monitored \subseteq Units
    BY ChildSame
    DEF ProbeVerdict, ProbeFault, OnProbeGone, OnProbeOK, OnProbePending,
        OnProbeGrace, OnProbeFailed, decls, shutdown, Hyp, IInv, TypeOK
  <1>2. ASSUME NextProbe(p)
        PROVE  \A x \in probes : \E q \in probes' : q.unit = x.unit /\ q.gen = x.gen
    <2>1. PICK n : n = [p EXCEPT !.by = Judge(p.unit), !.verdict = "open"]
      OBVIOUS
    <2>2. n.unit = p.unit /\ n.gen = p.gen
      BY <1>1, <2>1 DEF Probe
    <2>3. probes' = (probes \ {p}) \cup {n}
      BY <1>2, <2>1 DEF NextProbe
    <2> QED
      BY <2>2, <2>3
  <1>3. ASSUME UNCHANGED calls, NextProbe(p),
               \A v \in monitored : /\ Running(v)' = Running(v)
                                    /\ run'[v].busy = run[v].busy
                                    /\ run'[v].gen = run[v].gen
        PROVE  \A v \in Units : Kept(v)
    <2>1. Calm
      BY <1>1, <1>3 DEF Calm
    <2> QED
      BY <1>1, <1>2, <1>3, <2>1, CalmKept
  <1>4. CASE OnProbeGone(p)
    <2>1. /\ UNCHANGED <<run, calls>> /\ probes' = probes \ {p}
          /\ ~ProbeApplies(p)
      BY <1>4 DEF OnProbeGone
    <2>2. Calm
      BY <1>1, <2>1 DEF Calm, Running
    <2> QED
      BY <1>1, <2>1, <2>2, CalmKept
  <1>5. CASE OnProbePending(p) \/ OnProbeGrace(p)
    BY <1>3, <1>5 DEF OnProbePending, OnProbeGrace, Running
  <1>6. CASE OnProbeOK(p)
    <2>1. NextProbe(p) /\ UNCHANGED calls /\ u \in monitored /\ Running(u)
      BY <1>6 DEF OnProbeOK, ProbeApplies, Matches
    <2>2. CASE UNCHANGED run
      BY <1>3, <2>1, <2>2 DEF Running
    <2>3. CASE SetRun(u, [run[u] EXCEPT !.fails = 0, !.st = "active"])
      <3> DEFINE r == [run[u] EXCEPT !.fails = 0, !.st = "active"]
      <3>1. r.gen = run[u].gen /\ r.busy = run[u].busy /\ r.st = "active"
        BY <1>1, <2>1 DEF UnitRun
      <3>2. run' = [run EXCEPT ![u] = r]
        BY <2>3 DEF SetRun
      <3> HIDE DEF r
      <3> QED
        BY <1>1, <1>3, <2>1, <3>1, <3>2 DEF Running, RunningStates
    <2> QED
      BY <1>6, <2>2, <2>3 DEF OnProbeOK
  <1>7. CASE OnProbeFailed(p)
    <2> DEFINE r == [run[u] EXCEPT !.fails = @ + 1,
                                   !.st = IF @ = "active" THEN "degraded" ELSE @]
    <2>1. /\ \/ Deactivate(u, r, TRUE, "exit1", calls) /\ probes' = probes \ {p}
             \/ SetRun(u, r) /\ NextProbe(p) /\ UNCHANGED calls
          /\ u \in monitored /\ Running(u) /\ ~run[u].busy
      BY <1>7 DEF OnProbeFailed, CanFail, ProbeApplies, Matches
    <2>2. /\ r \in UnitRun /\ r.gen = run[u].gen /\ r.busy = run[u].busy
          /\ r.st \in RunningStates
      <3>1. run[u] \in UnitRun
        BY <1>1, <2>1
      <3>2. r.gen = run[u].gen /\ r.busy = run[u].busy /\ r.st \in RunningStates
        BY <2>1, <3>1 DEF UnitRun, Running, RunningStates
      <3>3. run[u].fails + 1 \in Nat
        BY <3>1 DEF UnitRun
      <3>4. (IF run[u].st = "active" THEN "degraded" ELSE run[u].st) \in States
        BY <3>1 DEF UnitRun, States
      <3>5. r \in UnitRun
        BY <3>1, <3>3, <3>4, FieldTypes, FALSE \in BOOLEAN
      <3> QED
        BY <3>2, <3>5
    <2> HIDE DEF r
    <2>3. CASE Deactivate(u, r, TRUE, "exit1", calls) /\ probes' = probes \ {p}
      <3>1. Apart(u) /\ ~Awaits(u, "activate") /\ ~Awaits(u, "deactivate")
        BY <1>1, <2>1, <2>3 DEF Apart, Awaits
      <3>2. calls \in SUBSET calls
        OBVIOUS
      <3> QED
        BY <1>1, <2>1, <2>2, <2>3, <3>1, <3>2, DeactivateKept
    <2>4. CASE SetRun(u, r) /\ NextProbe(p) /\ UNCHANGED calls
      <3>1. run' = [run EXCEPT ![u] = r]
        BY <2>4 DEF SetRun
      <3> QED
        BY <1>1, <1>3, <2>1, <2>2, <2>4, <3>1 DEF Running
    <2> QED
      BY <2>1, <2>3, <2>4
  <1> QED
    BY <1>4, <1>5, <1>6, <1>7 DEF ProbeVerdict, ProbeFault

\* What a provider says of a process: an exit starts a cleanup, never beside
\* another call that starts or stops the unit.
LEMMA NewsKept ==
    ASSUME Hyp, NEW e \in pevents, ProviderNews(e)
    PROVE  \A v \in Units : Kept(v)
  <1> DEFINE u == e.unit
  <1>1. /\ UNCHANGED <<monitored, life, child, cancelled>>
        /\ pevents' = pevents \ {e} /\ monitored \subseteq Units
    BY ChildSame
    DEF ProviderNews, OnProviderExit, OnProviderUp, decls, shutdown, Hyp, IInv, TypeOK
  <1>2. CASE OnProviderUp(e)
    <2>1. UNCHANGED <<run, calls>> /\ e.to = "up" /\ probes \subseteq probes'
      BY <1>2 DEF OnProviderUp
    <2>2. Calm
      BY <1>1, <2>1 DEF Calm, Running
    <2> QED
      BY <1>1, <2>1, <2>2, CalmKept
  <1>3. CASE OnProviderExit(e) /\ ~(Matches(e) /\ Running(u))
    <2>1. UNCHANGED <<run, calls, probes>>
      BY <1>3 DEF OnProviderExit
    <2>2. Calm
      BY <1>1, <2>1 DEF Calm, Running
    <2> QED
      BY <1>1, <1>3, <2>1, <2>2, CalmKept
  <1>4. CASE OnProviderExit(e) /\ Matches(e) /\ Running(u)
    <2>1. PICK code \in ExitCodes(e) :
             /\ Deactivate(u, run[u], FALSE, code, calls) /\ UNCHANGED probes
             /\ u \in monitored /\ e.gen = run[u].gen
      BY <1>4 DEF OnProviderExit, Matches
    <2>2. run[u] \in UnitRun /\ UnitCustody(u) /\ run[u].gen \in Nat
      BY <1>1, <2>1, UnitNumbers DEF Hyp, IInv, TypeOK
    <2>3. ASSUME NEW k \in StartsOrStops, Awaits(u, k) PROVE FALSE
      <3>1. PICK c \in calls : c.unit = u /\ Matches(c) /\ c.kind = k
        BY <2>3 DEF Awaits
      <3>2. e.gen < c.gen
        BY <2>2, <3>1 DEF UnitCustody
      <3> QED
        BY <2>1, <2>2, <3>1, <3>2 DEF Matches
    <2>4. ~Awaits(u, "activate") /\ ~Awaits(u, "deactivate")
      BY <2>3 DEF StartsOrStops
    <2>5. Apart(u) /\ calls \in SUBSET calls
      BY <1>1, <2>1 DEF Apart
    <2> QED
      BY <1>1, <1>4, <2>1, <2>2, <2>4, <2>5, DeactivateKept
  <1> QED
    BY <1>2, <1>3, <1>4 DEF ProviderNews

\* A timer ends a backoff.
LEMMA TimerKept ==
    ASSUME Hyp, NEW t \in timers, OnTimer(t)
    PROVE  \A v \in Units : Kept(v)
  <1>1. UNCHANGED <<monitored, life, child, calls, probes, pevents, cancelled>>
    BY ChildSame DEF OnTimer, decls, shutdown
  <1>2. CASE UNCHANGED run
    BY <1>1, <1>2, UntouchedCalm
  <1>3. CASE Matches(t) /\ SetRun(t.unit, [run[t.unit] EXCEPT !.waiting = FALSE])
    <2> DEFINE r == [run[t.unit] EXCEPT !.waiting = FALSE]
    <2>1. t.unit \in Units /\ run[t.unit] \in UnitRun
      BY DEF Hyp, IInv, TypeOK, Timer
    <2>2. /\ r \in UnitRun /\ r.gen = run[t.unit].gen /\ r.busy = run[t.unit].busy
          /\ r.st = run[t.unit].st
      BY <2>1 DEF UnitRun
    <2> HIDE DEF r
    <2> QED
      BY <1>1, <1>3, <2>1, <2>2, RewriteCalm DEF Running, r
  <1> QED
    BY <1>2, <1>3 DEF OnTimer

(***************************************************************************)
(* Declarations, requests and signals.                                     *)
(***************************************************************************)
\* A reload adds units nothing is known of and takes none away.
LEMMA ReloadKept ==
    ASSUME Hyp, Poll \/ ControlReload
    PROVE  \A v \in Units : Kept(v)
  <1> SUFFICES ASSUME NEW v \in Units PROVE Quiet(v)
    BY QuietKept
  <1>1. /\ monitored' = monitored \cup Declared /\ IInv
        /\ UNCHANGED <<child, calls, probes, pevents, cancelled>>
        /\ run'[v] = ReloadUnit(v)
        /\ life' = [u \in Units |-> IF u \in Declared \ monitored
                                    THEN life[u] + 1 ELSE life[u]]
    BY ChildSame DEF Poll, ControlReload, Reload, msgs, shutdown, Hyp
  <1>2. life[v] \in Nat /\ life'[v] = IF v \in Declared \ monitored
                                      THEN life[v] + 1 ELSE life[v]
    BY <1>1 DEF IInv, TypeOK
  <1>3. CASE v \in Declared \ monitored
    <2>1. life[v] = 0 /\ life'[v] > 0
      BY <1>1, <1>2, <1>3 DEF IInv, Bookkeeping, NamesUsedOnce
    <2>2. run'[v] = NewRun(v)
      BY <1>1, <1>3 DEF ReloadUnit
    <2>3. run'[v].gen = 0 /\ ~run'[v].busy /\ run'[v].st = "inactive"
      BY <2>2 DEF NewRun
    <2> QED
      BY <1>1, <1>3, <2>1, <2>3 DEF Quiet, Running, RunningStates
  <1>4. CASE v \in monitored
    <2>1. /\ run'[v].st = run[v].st /\ run'[v].gen = run[v].gen
          /\ run'[v].busy = run[v].busy /\ life'[v] = life[v]
      BY <1>1, <1>2, <1>4, ReloadKeeps
    <2>2. \A m : m.unit = v => (Matches(m)' <=> Matches(m))
      BY <1>1, <1>4, <2>1 DEF Matches
    <2>3. (ProbeDue(v) => ProbeDue(v)') /\ (ChildKnown(v) => ChildKnown(v)')
      BY <1>1, <2>1, <2>2 DEF ProbeDue, ChildKnown
    <2> QED
      BY <1>1, <1>4, <2>1, <2>3 DEF Quiet, Running
  <1>5. CASE v \notin monitored /\ v \notin Declared
    BY <1>1, <1>2, <1>5 DEF Quiet
  <1> QED
    BY <1>3, <1>4, <1>5

\* An operator's request for one unit.
LEMMA RequestKept ==
    ASSUME Hyp, NEW u \in Units,
           ControlStart(u) \/ ControlStop(u) \/ ControlRestart(u)
    PROVE  \A v \in Units : Kept(v)
  <1>1. /\ u \in monitored /\ run[u] \in UnitRun
        /\ UNCHANGED <<monitored, life, child, probes, pevents, cancelled>>
    BY ChildSame
    DEF ControlStart, ControlStop, ControlRestart, Control, decls, shutdown,
        Hyp, IInv, TypeOK
  <1>2. ASSUME NEW r \in UnitRun, SetRun(u, r), UNCHANGED calls,
               r.st = run[u].st, r.gen = run[u].gen, r.busy = run[u].busy
        PROVE  \A v \in Units : Kept(v)
    BY <1>1, <1>2, RewriteCalm DEF Running
  <1>3. CASE ControlStart(u)
    <2> DEFINE r == [run[u] EXCEPT !.held = FALSE, !.latched = FALSE,
                                   !.waiting = FALSE, !.starts = 0,
                                   !.adhoc = ~run[u].enabled]
    <2>1. SetRun(u, r) /\ UNCHANGED calls
      BY <1>3 DEF ControlStart
    <2>2. /\ r \in UnitRun /\ r.st = run[u].st /\ r.gen = run[u].gen
          /\ r.busy = run[u].busy
      BY <1>1 DEF UnitRun
    <2> HIDE DEF r
    <2> QED
      BY <1>2, <2>1, <2>2
  <1>4. CASE ControlStop(u)
    <2> DEFINE r == [run[u] EXCEPT !.held = TRUE, !.adhoc = FALSE,
                                   !.waiting = FALSE]
    <2>1. SetRun(u, r) /\ UNCHANGED calls
      BY <1>4 DEF ControlStop
    <2>2. /\ r \in UnitRun /\ r.st = run[u].st /\ r.gen = run[u].gen
          /\ r.busy = run[u].busy
      BY <1>1 DEF UnitRun
    <2> HIDE DEF r
    <2> QED
      BY <1>2, <2>1, <2>2
  <1>5. CASE ControlRestart(u)
    <2> DEFINE r == [run[u] EXCEPT !.held = FALSE, !.latched = FALSE,
                                   !.waiting = FALSE, !.starts = 0]
    <2>1. \/ SetRun(u, r) /\ UNCHANGED calls
          \/ Running(u) /\ ~r.busy /\ Deactivate(u, r, TRUE, "restart", calls)
      BY <1>5 DEF ControlRestart
    <2>2. /\ r \in UnitRun /\ r.st = run[u].st /\ r.gen = run[u].gen
          /\ r.busy = run[u].busy
      BY <1>1 DEF UnitRun
    <2> HIDE DEF r
    <2>3. CASE SetRun(u, r) /\ UNCHANGED calls
      BY <1>2, <2>2, <2>3
    <2>4. CASE Running(u) /\ ~r.busy /\ Deactivate(u, r, TRUE, "restart", calls)
      <3>1. Apart(u) /\ ~Awaits(u, "activate") /\ ~Awaits(u, "deactivate")
        BY <1>1, <2>2, <2>4 DEF Apart, Awaits
      <3>2. calls \in SUBSET calls
        OBVIOUS
      <3> QED
        BY <1>1, <2>2, <2>4, <3>1, <3>2, DeactivateKept
    <2> QED
      BY <2>1, <2>3, <2>4
  <1> QED
    BY <1>3, <1>4, <1>5

\* A signal takes every unit out of backoff; a second one gives them up.
LEMMA SignalKept ==
    ASSUME Hyp, Signal
    PROVE  \A v \in Units : Kept(v)
  <1>1. /\ UNCHANGED <<monitored, life, child, calls, probes, pevents>>
        /\ cancelled => cancelled'
        /\ run' = [u \in Units |-> [run[u] EXCEPT !.waiting = FALSE]]
        /\ run \in [Units -> UnitRun] /\ monitored \subseteq Units
    BY ChildSame DEF Signal, NoLongerWaiting, decls, msgs, Hyp, IInv, TypeOK
  <1>2. \A u \in monitored : /\ run'[u].st = run[u].st /\ run'[u].gen = run[u].gen
                             /\ run'[u].busy = run[u].busy
    BY <1>1 DEF UnitRun
  <1>3. Calm
    BY <1>1, <1>2 DEF Calm, Running
  <1> QED
    BY <1>1, <1>3, CalmKept

\* Every step keeps the custody of every unit and is a step of its life.
LEMMA NextKept ==
    ASSUME Hyp, [Next]_vars
    PROVE  \A v \in Units : Kept(v)
  <1>1. CASE UNCHANGED vars \/ Exit \/ ControlQuery \/ Edit
    <2>1. UNCHANGED <<monitored, life, run, child, calls, probes, pevents, cancelled>>
      BY <1>1, ChildSame
      DEF vars, Exit, ControlQuery, Edit, SetEnabled, ChangeDeclaration,
          Remove, Declare, EditRegistry, decls, msgs, shutdown
    <2> QED
      BY <2>1, UntouchedCalm
  <1>2. CASE Sweep
    BY <1>2, SweepUnitKept, EndPassKept DEF Sweep
  <1>3. CASE Reports
    BY <1>3, ReportKept, OneKept DEF Reports
  <1>4. CASE Operator
    BY <1>4, RequestKept DEF Operator
  <1> QED
    BY <1>1, <1>2, <1>3, <1>4, CallKept, ProbeKept, NewsKept, TimerKept,
       LossKept, ReloadKept, SignalKept DEF Next, Idle

(***************************************************************************)
(* The theorems.                                                           *)
(***************************************************************************)
\* Initially there is no call and no process.
LEMMA InitCustody == ASSUME Init PROVE Custody
  <1>1. TypeOK
    BY InitType, ConstantsAssumption
  <1>2. \A u \in monitored : run[u].gen = 0 /\ ~Running(u)
    BY <1>1 DEF Init, TypeOK, NewRun, Running, RunningStates
  <1>3. \A u \in Units, k \in Providers : prov[u][k] = NoChild
    BY DEF Init
  <1>4. calls = {} /\ pevents = {} /\ monitored \subseteq Units
    BY <1>1 DEF Init, TypeOK
  <1>5. \A u \in monitored, k \in Providers : prov[u][k].gen <= run[u].gen
    BY <1>2, <1>3, <1>4 DEF NoChild
  <1>6. \A u \in Units : ~Alive(u)
    BY <1>3 DEF Alive
  <1> QED
    BY <1>2, <1>4, <1>5, <1>6
    DEF Custody, CallsInTime, NothingAhead, StartsAlone, ProcessesOwned, UpIsWatched

\* A unit is alive when its child is.
ChildAlive == \A u \in Units : Alive(u) = (child[u] # NoChild)

LEMMA AliveIsChild == OneProvider /\ TypeOK /\ AtHome => ChildAlive
  <1> SUFFICES ASSUME OneProvider, TypeOK, AtHome, NEW u \in Units
               PROVE  Alive(u) = (child[u] # NoChild)
    BY DEF ChildAlive
  <1>1. Alive(u) <=> child[u] # NoChild
    BY ChildIs
  <1> QED
    BY <1>1 DEF Alive

\* The life of the child is the life of the unit.
LEMMA ChildLives ==
    ASSUME ChildAlive, ChildAlive', NEW u \in Units, Lives(u)!LifecycleStep
    PROVE  Unit(u)!LifecycleStep
  <1>1. /\ Alive(u) = (child[u] # NoChild)
        /\ Alive(u)' = (child'[u] # NoChild)
    BY DEF ChildAlive
  <1> QED
    BY <1>1
    DEF Lives!LifecycleStep, Lives!LifecycleNext, Lives!Learn, Lives!Ask,
        Lives!Spawn, Lives!Refused, Lives!Dies, Lives!AskStop, Lives!Stopped,
        Lives!Forget, Lives!Abandon,
        Unit!LifecycleStep, Unit!LifecycleNext, Unit!Learn, Unit!Ask,
        Unit!Spawn, Unit!Refused, Unit!Dies, Unit!AskStop, Unit!Stopped,
        Unit!Forget, Unit!Abandon

\* Every step keeps the custody and is a step in the life of every unit.
LEMMA NextCustody ==
    OneProvider /\ IInv /\ AtHome /\ Custody /\ TypeOK' /\ AtHome' /\ [Next]_vars
      => Custody' /\ \A u \in Units : Unit(u)!LifecycleStep
  <1>1. OneProvider /\ TypeOK' /\ AtHome' => (Custody' <=> EveryCustody')
    <2>1. OneProvider' <=> OneProvider
      BY DEF OneProvider
    <2> QED
      BY <2>1, CustodyByUnit, PTL
  <1>2. ASSUME OneProvider, IInv, AtHome, Custody, TypeOK', [Next]_vars
        PROVE  \A u \in Units : Kept(u)
    <2>1. EveryCustody
      BY <1>2, CustodyByUnit DEF IInv
    <2>2. Hyp
      BY <1>2, <2>1 DEF Hyp, EveryCustody
    <2> QED
      BY <1>2, <2>2, NextKept
  <1>3. (\A u \in Units : Kept(u))
          => EveryCustody' /\ \A u \in Units : Lives(u)!LifecycleStep
    BY DEF Kept, EveryCustody
  <1>4. IInv => TypeOK
    BY DEF IInv
  <1>5. OneProvider /\ TypeOK' /\ AtHome' => ChildAlive'
    <2>1. OneProvider' <=> OneProvider
      BY DEF OneProvider
    <2> QED
      BY <2>1, AliveIsChild, PTL
  <1> QED
    BY <1>1, <1>2, <1>3, <1>4, <1>5, AliveIsChild, ChildLives

\* Every process of a unit is accounted for: it is of a unit that is up or
\* busy, no start meets another process, no stop is late, and a unit that is
\* up is watched until a second signal.  A declaration that moves a unit to
\* another provider, or a name declared again, would break it.
THEOREM ProcessesInCustody ==
    ReAdd = FALSE /\ OneProvider /\ Spec => []Custody
  <1> SUFFICES ASSUME ReAdd = FALSE, OneProvider PROVE Spec => []Custody
    OBVIOUS
  <1>1. Spec => []IInv /\ []AtHome
    BY Bookkept, StaysAtHome, PTL
  <1>2. IInv /\ AtHome /\ Custody /\ TypeOK' /\ AtHome' /\ [Next]_vars => Custody'
    BY NextCustody
  <1>3. IInv => TypeOK
    BY DEF IInv
  <1>4. Init => Custody
    BY InitCustody
  <1> QED
    BY <1>1, <1>2, <1>3, <1>4, PTL DEF Spec

\* A start never meets another start or a stop of its unit in flight.
THEOREM CallsNeverOverlap ==
    ReAdd = FALSE /\ OneProvider /\ Spec => []NoOverlappingCalls
  <1>1. IInv /\ Custody => NoOverlappingCalls
    BY DEF IInv, Bookkeeping, OneCurrentCall, Custody, CallsInTime, NoOverlappingCalls
  <1> QED
    BY <1>1, Bookkept, ProcessesInCustody, PTL

\* A settled running unit has a probe due, and its process is alive or the
\* report of its exit is on the way, until a second signal may lose them.
THEOREM RunningStaysWatched ==
    ReAdd = FALSE /\ OneProvider /\ Spec => []RunningIsWatched
  <1>1. Custody => RunningIsWatched
    BY DEF Custody, UpIsWatched, RunningIsWatched
  <1> QED
    BY <1>1, ProcessesInCustody, PTL

\* The monitor implements UnitLifecycle for every unit.
THEOREM UnitsLive ==
    ReAdd = FALSE /\ OneProvider /\ Spec => EveryUnitLives
  <1> SUFFICES ASSUME ReAdd = FALSE, OneProvider PROVE Spec => EveryUnitLives
    OBVIOUS
  <1>1. Spec => []IInv /\ []AtHome /\ []Custody
    BY Bookkept, StaysAtHome, ProcessesInCustody, PTL
  <1>2. IInv /\ AtHome /\ Custody /\ TypeOK' /\ AtHome' /\ [Next]_vars
          => [\A u \in Units : Unit(u)!LifecycleStep]_vars
    BY NextCustody
  <1>3. IInv => TypeOK
    BY DEF IInv
  <1>4. Init => \A u \in Units : Unit(u)!Unborn
    <2>1. ASSUME Init, NEW u \in Units PROVE Unit(u)!Unborn
      <3>1. TypeOK /\ calls = {} /\ ~cancelled /\ ~Alive(u)
        BY <2>1, InitType, ConstantsAssumption DEF Init, Alive
      <3>2. u \in monitored => run[u] = NewRun(u)
        BY <2>1 DEF Init
      <3>3. u \in monitored => ~Running(u) /\ ~run[u].busy
        BY <3>2 DEF NewRun, Running, RunningStates
      <3> QED
        BY <3>1, <3>3 DEF Unit!Unborn, Stage, Awaits
    <2> QED
      BY <2>1
  <1> QED
    BY <1>1, <1>2, <1>3, <1>4, PTL DEF Spec, EveryUnitLives

\* When the loop has returned there is no process and none to come.
THEOREM ExitIsClean ==
    ReAdd = FALSE /\ OneProvider /\ Spec => []ExitLeavesNothing
  <1> SUFFICES ASSUME ReAdd = FALSE, OneProvider PROVE Spec => []ExitLeavesNothing
    OBVIOUS
  <1>1. Spec => []IInv /\ []Custody
    BY Bookkept, ProcessesInCustody, PTL
  <1>2. Init => ExitLeavesNothing
    BY DEF Init, ExitLeavesNothing
  <1>3. ASSUME IInv, Custody, ExitLeavesNothing, [Next]_vars
        PROVE  ExitLeavesNothing'
    <2>1. CASE UNCHANGED vars
      BY <1>3, <2>1 DEF vars, ExitLeavesNothing, Alive
    <2>2. CASE Exit
      <3>1. /\ UNCHANGED <<prov, calls>>
            /\ \A u \in monitored : ~run[u].busy /\ ~Running(u)
        BY <2>2 DEF Exit, Finished, Running, RunningStates, msgs
      <3>2. \A u \in Units : ~Alive(u) /\ ~Alive(u)'
        BY <1>3, <3>1 DEF Custody, ProcessesOwned, Alive
      <3>3. ASSUME NEW c \in calls, c.kind = "activate" PROVE FALSE
        <4>1. Matches(c)
          BY <1>3, <3>3 DEF Custody, CallsInTime
        <4> QED
          BY <1>3, <3>1, <4>1, Matching
      <3> QED
        BY <3>1, <3>2, <3>3 DEF ExitLeavesNothing
    <2>3. CASE Next /\ ~Exit /\ ~Idle
      <3>1. pc \in {"select", "sweep"}
        BY <2>3
        DEF Next, Sweep, StepStop, StepConfigure, StepClear, StepBlock,
            StepStart, NextInSweep, EndPass, Answer, OnActivated, OnDeactivated,
            OnConfigured, OnStaleAnswer, OnActivateError, ProviderStarts,
            LoseAnswer, LoseProbe, LoseEvent, LoseTimer, LosePost, ProbeVerdict,
            ProbeFault, OnProbeGone, OnProbeOK, OnProbePending, OnProbeGrace,
            OnProbeFailed, CanFail, ProviderNews, OnProviderExit, OnProviderUp,
            OnTimer, Poll, ControlReload, ControlQuery, Operator, ControlStart,
            ControlStop, ControlRestart, Control, Signal, Edit, SetEnabled,
            ChangeDeclaration, Remove, Declare, EditRegistry, Reports,
            ChildExits, OwnerReports, AtSelect
      <3>2. pc' # "done"
        BY <2>3, <3>1
        DEF Next, Sweep, StepStop, StepConfigure, StepClear, StepBlock,
            StepStart, Stepped, EndPass, Answer, OnActivated, OnDeactivated,
            OnConfigured, OnStaleAnswer, OnActivateError, ProviderStarts,
            LoseAnswer, LoseProbe, LoseEvent, LoseTimer, LosePost, ProbeVerdict,
            ProbeFault, OnProbeGone, OnProbeOK, OnProbePending, OnProbeGrace,
            OnProbeFailed, ProviderNews, OnProviderExit, OnProviderUp, OnTimer,
            Poll, ControlReload, ControlQuery, Operator, ControlStart,
            ControlStop, ControlRestart, Control, Signal, Edit, SetEnabled,
            ChangeDeclaration, Remove, Declare, EditRegistry, Reports,
            ChildExits, OwnerReports, StepAll, loop
      <3> QED
        BY <3>2 DEF ExitLeavesNothing
    <2> QED
      BY <1>3, <2>1, <2>2, <2>3 DEF Idle
  <1> QED
    BY <1>1, <1>2, <1>3, PTL DEF Spec

\* stepAll stops a unit that is no longer wanted only when no process is left
\* of a unit that requires it.
THEOREM DependentsAreStoppedFirst ==
    ReAdd = FALSE /\ OneProvider /\ Spec => DependentsStopFirst
  <1> SUFFICES ASSUME ReAdd = FALSE, OneProvider PROVE Spec => DependentsStopFirst
    OBVIOUS
  <1> DEFINE Alone(u) == \A o \in Units \ {u} : u \in DepsOf(o) => ~Alive(o)
             Stopping(u) == /\ pc = "sweep" /\ ~WantUp(u) /\ Running(u)
                            /\ run'[u].st = "stopping"
  <1>1. Spec => []IInv /\ []Custody
    BY Bookkept, ProcessesInCustody, PTL
  <1>2. ASSUME IInv, Custody, [Next]_vars, NEW u \in monitored, Stopping(u)
        PROVE  Alone(u)
    <2>1. u \in Units /\ run \in [Units -> UnitRun] /\ run'[u].st # run[u].st
      BY <1>2 DEF IInv, TypeOK, Running, RunningStates
    <2>2. Sweep
      BY <1>2, <2>1
      DEF vars, Next, Exit, Idle, Answer, OnActivated, OnDeactivated,
          OnConfigured, OnStaleAnswer, OnActivateError, ProviderStarts,
          LoseAnswer, LoseProbe, LoseEvent, LoseTimer, LosePost, ProbeVerdict,
          ProbeFault, OnProbeGone, OnProbeOK, OnProbePending, OnProbeGrace,
          OnProbeFailed, CanFail, ProviderNews, OnProviderExit, OnProviderUp,
          OnTimer, Poll, ControlReload, ControlQuery, Operator, ControlStart,
          ControlStop, ControlRestart, Control, Signal, Edit, SetEnabled,
          ChangeDeclaration, Remove, Declare, EditRegistry, Reports, ChildExits,
          OwnerReports, AtSelect
    <2>3. ~EndPass
      <3>1. EndPass => run'[u] \in {run[u], NoRun}
        BY <2>1 DEF EndPass
      <3> QED
        BY <1>2, <2>1, <3>1 DEF NoRun
    <2>4. PICK w \in Units : \/ StepStop(w) \/ StepConfigure(w)
                             \/ StepClear(w) \/ StepBlock(w) \/ StepStart(w)
      BY <2>2, <2>3 DEF Sweep
    <2>5. w = u
      <3>1. \E r : SetRun(w, r)
        BY <2>4 DEF StepStop, StepConfigure, StepClear, StepBlock, StepStart,
                    Deactivate, Activate, Launch, Refuse
      <3> QED
        BY <2>1, <3>1 DEF SetRun
    <2>6. StepStop(u)
      BY <1>2, <2>4, <2>5
      DEF StepConfigure, StepClear, StepBlock, StepStart, MustConfigure, MustClear,
          MustBlock, MustStart, Startable
    <2>7. ~HasRunningDependents(u)
      BY <1>2, <2>6 DEF StepStop, MustStop
    <2> QED
      BY <1>2, <2>7 DEF HasRunningDependents, Custody, ProcessesOwned
  <1>3. IInv /\ Custody /\ [Next]_vars
          => [\A u \in monitored :
                pc = "sweep" /\ ~WantUp(u) /\ Running(u) /\ run'[u].st = "stopping"
                => \A o \in Units \ {u} : u \in DepsOf(o) => ~Alive(o)]_vars
    BY <1>2
  <1> QED
    BY <1>1, <1>3, PTL DEF Spec, DependentsStopFirst

(***************************************************************************)
(* The sweep settles.                                                      *)
(***************************************************************************)
\* There is no cycle among the requirements as they are now: of the units of
\* any set one requires none of the others, nor itself.
Acyclic ==
    \A S \in SUBSET monitored : S # {} => \E u \in S : DepsOf(u) \cap S = {}

\* What the sweep does to one unit.
SweepUnit(u) == \/ StepStop(u) \/ StepConfigure(u)
                \/ StepClear(u) \/ StepBlock(u) \/ StepStart(u)

\* The units whose dependencies are all in F.
Freed(F) == {u \in monitored : DepsOf(u) \cap monitored \subseteq F}

\* Nothing is left to do for the units of F, nor can a step of another unit
\* give them something to do.
CalmIn(F) == \A u \in F : ~Effective(u) /\ DepsOf(u) \cap monitored \subseteq F

PassedOver(u) == Rank[u] < sweep.at => ~Effective(u)

\* A pass without a change has settled the units it has passed.  And there is
\* a set of units settled for good: each pass settles those it frees, one at
\* least, so that it holds all of them when the passes run out.
SweepInv ==
    pc = "sweep" =>
       /\ sweep.changed \/ \A u \in monitored : PassedOver(u)
       /\ \E F \in SUBSET monitored :
             /\ CalmIn(F)
             /\ \A u \in Freed(F) : PassedOver(u)
             /\ F = monitored \/ sweep.pass <= Cardinality(F) + 1

\* What a step of v in the sweep leaves of the state the other units read.
Touches(v) ==
    /\ v \in monitored /\ monitored \subseteq Units
    /\ UNCHANGED <<monitored, stopping, decl>>
    /\ \A u \in Units \ {v} : run'[u] = run[u]
    /\ run'[v].gone = run[v].gone /\ run'[v].held = run[v].held
    /\ run'[v].enabled = run[v].enabled /\ run'[v].adhoc = run[v].adhoc
    /\ ~run[v].busy /\ run[v].st # "stopping"
    /\ Running(v) => run'[v].busy

\* What a step of the sweep makes of its unit: a call is in flight, or the
\* unit is down, and latched, no longer wanted or blocked.
Settles(v) ==
    \/ run'[v].busy
    \/ ~Running(v) /\ run'[v].st = "failed" /\ run'[v].latched /\ WantUp(v)
    \/ ~Running(v) /\ run'[v].st = "inactive" /\ ~WantUp(v)
    \/ ~Running(v) /\ run'[v].st = BlockedState(v) /\ WantUp(v) /\ ~DepsReady(v)

\* A step of the sweep touches one unit.
LEMMA SweepTouches ==
    ASSUME IInv, NEW v \in Units, SweepUnit(v)
    PROVE  Touches(v) /\ Settles(v)
  <1>1. /\ v \in monitored /\ monitored \subseteq Units /\ ~run[v].busy
        /\ Stepped(v) /\ run \in [Units -> UnitRun]
    BY DEF SweepUnit, StepStop, StepConfigure, StepClear, StepBlock, StepStart,
           NextInSweep, Effective, IInv, TypeOK
  <1>2. run[v] \in UnitRun /\ run[v].st # "stopping"
    BY <1>1, UnitFacts DEF FlagsFit
  <1>3. UNCHANGED <<monitored, stopping, decl>>
    BY <1>1 DEF Stepped, decls, shutdown
  <1> DEFINE Keeps(r) == /\ r.gone = run[v].gone /\ r.held = run[v].held
                         /\ r.enabled = run[v].enabled /\ r.adhoc = run[v].adhoc
             Down(r) ==
                /\ ~Running(v)
                /\ \/ r.busy
                   \/ r.st = "failed" /\ r.latched /\ WantUp(v)
                   \/ r.st = "inactive" /\ ~WantUp(v)
                   \/ r.st = BlockedState(v) /\ WantUp(v) /\ ~DepsReady(v)
             Up(r) == Running(v) /\ r.busy
  <1>4. \E r : SetRun(v, r) /\ Keeps(r) /\ (Up(r) \/ Down(r))
    <2>1. CASE StepStop(v)
      <3> DEFINE r == [run[v] EXCEPT !.gen = @ + 1, !.busy = TRUE, !.st = "stopping"]
      <3>1. SetRun(v, r) /\ Running(v)
        BY <2>1 DEF StepStop, Deactivate, MustStop
      <3>2. r.busy /\ Keeps(r)
        BY <1>2 DEF UnitRun
      <3> HIDE DEF r
      <3> QED
        BY <3>1, <3>2
    <2>2. CASE StepConfigure(v)
      <3> DEFINE r == [run[v] EXCEPT !.dirty = FALSE, !.busy = TRUE]
      <3>1. SetRun(v, r) /\ Running(v)
        BY <2>2 DEF StepConfigure, MustConfigure
      <3>2. r.busy /\ Keeps(r)
        BY <1>2 DEF UnitRun
      <3> HIDE DEF r
      <3> QED
        BY <3>1, <3>2
    <2>3. CASE StepClear(v)
      <3> DEFINE r == [run[v] EXCEPT !.st = "inactive"]
      <3>1. SetRun(v, r) /\ ~Running(v) /\ ~WantUp(v)
        BY <2>3 DEF StepClear, MustClear
      <3>2. r.st = "inactive" /\ Keeps(r)
        BY <1>2 DEF UnitRun
      <3> HIDE DEF r
      <3> QED
        BY <3>1, <3>2
    <2>4. CASE StepBlock(v)
      <3> DEFINE r == [run[v] EXCEPT !.st = BlockedState(v)]
      <3>1. SetRun(v, r) /\ ~Running(v) /\ WantUp(v) /\ ~DepsReady(v)
        BY <2>4 DEF StepBlock, MustBlock, Startable
      <3>2. r.st = BlockedState(v) /\ Keeps(r)
        BY <1>2 DEF UnitRun
      <3> HIDE DEF r
      <3> QED
        BY <3>1, <3>2
    <2>5. CASE StepStart(v)
      <3>1. Activate(v, run[v], FALSE, calls) /\ ~Running(v) /\ WantUp(v)
        BY <2>5 DEF StepStart, MustStart, Startable
      <3>2. PICK n \in Nat : LET s == [run[v] EXCEPT !.starts = n] IN
                                Launch(v, s, calls) \/ Refuse(v, s, calls)
        BY <1>2, <3>1, ActivateCases DEF IInv
      <3> DEFINE s == [run[v] EXCEPT !.starts = n]
                 up == [s EXCEPT !.gen = @ + 1, !.busy = TRUE, !.fails = 0,
                                 !.dirty = FALSE, !.st = "starting"]
      <3>3. SetRun(v, up) \/ SetRun(v, Fail(s))
        BY <3>2 DEF Launch, Refuse
      <3>4. up.busy /\ Keeps(up)
        BY <1>2 DEF UnitRun
      <3>5. Fail(s).st = "failed" /\ Fail(s).latched /\ Keeps(Fail(s))
        BY <1>2 DEF UnitRun, Fail
      <3> HIDE DEF s, up
      <3> QED
        BY <3>1, <3>3, <3>4, <3>5
    <2> QED
      BY <2>1, <2>2, <2>3, <2>4, <2>5 DEF SweepUnit
  <1>5. PICK r : SetRun(v, r) /\ Keeps(r) /\ (Up(r) \/ Down(r))
    BY <1>4
  <1>6. run'[v] = r /\ \A u \in Units \ {v} : run'[u] = run[u]
    BY <1>1, <1>5 DEF SetRun
  <1>7. Touches(v)
    <2>1. Running(v) => run'[v].busy
      BY <1>5, <1>6
    <2> QED
      BY <1>1, <1>2, <1>3, <1>5, <1>6, <2>1 DEF Touches
  <1>8. Settles(v)
    BY <1>5, <1>6 DEF Settles
  <1> QED
    BY <1>7, <1>8

\* Which units are wanted does not change in a step of the sweep.
LEMMA WantKept ==
    ASSUME NEW v \in Units, Touches(v), NEW u \in Units
    PROVE  WantUp(u)' <=> WantUp(u)
  BY DEF Touches, WantUp, WantUpRun

\* A unit that does not depend on the unit of a step, or sees no new state of
\* it, finds its dependencies as they were.
LEMMA DepsKept ==
    ASSUME TypeOK, NEW v \in Units, Touches(v), NEW u \in Units,
           v \notin DepsOf(u) \/ run'[v].st = run[v].st
    PROVE  /\ DepsReady(u)' <=> DepsReady(u)
           /\ BlockedState(u)' = BlockedState(u)
  <1>1. DepsOf(u) \subseteq Units /\ Required(u) \in Seq(Units)
    BY DeclTypes DEF DepsOf
  <1>0. Required(u)' = Required(u) /\ DepsOf(u)' = DepsOf(u)
    BY DEF Touches, Required, DepsOf
  <1>2. ASSUME NEW d \in DepsOf(u)
        PROVE  /\ DepReady(d)' <=> DepReady(d)
               /\ DepFailing(d)' <=> DepFailing(d)
    <2>1. d \in Units /\ (WantUp(d)' <=> WantUp(d))
      BY <1>1, <1>2, WantKept
    <2>2. run'[d].st = run[d].st /\ run'[d].gone = run[d].gone
      BY <2>1, <1>2 DEF Touches
    <2>3. DepUnavailable(d)' <=> DepUnavailable(d)
      BY <2>1, <2>2 DEF DepUnavailable, Touches
    <2> QED
      BY <2>2, <2>3 DEF DepReady, DepFailing
  <1>3. DepsReady(u)' <=> DepsReady(u)
    BY <1>0, <1>2 DEF DepsReady
  <1>4. \A i \in DOMAIN Required(u) : Required(u)[i] \in DepsOf(u)
    BY DEF DepsOf
  <1>5. \A i \in DOMAIN Required(u) : \A j \in 1 .. i-1 : j \in DOMAIN Required(u)
    BY <1>1
  <1>6. BlockedState(u)' = BlockedState(u)
    BY <1>0, <1>2, <1>4, <1>5 DEF BlockedState
  <1> QED
    BY <1>3, <1>6

\* The unit of the step has nothing left to do.
LEMMA SteppedIsSettled ==
    ASSUME TypeOK, NEW v \in Units, Touches(v), Settles(v), v \notin DepsOf(v)
    PROVE  ~Effective(v)'
  <1>1. /\ WantUp(v)' <=> WantUp(v)
        /\ DepsReady(v)' <=> DepsReady(v)
        /\ BlockedState(v)' = BlockedState(v)
    BY WantKept, DepsKept
  <1>2. BlockedState(v) \in {"inactive", "failed"}
    BY DEF BlockedState
  <1>3. CASE run'[v].busy
    BY <1>3 DEF Effective
  <1>4. CASE run'[v].st = "failed" /\ run'[v].latched /\ WantUp(v)
    BY <1>1, <1>4 DEF Effective, MustStop, MustConfigure, MustClear, MustBlock,
                      MustStart, Startable, Running, RunningStates
  <1>5. CASE run'[v].st = "inactive" /\ ~WantUp(v)
    BY <1>1, <1>5 DEF Effective, MustStop, MustConfigure, MustClear, MustBlock,
                      MustStart, Startable, Running, RunningStates
  <1>6. CASE run'[v].st = BlockedState(v) /\ WantUp(v) /\ ~DepsReady(v)
    BY <1>1, <1>2, <1>6 DEF Effective, MustStop, MustConfigure, MustClear,
                      MustBlock, MustStart, Startable, Running, RunningStates
  <1> QED
    BY <1>3, <1>4, <1>5, <1>6 DEF Settles

\* A settled unit stays settled in the step of another one that it does not
\* depend on, or whose state it finds as it was.
LEMMA OthersStaySettled ==
    ASSUME TypeOK, NEW v \in Units, Touches(v), NEW u \in monitored, u # v,
           ~Effective(u),
           v \notin DepsOf(u) \/ run'[v].st = run[v].st
    PROVE  ~Effective(u)'
  <1>1. /\ u \in Units /\ monitored' = monitored /\ run'[u] = run[u]
        /\ WantUp(u)' <=> WantUp(u)
        /\ DepsReady(u)' <=> DepsReady(u)
        /\ BlockedState(u)' = BlockedState(u)
    BY WantKept, DepsKept DEF Touches
  <1>2. HasRunningDependents(u) => HasRunningDependents(u)'
    <2>1. ASSUME NEW o \in monitored \ {u}, u \in DepsOf(o),
                 Running(o) \/ run[o].busy \/ run[o].st = "stopping"
          PROVE  Running(o)' \/ run'[o].busy \/ run'[o].st = "stopping"
      BY <2>1 DEF Touches, Running
    <2> QED
      BY <1>1, <2>1 DEF HasRunningDependents, DepsOf, Required, Touches
  <1> QED
    BY <1>1, <1>2 DEF Effective, MustStop, MustConfigure, MustClear, MustBlock,
                      MustStart, Startable, Running

\* One step of the sweep on one unit keeps what the sweep has settled.
LEMMA SweepUnitKeepsIt ==
    ASSUME Acyclic, IInv, SweepInv, NEW v \in Units, SweepUnit(v)
    PROVE  SweepInv'
  <1>1. Touches(v) /\ Settles(v)
    BY SweepTouches
  <1>2. v \notin DepsOf(v)
    <2>1. {v} \in SUBSET monitored /\ {v} # {}
      BY <1>1 DEF Touches
    <2>2. \E u \in {v} : DepsOf(u) \cap {v} = {}
      BY <2>1 DEF Acyclic
    <2> QED
      BY <2>2
  <1>3. ~Effective(v)'
    BY <1>1, <1>2, SteppedIsSettled DEF IInv
  <1>4. /\ NextInSweep(v) /\ Stepped(v) /\ Effective(v)
    BY DEF SweepUnit, StepStop, StepConfigure, StepClear, StepBlock, StepStart,
           NextInSweep
  <1>5. /\ sweep'.pass = sweep.pass /\ sweep'.at = Rank[v] + 1
        /\ sweep'.changed <=> sweep.changed \/ run'[v].st # run[v].st
    BY <1>4 DEF Stepped, IInv, TypeOK
  <1>6. /\ pc = "sweep" /\ monitored' = monitored /\ monitored \subseteq Units
        /\ v \in monitored /\ decl' = decl
    BY <1>1, <1>4 DEF NextInSweep, Touches
  \* The units before v, in name order, had nothing to do.
  <1>7. ASSUME NEW u \in monitored, PassedOver(u), u # v,
               v \notin DepsOf(u) \/ run'[v].st = run[v].st
        PROVE  PassedOver(u)'
    <2>1. ASSUME Rank[u] < Rank[v] + 1 PROVE ~Effective(u)
      <3>1. Rank[u] \in Nat /\ Rank[v] \in Nat /\ Rank[u] # Rank[v]
        BY <1>6, <1>7, ConstantsAssumption
      <3>2. sweep.at \in Nat
        BY DEF IInv, TypeOK
      <3> QED
        BY <1>4, <1>7, <2>1, <3>1, <3>2 DEF NextInSweep, PassedOver
    <2> QED
      BY <1>1, <1>5, <1>7, <2>1, OthersStaySettled DEF PassedOver, IInv
  <1>8. PassedOver(v)'
    BY <1>3 DEF PassedOver
  <1>9. sweep'.changed \/ \A u \in monitored : PassedOver(u)'
    BY <1>5, <1>6, <1>7, <1>8 DEF SweepInv
  <1>10. PICK F \in SUBSET monitored :
            /\ CalmIn(F)
            /\ \A u \in Freed(F) : PassedOver(u)
            /\ F = monitored \/ sweep.pass <= Cardinality(F) + 1
    BY <1>6 DEF SweepInv
  <1>11. v \notin F
    BY <1>4, <1>10 DEF CalmIn
  <1>12. CalmIn(F)'
    <2>1. ASSUME NEW u \in F
          PROVE  ~Effective(u)' /\ DepsOf(u) \cap monitored \subseteq F
      <3>1. /\ u \in monitored /\ u # v /\ ~Effective(u)
            /\ DepsOf(u) \cap monitored \subseteq F
        BY <1>10, <1>11, <2>1 DEF CalmIn
      <3>2. v \notin DepsOf(u)
        BY <1>6, <1>11, <3>1
      <3> QED
        BY <1>1, <3>1, <3>2, OthersStaySettled DEF IInv
    <2> QED
      BY <1>6, <2>1 DEF CalmIn, DepsOf, Required
  <1>13. ASSUME NEW u \in Freed(F) PROVE PassedOver(u)'
    <2>1. u \in monitored /\ PassedOver(u) /\ v \notin DepsOf(u)
      BY <1>6, <1>10, <1>11 DEF Freed
    <2> QED
      BY <1>7, <1>8, <2>1
  <1>14. Freed(F)' = Freed(F)
    BY <1>6 DEF Freed, DepsOf, Required
  <1> QED
    BY <1>5, <1>6, <1>9, <1>10, <1>12, <1>13, <1>14 DEF SweepInv

\* The end of a pass: what is settled for good grows by the units freed.
LEMMA PassSettlesMore ==
    ASSUME Acyclic, IInv, NEW F \in SUBSET monitored, CalmIn(F),
           \A u \in Freed(F) : ~Effective(u), F # monitored
    PROVE  Cardinality(Freed(F)) >= Cardinality(F) + 1
  <1>1. /\ IsFiniteSet(monitored) /\ IsFiniteSet(F) /\ IsFiniteSet(Freed(F))
        /\ monitored \subseteq Units
    <2>1. monitored \in SUBSET Units /\ IsFiniteSet(Units)
      BY ConstantsAssumption DEF IInv, TypeOK
    <2>2. F \in SUBSET Units /\ Freed(F) \in SUBSET Units
      BY <2>1 DEF Freed
    <2> QED
      BY <2>1, <2>2, FS_Subset
  <1>2. F \subseteq Freed(F)
    BY DEF CalmIn, Freed
  <1>3. PICK u \in monitored \ F : DepsOf(u) \cap (monitored \ F) = {}
    BY <1>1 DEF Acyclic
  <1>4. u \in Freed(F)
    BY <1>3 DEF Freed
  <1>5. F \cup {u} \in SUBSET Freed(F)
    BY <1>2, <1>4
  <1>6. Cardinality(F \cup {u}) = Cardinality(F) + 1
    BY <1>1, <1>3, FS_AddElement
  <1>7. Cardinality(F \cup {u}) <= Cardinality(Freed(F))
    BY <1>1, <1>5, FS_Subset
  <1> QED
    BY <1>1, <1>6, <1>7, FS_CardinalityType

\* A pass that ends leaves nothing to do for what it has passed over.
LEMMA PassedAll ==
    ASSUME IInv, EndPass, NEW u \in monitored, PassedOver(u)
    PROVE  ~Effective(u)
  <1>1. Rank[u] \in Nat /\ sweep.at \in Nat
    BY ConstantsAssumption DEF IInv, TypeOK
  <1> QED
    BY <1>1 DEF EndPass, PassedOver

\* What there is to do depends on the records, the names and stopping alone.
LEMMA SameEffective ==
    ASSUME UNCHANGED <<monitored, run, stopping, decl>>, NEW u
    PROVE  Effective(u)' <=> Effective(u)
  BY DEF Effective, MustStop, MustConfigure, MustClear, MustBlock, MustStart,
         Startable, Running, WantUp, WantUpRun, DepsReady, DepReady, DepFailing,
         DepUnavailable, BlockedState, HasRunningDependents, DepsOf, Required

Fresh == TypeOK /\ sweep.pass = 1 /\ sweep.at = 0

\* When a sweep begins nothing is settled yet, and nothing passed over.
LEMMA FreshSweep == Fresh => SweepInv
  <1> SUFFICES ASSUME Fresh PROVE SweepInv
    OBVIOUS
  <1>1. \A u \in monitored : PassedOver(u)
    BY ConstantsAssumption DEF Fresh, TypeOK, PassedOver
  <1>2. CalmIn({}) /\ Cardinality({}) = 0 /\ {} \in SUBSET monitored
    BY FS_EmptySet DEF CalmIn
  <1> QED
    BY <1>1, <1>2 DEF Fresh, SweepInv, Freed

\* A pass that ends keeps what the sweep has settled, and the next begins.
LEMMA EndPassKeepsIt ==
    ASSUME Acyclic, IInv, SweepInv, EndPass
    PROVE  SweepInv'
  <1>1. CASE MorePasses
    <2>1. /\ pc = "sweep" /\ UNCHANGED <<monitored, run, stopping, decl>>
          /\ sweep' = [pass |-> sweep.pass + 1, at |-> 0, changed |-> FALSE]
      BY <1>1 DEF EndPass, shutdown
    <2>2. PICK F \in SUBSET monitored :
             /\ CalmIn(F)
             /\ \A u \in Freed(F) : PassedOver(u)
             /\ F = monitored \/ sweep.pass <= Cardinality(F) + 1
      BY <2>1 DEF SweepInv
    <2>3. \A u \in Freed(F) : ~Effective(u)
      BY <2>2, PassedAll DEF Freed
    <2>4. F \subseteq Freed(F) /\ Freed(F) \in SUBSET monitored
      BY <2>2 DEF CalmIn, Freed
    <2>5. CalmIn(Freed(F))
      BY <2>3, <2>4 DEF CalmIn, Freed
    <2>6. Freed(F) = monitored \/ sweep.pass + 1 <= Cardinality(Freed(F)) + 1
      <3>1. CASE F = monitored
        BY <2>4, <3>1
      <3>2. CASE F # monitored
        <4>1. Cardinality(Freed(F)) >= Cardinality(F) + 1
          BY <2>2, <2>3, <3>2, PassSettlesMore
        <4>2. Cardinality(F) \in Nat /\ Cardinality(Freed(F)) \in Nat
          <5>1. monitored \in SUBSET Units /\ IsFiniteSet(Units)
            BY ConstantsAssumption DEF IInv, TypeOK
          <5>2. F \in SUBSET Units /\ Freed(F) \in SUBSET Units
            BY <2>4, <5>1
          <5> QED
            BY <5>1, <5>2, FS_Subset, FS_CardinalityType
        <4>3. sweep.pass \in Nat
          BY DEF IInv, TypeOK
        <4> QED
          BY <2>2, <3>2, <4>1, <4>2, <4>3
      <3> QED
        BY <3>1, <3>2
    <2>7. \A u \in monitored : ~(Rank[u] < 0)
      BY ConstantsAssumption DEF IInv, TypeOK
    <2>8. \A u \in monitored' : PassedOver(u)'
      BY <2>1, <2>7 DEF PassedOver
    <2>9. PICK G \in SUBSET monitored : G = Freed(F)
      BY <2>4
    <2>10. CalmIn(G)'
      BY <2>1, <2>5, <2>9, SameEffective DEF CalmIn, DepsOf, Required
    <2> QED
      BY <2>1, <2>6, <2>8, <2>9, <2>10 DEF SweepInv, Freed, DepsOf, Required
  <1>2. CASE ~MorePasses
    BY <1>2 DEF EndPass, SweepInv
  <1> QED
    BY <1>1, <1>2

\* Every other step stays out of a sweep or begins one.
LEMMA NextKeepsIt == Acyclic /\ IInv /\ SweepInv /\ [Next]_vars => SweepInv'
  <1>f. Fresh' => SweepInv'
    BY FreshSweep, PTL
  <1> SUFFICES ASSUME Acyclic, IInv, SweepInv, [Next]_vars PROVE SweepInv'
    OBVIOUS
  <1>1. CASE UNCHANGED vars
    <2>1. UNCHANGED <<monitored, run, stopping, decl, pc, sweep>>
      BY <1>1 DEF vars
    <2>2. CASE pc = "sweep"
      <3>1. \A u \in monitored : PassedOver(u) => PassedOver(u)'
        BY <2>1, SameEffective DEF PassedOver
      <3>2. PICK F \in SUBSET monitored :
               /\ CalmIn(F)
               /\ \A u \in Freed(F) : PassedOver(u)
               /\ F = monitored \/ sweep.pass <= Cardinality(F) + 1
        BY <2>2 DEF SweepInv
      <3>3. CalmIn(F)'
        BY <2>1, <3>2, SameEffective DEF CalmIn, DepsOf, Required
      <3>4. Freed(F)' = Freed(F) /\ Freed(F) \subseteq monitored
        BY <2>1 DEF Freed, DepsOf, Required
      <3> QED
        BY <2>1, <2>2, <3>1, <3>2, <3>3, <3>4 DEF SweepInv
    <2> QED
      BY <2>1, <2>2 DEF SweepInv
  <1>2. CASE Sweep
    BY <1>2, SweepUnitKeepsIt, EndPassKeepsIt DEF Sweep, SweepUnit
  <1>3. CASE Next /\ ~Sweep
    <2>1. pc # "sweep"
      BY <1>3
      DEF Next, Exit, Idle, Answer, OnActivated, OnDeactivated, OnConfigured,
          OnStaleAnswer, OnActivateError, ProviderStarts, LoseAnswer, LoseProbe,
          LoseEvent, LoseTimer, LosePost, ProbeVerdict, ProbeFault, OnProbeGone,
          OnProbeOK, OnProbePending, OnProbeGrace, OnProbeFailed, CanFail,
          ProviderNews, OnProviderExit, OnProviderUp, OnTimer, Poll,
          ControlReload, ControlQuery, Operator, ControlStart, ControlStop,
          ControlRestart, Control, Signal, Edit, SetEnabled, ChangeDeclaration,
          Remove, Declare, EditRegistry, Reports, ChildExits, OwnerReports,
          AtSelect
    <2>2. pc' = "sweep" => StepAll
      BY <1>3, <2>1
      DEF Next, Exit, Idle, Answer, OnActivated, OnDeactivated, OnConfigured,
          OnStaleAnswer, OnActivateError, ProviderStarts, LoseAnswer, LoseProbe,
          LoseEvent, LoseTimer, LosePost, ProbeVerdict, ProbeFault, OnProbeGone,
          OnProbeOK, OnProbePending, OnProbeGrace, OnProbeFailed, ProviderNews,
          OnProviderExit, OnProviderUp, OnTimer, Poll, ControlReload,
          ControlQuery, Operator, ControlStart, ControlStop, ControlRestart,
          Control, Signal, Edit, SetEnabled, ChangeDeclaration, Remove, Declare,
          EditRegistry, Reports, ChildExits, OwnerReports, loop, vars
    <2>3. StepAll => sweep'.pass = 1 /\ sweep'.at = 0
      BY DEF StepAll
    <2>4. TypeOK'
      BY NextType, ConstantsAssumption DEF IInv
    <2> QED
      BY <2>2, <2>3, <2>4, <1>f DEF Fresh, SweepInv
  <1> QED
    BY <1>1, <1>2, <1>3

\* stepAll ends only when no unit has anything left to do.
LEMMA SettledAtTheEnd ==
    ASSUME Acyclic, IInv, SweepInv, EndPass, ~MorePasses, NEW u \in Units
    PROVE  ~Effective(u)
  <1>1. SUFFICES ASSUME u \in monitored PROVE ~Effective(u)
    BY DEF Effective
  <1>2. pc = "sweep"
    BY DEF EndPass
  <1>3. CASE ~sweep.changed
    BY <1>1, <1>2, <1>3, PassedAll DEF SweepInv
  <1>4. CASE sweep.changed
    <2>1. /\ IsFiniteSet(monitored) /\ Cardinality(monitored) \in Nat
          /\ sweep.pass \in Nat
      <3>1. monitored \in SUBSET Units /\ IsFiniteSet(Units)
        BY ConstantsAssumption DEF IInv, TypeOK
      <3> QED
        BY <3>1, FS_Subset, FS_CardinalityType DEF IInv, TypeOK
    <2>2. PICK F \in SUBSET monitored :
             CalmIn(F) /\ (F = monitored \/ sweep.pass <= Cardinality(F) + 1)
      BY <1>2 DEF SweepInv
    <2>3. ~(sweep.pass <= Cardinality(monitored))
      BY <1>4 DEF MorePasses
    <2>4. Cardinality(F) \in Nat /\ Cardinality(F) <= Cardinality(monitored)
      BY <2>1, FS_Subset, FS_CardinalityType
    <2>5. F # monitored => Cardinality(F) # Cardinality(monitored)
      BY <2>1, FS_Subset
    <2>6. F = monitored
      BY <2>1, <2>2, <2>3, <2>4, <2>5
    <2> QED
      BY <1>1, <2>2, <2>6 DEF CalmIn
  <1> QED
    BY <1>3, <1>4

\* stepAll reaches its fixpoint within its bound of one pass per unit and one
\* more, whatever the name order: when it returns no unit has anything left to
\* do.  Units that require each other in a ring may oscillate until the bound.
THEOREM SweepsSettle == ReAdd = FALSE /\ Spec /\ []Acyclic => SweepSettles
  <1> SUFFICES ASSUME ReAdd = FALSE PROVE Spec /\ []Acyclic => SweepSettles
    OBVIOUS
  <1>1. Spec => []IInv
    BY Bookkept, PTL
  <1>2. Init => SweepInv
    <2>1. SUFFICES ASSUME Init PROVE SweepInv
      OBVIOUS
    <2>2. Fresh
      BY <2>1, InitType, ConstantsAssumption DEF Init, Fresh
    <2> QED
      BY <2>2, FreshSweep
  <1>3. Acyclic /\ IInv /\ SweepInv /\ [Next]_vars => SweepInv'
    BY NextKeepsIt
  <1>4. ASSUME Acyclic, IInv, SweepInv, [Next]_vars, pc = "sweep", pc' = "select"
        PROVE  \A u \in Units : ~Effective(u)
    <2>1. EndPass /\ ~MorePasses
      BY <1>4
      DEF vars, Next, Sweep, StepStop, StepConfigure, StepClear, StepBlock,
          StepStart, Stepped, EndPass, Exit, Idle, Answer, OnActivated,
          OnDeactivated, OnConfigured, OnStaleAnswer, OnActivateError,
          ProviderStarts, LoseAnswer, LoseProbe, LoseEvent, LoseTimer, LosePost,
          ProbeVerdict, ProbeFault, OnProbeGone, OnProbeOK, OnProbePending,
          OnProbeGrace, OnProbeFailed, CanFail, ProviderNews, OnProviderExit,
          OnProviderUp, OnTimer, Poll, ControlReload, ControlQuery, Operator,
          ControlStart, ControlStop, ControlRestart, Control, Signal, Edit,
          SetEnabled, ChangeDeclaration, Remove, Declare, EditRegistry, Reports,
          ChildExits, OwnerReports, AtSelect
    <2> QED
      BY <1>4, <2>1, SettledAtTheEnd
  <1>5. Acyclic /\ IInv /\ SweepInv /\ [Next]_vars
          => [pc = "sweep" /\ pc' = "select" => \A u \in Units : ~Effective(u)]_vars
    BY <1>4
  <1> QED
    BY <1>1, <1>2, <1>3, <1>5, PTL DEF Spec, SweepSettles
=============================================================================
