---------------------- MODULE MonitorSuccessionProofs ----------------------
(***************************************************************************)
(* Proofs about MonitorSuccession, for any number of units and monitors    *)
(* and any reuse of pids: its types; that a reclaim signals orphans only,  *)
(* for monitors at once or in succession; and, for monitors in succession, *)
(* that a recorded process of a unit is alone.                             *)
(***************************************************************************)
EXTENDS MonitorSuccession, TLAPS

(***************************************************************************)
(* Types.                                                                  *)
(***************************************************************************)
\* The constant shapes have their types.
LEMMA ShapesTyped ==
    /\ Nobody \in Id /\ NoRecord \in Record /\ NoChild \in Child
    /\ Free \in Process
    /\ \A stage \in Stages : At(stage) \in Monitor
  <1>1. Nobody \in Id
    BY DEF Nobody, Id
  <1>2. NoRecord \in Record /\ NoChild \in Child
    BY <1>1 DEF NoRecord, Record, NoChild, Child
  <1>3. Free \in Process
    BY <1>1 DEF Free, Process, Kinds
  <1>4. ASSUME NEW stage \in Stages
        PROVE  At(stage) \in Monitor
    BY <1>1, <1>2 DEF At, Monitor
  <1> QED
    BY <1>1, <1>2, <1>3, <1>4

\* The end of a monitor keeps the process table's type.
LEMMA GoneTyped ==
    ASSUME Shapes, NEW p \in Pids, Gone(p)
    PROVE  procs' \in [Pids -> Process]
  BY ShapesTyped DEF Gone, Shapes

\* So does setting a monitor's state.
LEMMA SetMonTyped ==
    ASSUME Shapes, NEW p \in Pids, NEW m \in Monitor, SetMon(p, m)
    PROVE  mons' \in [Pids -> Monitor]
  BY DEF SetMon, Shapes

\* The identity of a pid is an identity.
LEMMA SelfTyped ==
    ASSUME Shapes, NEW p \in Pids
    PROVE  Self(p) \in Id
  BY DEF Self, Id, Shapes, Process

\* The types hold at first.
LEMMA TypeInit == Init => Shapes
  <1> SUFFICES ASSUME Init PROVE Shapes
    OBVIOUS
  <1>1. "off" \in Stages
    BY DEF Stages
  <1> QED
    BY <1>1, ShapesTyped DEF Init, Shapes

\* Processes that come and go keep the types.
LEMMA TypeWorld ==
    ASSUME Shapes, NEW p \in Pids, World(p)
    PROVE  Shapes'
  <1>1. clock + 1 \in Nat
    BY DEF Shapes
  <1>2. \A stage \in Stages : At(stage) \in Monitor
    BY ShapesTyped
  <1>3. {"probe", "off"} \subseteq Stages
    BY DEF Stages
  <1>4. CASE Launch(p)
    <2>1. [Free EXCEPT !.kind = "monitor", !.start = clock] \in Process
      BY ShapesTyped DEF Process, Kinds, Shapes
    <2>2. procs' \in [Pids -> Process] /\ clock' \in Nat
      BY <1>1, <1>4, <2>1 DEF Launch, Spawned, Shapes
    <2>3. mons' \in [Pids -> Monitor]
      BY <1>2, <1>3, <1>4, SetMonTyped DEF Launch
    <2> QED
      BY <1>4, <2>2, <2>3 DEF Launch, Shapes
  <1>5. CASE Crash(p)
    <2>1. procs' \in [Pids -> Process]
      BY <1>5, GoneTyped DEF Crash
    <2>2. mons' \in [Pids -> Monitor]
      BY <1>2, <1>3, <1>5, SetMonTyped DEF Crash
    <2> QED
      BY <1>5, <2>1, <2>2 DEF Crash, Shapes
  <1>6. CASE OtherStarts(p)
    <2>1. [Free EXCEPT !.kind = "other", !.start = clock] \in Process
      BY ShapesTyped DEF Process, Kinds, Shapes
    <2> QED
      BY <1>1, <1>6, <2>1 DEF OtherStarts, Spawned, Shapes
  <1>7. CASE Ends(p)
    <2>1. [procs[p] EXCEPT !.kind = "zombie"] \in Process
      BY DEF Process, Kinds, Shapes
    <2> QED
      BY <1>7, <2>1, ShapesTyped DEF Ends, Shapes
  <1> QED
    BY <1>4, <1>5, <1>6, <1>7 DEF World

\* A start that is refused keeps them.
LEMMA TypeRefuse ==
    ASSUME Shapes, NEW p \in Pids, Refuse(p)
    PROVE  procs' \in [Pids -> Process] /\ mons' \in [Pids -> Monitor]
  <1>1. At("refused") \in Monitor
    BY ShapesTyped DEF Stages
  <1> QED
    BY <1>1, GoneTyped, SetMonTyped DEF Refuse

\* The steps of serveControl and of reclaimOrphans keep them.
LEMMA TypeStarting ==
    ASSUME Shapes, NEW p \in Pids, Starting(p)
    PROVE  Shapes'
  <1>1. mons[p] \in Monitor
    BY DEF Shapes
  <1>2. {"remove", "listen", "reclaim", "run"} \subseteq Stages
    BY DEF Stages
  <1>3. Nobody \in Id /\ NoRecord \in Record
    BY ShapesTyped
  <1>4. \A stage \in {"remove", "listen", "reclaim", "run"} :
           [mons[p] EXCEPT !.pc = stage] \in Monitor
    <2>1. ASSUME NEW stage \in Stages
          PROVE  [mons[p] EXCEPT !.pc = stage] \in Monitor
      BY <1>1 DEF Monitor
    <2> QED
      BY <1>2, <2>1
  <1>5. CASE Probe(p)
    <2>1. CASE Refuse(p)
      BY <1>5, <2>1, TypeRefuse DEF Probe, Shapes
    <2>2. CASE ~Refuse(p)
      <3>1. mons' \in [Pids -> Monitor]
        BY <1>4, <1>5, <2>2, SetMonTyped DEF Probe
      <3> QED
        BY <1>5, <2>2, <3>1 DEF Probe, Shapes
    <2> QED
      BY <2>1, <2>2
  <1>6. CASE RemoveSocket(p)
    <2>1. mons' \in [Pids -> Monitor]
      BY <1>4, <1>6, SetMonTyped DEF RemoveSocket
    <2> QED
      BY <1>3, <1>6, <2>1 DEF RemoveSocket, Shapes
  <1>7. CASE Listen(p)
    <2>1. CASE sock # Nobody
      BY <1>7, <2>1, TypeRefuse DEF Listen, Shapes
    <2>2. CASE sock = Nobody
      <3> DEFINE todo == {u \in Units : records[u] # NoRecord}
      <3>1. [mons[p] EXCEPT !.pc = "reclaim", !.todo = todo] \in Monitor
        BY <1>1, <1>2 DEF Monitor
      <3>2. mons' \in [Pids -> Monitor]
        BY <1>7, <2>2, <3>1, SetMonTyped DEF Listen
      <3>3. sock' \in Id
        BY <1>7, <2>2, SelfTyped DEF Listen
      <3> QED
        BY <1>7, <2>2, <3>2, <3>3 DEF Listen, Shapes
    <2> QED
      BY <2>1, <2>2
  <1>8. CASE RunLoop(p)
    <2>1. mons' \in [Pids -> Monitor]
      BY <1>4, <1>8, SetMonTyped DEF RunLoop
    <2> QED
      BY <1>8, <2>1 DEF RunLoop, Shapes
  <1>9. ASSUME NEW u \in Units, ReclaimSkip(p, u)
        PROVE  Shapes'
    <2>1. [mons[p] EXCEPT !.todo = @ \ {u}] \in Monitor
      BY <1>1 DEF Monitor
    <2>2. mons' \in [Pids -> Monitor]
      BY <1>9, <2>1, SetMonTyped DEF ReclaimSkip
    <2>3. records' \in [Units -> Record]
      BY <1>3, <1>9 DEF ReclaimSkip, Forget, Shapes
    <2> QED
      BY <1>9, <2>2, <2>3 DEF ReclaimSkip, Shapes
  <1>10. ASSUME NEW u \in Units, ReclaimSignal(p, u)
         PROVE  Shapes'
    <2>1. records[u].child \in Id
      BY DEF Shapes, Record
    <2>2. [mons[p] EXCEPT !.victim[u] = records[u].child] \in Monitor
      BY <1>1, <2>1 DEF Monitor
    <2>3. mons' \in [Pids -> Monitor]
      BY <1>10, <2>2, SetMonTyped DEF ReclaimSignal
    <2> QED
      BY <1>10, <2>3 DEF ReclaimSignal, Shapes
  <1>11. ASSUME NEW u \in Units, ReclaimKill(p, u)
         PROVE  Shapes'
    BY <1>11, ShapesTyped DEF ReclaimKill, Shapes
  <1>12. ASSUME NEW u \in Units, ReclaimDone(p, u)
         PROVE  Shapes'
    <2>1. [mons[p] EXCEPT !.victim[u] = Nobody, !.todo = @ \ {u}] \in Monitor
      BY <1>1, <1>3 DEF Monitor
    <2>2. mons' \in [Pids -> Monitor]
      BY <1>12, <2>1, SetMonTyped DEF ReclaimDone
    <2> QED
      BY <1>3, <1>12, <2>2 DEF ReclaimDone, Forget, Shapes
  <1> QED
    BY <1>5, <1>6, <1>7, <1>8, <1>9, <1>10, <1>11, <1>12 DEF Starting

\* The steps of the loop and of the end keep them.
LEMMA TypeServing ==
    ASSUME Shapes, NEW p \in Pids, Serving(p)
    PROVE  Shapes'
  <1>1. mons[p] \in Monitor /\ Self(p) \in Id
    BY SelfTyped DEF Shapes
  <1>2. Nobody \in Id /\ NoRecord \in Record /\ NoChild \in Child
    BY ShapesTyped
  <1>3. ASSUME NEW u \in Units, NEW c \in Child, SetChild(p, u, c)
        PROVE  mons' \in [Pids -> Monitor]
    <2>1. [mons[p] EXCEPT !.child[u] = c] \in Monitor
      BY <1>1 DEF Monitor
    <2> QED
      BY <1>3, <2>1, SetMonTyped DEF SetChild
  <1>4. \A u \in Units : ChildOf(p, u) \in Child
    BY <1>1 DEF ChildOf, Monitor
  <1>5. ASSUME NEW u \in Units, Fork(p, u)
        PROVE  Shapes'
    <2>1. PICK c \in Pids :
            /\ Spawned(c, [kind |-> "unit", start |-> clock, unit |-> {u},
                           parent |-> Self(p), recorded |-> FALSE])
            /\ SetChild(p, u, [st |-> "forked", owned |-> FALSE,
                               id |-> [pid |-> c, start |-> clock]])
      BY <1>5 DEF Fork
    <2>2. [kind |-> "unit", start |-> clock, unit |-> {u},
           parent |-> Self(p), recorded |-> FALSE] \in Process
      BY <1>1 DEF Process, Kinds, Shapes
    <2>3. [st |-> "forked", owned |-> FALSE,
           id |-> [pid |-> c, start |-> clock]] \in Child
      BY DEF Child, Id, Shapes
    <2>4. mons' \in [Pids -> Monitor]
      BY <1>3, <2>1, <2>3
    <2>5. procs' \in [Pids -> Process] /\ clock' \in Nat
      BY <2>1, <2>2 DEF Spawned, Shapes
    <2> QED
      BY <1>5, <2>4, <2>5 DEF Fork, Shapes
  <1>6. ASSUME NEW u \in Units, RecordOwner(p, u)
        PROVE  Shapes'
    <2> DEFINE pid == ChildOf(p, u).id.pid
               live == Live(pid)
    <2>1. [ChildOf(p, u) EXCEPT !.st = "up", !.owned = live] \in Child
      BY <1>4 DEF Child, Live
    <2>3. mons' \in [Pids -> Monitor]
      BY <1>3, <1>6, <2>1 DEF RecordOwner
    <2>4. records' \in [Units -> Record]
      <3>1. CASE live
        <4>1. Self(pid) \in Id
          BY <3>1, SelfTyped DEF Live
        <4> QED
          BY <1>1, <1>6, <3>1, <4>1 DEF RecordOwner, Record, Shapes
      <3>2. CASE ~live
        BY <1>6, <3>2 DEF RecordOwner, Shapes
      <3> QED
        BY <3>1, <3>2
    <2>5. procs' \in [Pids -> Process]
      <3>1. CASE live
        <4>1. procs' = [procs EXCEPT ![pid].recorded = TRUE]
          BY <1>6, <3>1 DEF RecordOwner
        <4>2. pid \in Pids
          BY <3>1 DEF Live
        <4>3. [procs[pid] EXCEPT !.recorded = TRUE] \in Process
          BY <4>2 DEF Process, Shapes
        <4> QED
          BY <4>1, <4>2, <4>3 DEF Shapes
      <3>2. CASE ~live
        BY <1>6, <3>2 DEF RecordOwner, Shapes
      <3> QED
        BY <3>1, <3>2
    <2> QED
      BY <1>6, <2>3, <2>4, <2>5 DEF RecordOwner, Shapes
  <1>7. ASSUME NEW u \in Units, Waited(p, u)
        PROVE  Shapes'
    <2>1. [ChildOf(p, u) EXCEPT !.st = "waited"] \in Child
      BY <1>4 DEF Child
    <2>2. mons' \in [Pids -> Monitor]
      BY <1>3, <1>7, <2>1 DEF Waited
    <2> QED
      BY <1>7, <2>2, ShapesTyped DEF Waited, Shapes
  <1>8. ASSUME NEW u \in Units, RemoveRecord(p, u)
        PROVE  Shapes'
    <2>1. mons' \in [Pids -> Monitor]
      BY <1>2, <1>3, <1>8 DEF RemoveRecord
    <2>2. records' \in [Units -> Record]
      BY <1>2, <1>8 DEF RemoveRecord, Forget, Shapes
    <2> QED
      BY <1>8, <2>1, <2>2 DEF RemoveRecord, Shapes
  <1>9. CASE Terminate(p)
    <2>1. [mons[p] EXCEPT !.stopping = TRUE] \in Monitor
      BY <1>1 DEF Monitor
    <2>2. mons' \in [Pids -> Monitor]
      BY <1>9, <2>1, SetMonTyped DEF Terminate
    <2> QED
      BY <1>9, <2>2 DEF Terminate, Shapes
  <1>10. CASE CloseListener(p)
    <2>1. [mons[p] EXCEPT !.pc = "closing"] \in Monitor
      BY <1>1 DEF Monitor, Stages
    <2>2. mons' \in [Pids -> Monitor]
      BY <1>10, <2>1, SetMonTyped DEF CloseListener
    <2> QED
      BY <1>2, <1>10, <2>2 DEF CloseListener, Shapes
  <1>11. CASE Finish(p)
    <2>1. At("off") \in Monitor
      BY ShapesTyped DEF Stages
    <2>2. mons' \in [Pids -> Monitor] /\ procs' \in [Pids -> Process]
      BY <1>11, <2>1, SetMonTyped, GoneTyped DEF Finish
    <2> QED
      BY <1>2, <1>11, <2>2 DEF Finish, Shapes
  <1> QED
    BY <1>5, <1>6, <1>7, <1>8, <1>9, <1>10, <1>11 DEF Serving

\* Every step keeps the types.
LEMMA TypeStep == Shapes /\ [Next]_vars => Shapes'
  <1> SUFFICES ASSUME Shapes, [Next]_vars PROVE Shapes'
    OBVIOUS
  <1>1. CASE Next
    BY <1>1, TypeStarting, TypeServing, TypeWorld DEF Next
  <1>2. CASE UNCHANGED vars
    BY <1>2 DEF Shapes, vars
  <1> QED
    BY <1>1, <1>2

\* In every state processes and records have their shapes.
LEMMA ShapesKept == Spec => []Shapes
  BY TypeInit, TypeStep, PTL DEF Spec

(***************************************************************************)
(* Identities.  Whatever a step does to the process table, a process that  *)
(* is alive afterwards was alive before and is the same, or starts now.    *)
(***************************************************************************)
Same(p) == /\ procs'[p].kind = procs[p].kind
           /\ procs'[p].start = procs[p].start
           /\ procs'[p].parent = procs[p].parent
           /\ procs'[p].unit = procs[p].unit

Zombie(p) == /\ procs'[p].kind = "zombie" /\ procs[p].kind # "free"
             /\ procs'[p].start = procs[p].start
             /\ procs'[p].parent = procs[p].parent

\* What a new process has for a parent: a living monitor, or nobody we know.
Parent(id) == id = Nobody \/ \E q \in Pids : Alive(q) /\ id = Self(q)

New(p) == /\ procs'[p].start = clock /\ clock' = clock + 1
          /\ Parent(procs'[p].parent)
          /\ Alive(p)' => mons'[p] = At("probe")

Evolves ==
    /\ clock' \in {clock, clock + 1}
    /\ \A p \in Pids : procs'[p] = Free \/ Zombie(p) \/ Same(p) \/ New(p)

\* The end of a monitor frees its entry and those of its zombies.
LEMMA GoneEvolves ==
    ASSUME Shapes, NEW p \in Pids, Gone(p), clock' = clock
    PROVE  Evolves /\ ~Alive(p)'
  <1>1. Free.kind # "monitor"
    BY DEF Free
  <1>2. \A q \in Pids : procs'[q] = Free \/ procs'[q] = procs[q]
    BY DEF Gone
  <1>3. procs'[p] = Free
    BY DEF Gone
  <1> QED
    BY <1>1, <1>2, <1>3 DEF Evolves, Same, Alive

\* A process that starts takes a free entry and a new start time.
LEMMA SpawnedEvolves ==
    ASSUME Shapes, NEW p \in Pids, NEW proc \in Process, proc.start = clock,
           Spawned(p, proc), Parent(proc.parent),
           proc.kind = "monitor" => mons'[p] = At("probe")
    PROVE  /\ Evolves
           /\ \A q \in Pids \ {p} : Same(q)
           /\ procs'[p] = proc
  <1>1. procs'[p] = proc /\ \A q \in Pids \ {p} : procs'[q] = procs[q]
    BY DEF Spawned, Shapes
  <1>2. New(p)
    BY <1>1 DEF Spawned, New, Alive
  <1> QED
    BY <1>1, <1>2 DEF Evolves, Same, Spawned

\* A step that leaves the process table leaves all as it is.
LEMMA UnchangedEvolves ==
    ASSUME UNCHANGED <<procs, clock>>
    PROVE  Evolves
  BY DEF Evolves, Same

\* Every step changes the process table in one of these ways.
LEMMA NextEvolves ==
    ASSUME Shapes, NEW p \in Pids, Starting(p) \/ Serving(p) \/ World(p)
    PROVE  Evolves
  <1>2. CASE Launch(p)
    <2>1. [Free EXCEPT !.kind = "monitor", !.start = clock] \in Process
      BY ShapesTyped DEF Process, Kinds, Shapes
    <2>2. /\ [Free EXCEPT !.kind = "monitor", !.start = clock].start = clock
          /\ [Free EXCEPT !.kind = "monitor", !.start = clock].parent = Nobody
      BY DEF Free
    <2>3. mons'[p] = At("probe")
      BY <1>2 DEF Launch, SetMon, Shapes
    <2> QED
      BY <1>2, <2>1, <2>2, <2>3, SpawnedEvolves DEF Launch, Parent
  <1>3. CASE OtherStarts(p)
    <2>1. [Free EXCEPT !.kind = "other", !.start = clock] \in Process
      BY ShapesTyped DEF Process, Kinds, Shapes
    <2>2. /\ [Free EXCEPT !.kind = "other", !.start = clock].start = clock
          /\ [Free EXCEPT !.kind = "other", !.start = clock].kind # "monitor"
          /\ [Free EXCEPT !.kind = "other", !.start = clock].parent = Nobody
      BY DEF Free
    <2> QED
      BY <1>3, <2>1, <2>2, SpawnedEvolves DEF OtherStarts, Parent
  <1>4. ASSUME NEW u \in Units, Fork(p, u)
        PROVE  Evolves
    <2> DEFINE proc == [kind |-> "unit", start |-> clock, unit |-> {u},
                        parent |-> Self(p), recorded |-> FALSE]
    <2>1. proc \in Process /\ proc.start = clock /\ proc.kind # "monitor"
      BY SelfTyped DEF Process, Kinds, Shapes
    <2>2. PICK c \in Pids : Spawned(c, proc)
      BY <1>4 DEF Fork
    <2>3. Parent(proc.parent)
      BY <1>4 DEF Fork, InLoop, Parent
    <2> HIDE DEF proc
    <2> QED
      BY <2>1, <2>2, <2>3, SpawnedEvolves
  <1>5. CASE Crash(p) \/ Finish(p)
    BY <1>5, GoneEvolves DEF Crash, Finish
  <1>6. CASE Ends(p)
    BY <1>6 DEF Ends, Evolves, Same, Zombie, Shapes, Process
  <1>7. CASE Probe(p) \/ Listen(p)
    BY <1>7, GoneEvolves, UnchangedEvolves DEF Probe, Listen, Refuse
  <1>8. ASSUME NEW u \in Units, ReclaimKill(p, u) \/ Waited(p, u)
        PROVE  Evolves
    BY <1>8 DEF ReclaimKill, Waited, Evolves, Same, Shapes
  <1>9. ASSUME NEW u \in Units, RecordOwner(p, u)
        PROVE  Evolves
    BY <1>9 DEF RecordOwner, Evolves, Same, Shapes, Process
  <1>10. ASSUME NEW u \in Units,
                \/ ReclaimSkip(p, u) \/ ReclaimSignal(p, u)
                \/ ReclaimDone(p, u) \/ RemoveRecord(p, u)
         PROVE  Evolves
    BY <1>10, UnchangedEvolves
       DEF ReclaimSkip, ReclaimSignal, ReclaimDone, RemoveRecord
  <1>11. CASE RemoveSocket(p) \/ RunLoop(p) \/ Terminate(p) \/ CloseListener(p)
    BY <1>11, UnchangedEvolves DEF RemoveSocket, RunLoop, Terminate, CloseListener
  <1> QED
    BY <1>2, <1>3, <1>4, <1>5, <1>6, <1>7, <1>8, <1>9, <1>10, <1>11
       DEF Starting, Serving, World

\* What is alive after a step.
LEMMA LiveKept ==
    ASSUME Evolves, NEW p \in Pids, procs'[p].kind \notin Dead
    PROVE  Same(p) \/ New(p)
  BY DEF Evolves, Zombie, Free, Dead

\* A monitor that is alive was alive before, or starts now.
LEMMA MonitorsKept ==
    ASSUME Evolves, NEW p \in Pids, Alive(p)'
    PROVE  \/ Alive(p) /\ Self(p)' = Self(p)
           \/ procs'[p].start = clock /\ mons'[p] = At("probe")
  <1>1. Same(p) \/ New(p)
    BY LiveKept DEF Alive, Dead
  <1> QED
    BY <1>1 DEF Same, New, Alive, Self

\* Start times stay in the past.
LEMMA ClockStep ==
    ASSUME Shapes, Evolves, ClockAhead
    PROVE  ClockAhead'
  <1>1. clock \in Nat /\ clock > 0 /\ clock' \in {clock, clock + 1}
    BY DEF Shapes, ClockAhead, Evolves
  <1>2. ASSUME NEW p \in Pids
        PROVE  procs'[p].start < clock' /\ procs'[p].parent.start < clock'
    <2>1. /\ procs[p].start \in Nat /\ procs[p].parent.start \in Nat
          /\ procs[p].start < clock /\ procs[p].parent.start < clock
      BY DEF Shapes, Process, Id, ClockAhead
    <2>2. CASE Same(p) \/ Zombie(p)
      BY <1>1, <2>1, <2>2 DEF Same, Zombie
    <2>3. CASE procs'[p] = Free
      BY <1>1, <2>3 DEF Free, Nobody
    <2>4. CASE New(p)
      <3>1. procs'[p].parent.start < clock /\ procs'[p].parent.start \in Nat
        <4>1. CASE procs'[p].parent = Nobody
          BY <1>1, <4>1 DEF Nobody
        <4>2. ASSUME NEW q \in Pids, procs'[p].parent = Self(q)
              PROVE  procs'[p].parent.start = procs[q].start
          BY <4>2 DEF Self
        <4>3. \A q \in Pids : procs[q].start < clock /\ procs[q].start \in Nat
          BY DEF ClockAhead, Shapes, Process
        <4> QED
          BY <2>4, <4>1, <4>2, <4>3 DEF New, Parent
      <3> QED
        BY <1>1, <2>4, <3>1 DEF New
    <2> QED
      BY <2>2, <2>3, <2>4 DEF Evolves
  <1> QED
    BY <1>1, <1>2 DEF ClockAhead

\* What an identity of the past names, it went on naming or names nothing.
LEMMA IdentityKept ==
    ASSUME Shapes, Evolves, NEW id \in Id, id.start < clock,
           id.pid \in Pids, procs'[id.pid].kind \notin Dead,
           procs'[id.pid].start = id.start
    PROVE  Same(id.pid) /\ SameProcess(id)
  <1>1. Same(id.pid) \/ New(id.pid)
    BY LiveKept
  <1>2. Same(id.pid)
    BY <1>1 DEF New, Shapes, Id
  <1> QED
    BY <1>2 DEF SameProcess, Live, Same

\* What a record names goes on to be a child of its monitor, or is gone.
LEMMA NamesKept ==
    ASSUME Shapes, Evolves, NEW id \in Id, NEW monitor \in Id,
           Names(id, monitor)
    PROVE  /\ id.start < clock'
           /\ /\ id.pid \in Pids /\ procs'[id.pid].kind \notin Dead
              /\ procs'[id.pid].start = id.start
              => procs'[id.pid].kind = "unit" /\ procs'[id.pid].parent = monitor
  <1>1. id.start < clock /\ id.start < clock'
    BY DEF Names, Evolves, Shapes, Id
  <1> QED
    BY <1>1, IdentityKept DEF Names, Same

\* An orphan stays one: its monitor does not come back.
LEMMA OrphanKept ==
    ASSUME Shapes, Evolves, ClockAhead, NEW id \in Id, id.start < clock,
           SameProcess(id) => Orphan(id)
    PROVE  /\ id.start < clock'
           /\ /\ id.pid \in Pids /\ procs'[id.pid].kind \notin Dead
              /\ procs'[id.pid].start = id.start
              => /\ procs'[id.pid].kind = "unit"
                 /\ \A q \in Pids : Alive(q)' => Self(q)' # procs'[id.pid].parent
  <1>1. id.start < clock'
    BY DEF Evolves, Shapes, Id
  <1>2. ASSUME id.pid \in Pids, procs'[id.pid].kind \notin Dead,
               procs'[id.pid].start = id.start
        PROVE  /\ procs'[id.pid].kind = "unit"
               /\ \A q \in Pids : Alive(q)' => Self(q)' # procs'[id.pid].parent
    <2>1. Same(id.pid) /\ Orphan(id)
      BY <1>2, IdentityKept
    <2>2. procs'[id.pid].parent = procs[id.pid].parent
          /\ procs[id.pid].parent.start < clock
      BY <1>2, <2>1 DEF Same, ClockAhead
    <2>3. ASSUME NEW q \in Pids, Alive(q)'
          PROVE  Self(q)' # procs'[id.pid].parent
      <3>1. CASE Alive(q) /\ Self(q)' = Self(q)
        BY <2>1, <2>2, <3>1 DEF Orphan
      <3>2. CASE procs'[q].start = clock
        <4>1. Self(q)'.start = clock
          BY <3>2 DEF Self
        <4> QED
          BY <2>2, <4>1 DEF Shapes
      <3> QED
        BY <2>3, <3>1, <3>2, MonitorsKept
    <2> QED
      BY <2>1, <2>3 DEF Orphan, Same
  <1> QED
    BY <1>1, <1>2

(***************************************************************************)
(* Records and children.                                                   *)
(***************************************************************************)
Recorded(p, u) ==
    /\ RecordOwner(p, u) /\ Live(ChildOf(p, u).id.pid)
    /\ records'[u] = [child |-> Self(ChildOf(p, u).id.pid), monitor |-> Self(p)]

\* A step changes a record only by removing it or by recordOwner.
LEMMA RecordsStep ==
    ASSUME Shapes, NEW p \in Pids, Starting(p) \/ Serving(p) \/ World(p),
           NEW u \in Units
    PROVE  \/ records'[u] \in {records[u], NoRecord}
           \/ Recorded(p, u)
  <1>1. ASSUME NEW v \in Units, RecordOwner(p, v)
        PROVE  \/ records'[u] = records[u]
               \/ Recorded(p, u)
    <2>1. CASE u = v
      <3>1. CASE Live(ChildOf(p, u).id.pid)
        BY <1>1, <2>1, <3>1 DEF RecordOwner, Recorded, Shapes
      <3>2. CASE ~Live(ChildOf(p, u).id.pid)
        BY <1>1, <2>1, <3>2 DEF RecordOwner
      <3> QED
        BY <3>1, <3>2
    <2>2. CASE u # v
      BY <1>1, <2>2 DEF RecordOwner, Shapes
    <2> QED
      BY <2>1, <2>2
  <1>2. ASSUME NEW v \in Units,
               ReclaimSkip(p, v) \/ ReclaimDone(p, v) \/ RemoveRecord(p, v)
        PROVE  records'[u] \in {records[u], NoRecord}
    BY <1>2 DEF ReclaimSkip, ReclaimDone, RemoveRecord, Forget, Shapes
  <1>3. ASSUME NEW v \in Units,
               \/ ReclaimSignal(p, v) \/ ReclaimKill(p, v)
               \/ Fork(p, v) \/ Waited(p, v)
        PROVE  records' = records
    BY <1>3 DEF ReclaimSignal, ReclaimKill, Fork, Waited
  <1>4. CASE \/ Probe(p) \/ RemoveSocket(p) \/ Listen(p) \/ RunLoop(p)
             \/ Terminate(p) \/ CloseListener(p) \/ Finish(p) \/ World(p)
    BY <1>4 DEF Probe, RemoveSocket, Listen, RunLoop, Terminate, CloseListener,
                Finish, World, Launch, Crash, OtherStarts, Ends
  <1> QED
    BY <1>1, <1>2, <1>3, <1>4 DEF Starting, Serving

\* The types hold at first, start times included.
LEMMA StartedInit == Init => Started /\ Identified
  BY DEF Init, Started, Identified, Free

\* A step gives a new process the clock for its start time.
LEMMA StartedStep ==
    ASSUME Shapes, Evolves, Started
    PROVE  Started'
  <1>1. clock \in Nat /\ clock > 0 /\ clock' \in {clock, clock + 1}
    BY DEF Shapes, Started, Evolves
  <1>2. ASSUME NEW p \in Pids, procs'[p].kind # "free"
        PROVE  procs'[p].start > 0
    <2>1. CASE Same(p) \/ Zombie(p)
      BY <1>2, <2>1 DEF Same, Zombie, Started
    <2>2. CASE New(p)
      BY <1>1, <2>2 DEF New
    <2> QED
      BY <1>2, <2>1, <2>2 DEF Evolves, Free
  <1> QED
    BY <1>1, <1>2 DEF Started

\* recordOwner reads both identities from processes that are there.
LEMMA IdentifiedStep ==
    ASSUME Shapes, Started, Identified, NEW p \in Pids,
           Starting(p) \/ Serving(p) \/ World(p)
    PROVE  Identified'
  <1>1. ASSUME NEW u \in Units, records'[u] # NoRecord
        PROVE  records'[u].child.start > 0 /\ records'[u].monitor.start > 0
    <2>1. CASE records'[u] \in {records[u], NoRecord}
      BY <1>1, <2>1 DEF Identified
    <2>2. CASE Recorded(p, u)
      <3> DEFINE pid == ChildOf(p, u).id.pid
      <3>1. pid \in Pids /\ procs[pid].start > 0
        BY <2>2 DEF Recorded, Live, Dead, Started
      <3>2. procs[p].start > 0
        BY <2>2 DEF Recorded, RecordOwner, InLoop, Alive, Started
      <3> QED
        BY <2>2, <3>1, <3>2 DEF Recorded, Self
    <2> QED
      BY <2>1, <2>2, RecordsStep
  <1> QED
    BY <1>1 DEF Identified

\* In every state of any number of monitors, processes and records have the
\* shape the code gives them, and every ownership record names two processes
\* by pid and start time (recordOwner).
THEOREM SuccessionTyped == Spec => []TypeOK
  <1>1. Init => TypeOK
    BY TypeInit, StartedInit DEF TypeOK
  <1>2. TypeOK /\ [Next]_vars => TypeOK'
    <2> SUFFICES ASSUME TypeOK, [Next]_vars PROVE TypeOK'
      OBVIOUS
    <2>1. Shapes'
      BY TypeStep DEF TypeOK
    <2>2. CASE Next
      BY <2>1, <2>2, NextEvolves, StartedStep, IdentifiedStep DEF Next, TypeOK
    <2>3. CASE UNCHANGED vars
      BY <2>1, <2>3 DEF TypeOK, Started, Identified, vars
    <2> QED
      BY <2>2, <2>3
  <1> QED
    BY <1>1, <1>2, PTL DEF Spec

NewChild(p, u) ==
    /\ Alive(p) /\ ChildOf(p, u)'.id.pid \in Pids
    /\ ChildOf(p, u)'.id.start = clock /\ clock' = clock + 1
    /\ procs'[ChildOf(p, u)'.id.pid].kind = "unit"
    /\ procs'[ChildOf(p, u)'.id.pid].parent = Self(p)
    /\ procs'[ChildOf(p, u)'.id.pid].unit = {u}
    /\ procs'[ChildOf(p, u)'.id.pid].start = clock

\* A child that is not waited for was not before, or is forked now.
LEMMA ChildrenStep ==
    ASSUME Shapes, NEW p \in Pids, Starting(p) \/ Serving(p) \/ World(p),
           NEW q \in Pids, NEW u \in Units, ChildOf(q, u)'.st \in Unwaited
    PROVE  \/ /\ ChildOf(q, u).st \in Unwaited
              /\ ChildOf(q, u)'.id = ChildOf(q, u).id
           \/ q = p /\ NewChild(q, u)
  <1>1. \A m : SetMon(p, m) => \A v \in Pids : mons'[v] = IF v = p THEN m ELSE mons[v]
    BY DEF SetMon, Shapes
  <1>2. \A stage : At(stage).child[u].st \notin Unwaited
    BY DEF At, NoChild, Unwaited
  <1>3. mons \in [Pids -> Monitor] /\ mons[p] \in Monitor
    BY DEF Shapes
  <1>4. ASSUME NEW v \in Units, NEW c, SetChild(p, v, c)
        PROVE  ChildOf(q, u)' = IF q = p /\ u = v THEN c ELSE ChildOf(q, u)
    BY <1>1, <1>3, <1>4 DEF SetChild, ChildOf, Monitor
  <1>5. ASSUME NEW v \in Units, Fork(p, v)
        PROVE  ChildOf(q, u)' = ChildOf(q, u) \/ (q = p /\ NewChild(q, u))
    <2>1. PICK c \in Pids :
            /\ Spawned(c, [kind |-> "unit", start |-> clock, unit |-> {v},
                           parent |-> Self(p), recorded |-> FALSE])
            /\ SetChild(p, v, [st |-> "forked", owned |-> FALSE,
                               id |-> [pid |-> c, start |-> clock]])
      BY <1>5 DEF Fork
    <2>2. CASE q = p /\ u = v
      <3>1. ChildOf(q, u)' = [st |-> "forked", owned |-> FALSE,
                              id |-> [pid |-> c, start |-> clock]]
        BY <1>4, <2>1, <2>2
      <3>2. procs'[c] = [kind |-> "unit", start |-> clock, unit |-> {v},
                         parent |-> Self(p), recorded |-> FALSE]
            /\ clock' = clock + 1
        BY <2>1 DEF Spawned, Shapes
      <3> QED
        BY <1>5, <2>2, <3>1, <3>2 DEF NewChild, Fork, InLoop
    <2>3. CASE ~(q = p /\ u = v)
      BY <1>4, <2>1, <2>3
    <2> QED
      BY <2>2, <2>3
  <1>6. ASSUME NEW v \in Units, RecordOwner(p, v)
        PROVE  /\ ChildOf(q, u).st \in Unwaited
               /\ ChildOf(q, u)'.id = ChildOf(q, u).id
    <2> DEFINE live == Live(ChildOf(p, v).id.pid)
               c == [ChildOf(p, v) EXCEPT !.st = "up", !.owned = live]
    <2>1. ChildOf(p, v) \in Child
      BY <1>3 DEF ChildOf, Monitor
    <2>2. c.id = ChildOf(p, v).id
      BY <2>1 DEF Child
    <2>3. SetChild(p, v, c) /\ ChildOf(p, v).st \in Unwaited
      BY <1>6 DEF RecordOwner, Unwaited
    <2> HIDE DEF c
    <2> QED
      BY <1>4, <2>2, <2>3
  <1>7. ASSUME NEW v \in Units,
               ReclaimSkip(p, v) \/ ReclaimSignal(p, v) \/ ReclaimDone(p, v)
        PROVE  ChildOf(q, u)' = ChildOf(q, u)
    <2>1. PICK m : SetMon(p, m) /\ m.child = mons[p].child
      <3>1. CASE ReclaimSkip(p, v)
        BY <1>3, <3>1 DEF ReclaimSkip, Monitor
      <3>2. CASE ReclaimSignal(p, v)
        <4> DEFINE m == [mons[p] EXCEPT !.victim[v] = records[v].child]
        <4>1. SetMon(p, m)
          BY <3>2 DEF ReclaimSignal
        <4>2. m.child = mons[p].child
          BY <1>3 DEF Monitor
        <4> QED
          BY <4>1, <4>2
      <3>3. CASE ReclaimDone(p, v)
        <4> DEFINE m == [mons[p] EXCEPT !.victim[v] = Nobody, !.todo = @ \ {v}]
        <4>1. SetMon(p, m)
          BY <3>3 DEF ReclaimDone
        <4>2. m.child = mons[p].child
          BY <1>3 DEF Monitor
        <4> QED
          BY <4>1, <4>2
      <3> QED
        BY <1>7, <3>1, <3>2, <3>3
    <2> QED
      BY <1>1, <2>1 DEF ChildOf
  <1>8. CASE RemoveSocket(p) \/ RunLoop(p) \/ Terminate(p) \/ CloseListener(p)
    <2>1. \E m : SetMon(p, m) /\ m.child = mons[p].child
      BY <1>3, <1>8 DEF RemoveSocket, RunLoop, Terminate, CloseListener, Monitor
    <2> QED
      BY <1>1, <2>1 DEF ChildOf
  <1>9. ASSUME NEW stage, SetMon(p, At(stage))
        PROVE  ChildOf(q, u)' = ChildOf(q, u)
    <2>1. CASE q = p
      BY <1>1, <1>2, <1>9, <2>1 DEF ChildOf
    <2>2. CASE q # p
      BY <1>1, <1>9, <2>2 DEF ChildOf
    <2> QED
      BY <2>1, <2>2
  <1>10. CASE Probe(p) \/ Listen(p)
    <2>1. CASE Refuse(p)
      BY <1>9, <2>1 DEF Refuse
    <2>2. CASE ~Refuse(p)
      <3>1. PICK m : SetMon(p, m) /\ m.child = mons[p].child
        <4> DEFINE todo == {v \in Units : records[v] # NoRecord}
        <4>1. CASE Probe(p)
          <5>1. SetMon(p, [mons[p] EXCEPT !.pc = "remove"])
            BY <2>2, <4>1 DEF Probe
          <5>2. [mons[p] EXCEPT !.pc = "remove"].child = mons[p].child
            BY <1>3 DEF Monitor
          <5> QED
            BY <5>1, <5>2
        <4>2. CASE Listen(p)
          <5>1. SetMon(p, [mons[p] EXCEPT !.pc = "reclaim", !.todo = todo])
            BY <2>2, <4>2 DEF Listen
          <5>2. [mons[p] EXCEPT !.pc = "reclaim", !.todo = todo].child
                  = mons[p].child
            BY <1>3 DEF Monitor
          <5> QED
            BY <5>1, <5>2
        <4> QED
          BY <1>10, <4>1, <4>2
      <3> QED
        BY <1>1, <3>1 DEF ChildOf
    <2> QED
      BY <2>1, <2>2
  <1>11. CASE Finish(p) \/ World(p)
    <2>1. \/ SetMon(p, At("off")) \/ SetMon(p, At("probe"))
          \/ mons' = mons
      BY <1>11 DEF Finish, World, Launch, Crash, OtherStarts, Ends
    <2> QED
      BY <1>9, <2>1 DEF ChildOf
  <1>12. ASSUME NEW v \in Units, ReclaimKill(p, v)
         PROVE  ChildOf(q, u)' = ChildOf(q, u)
    BY <1>12 DEF ReclaimKill, ChildOf
  <1>13. ASSUME NEW v \in Units, Waited(p, v) \/ RemoveRecord(p, v)
         PROVE  ChildOf(q, u)' = ChildOf(q, u)
    <2>1. ChildOf(p, v) \in Child
      BY <1>3 DEF ChildOf, Monitor
    <2>2. [ChildOf(p, v) EXCEPT !.st = "waited"].st \notin Unwaited
          /\ NoChild.st \notin Unwaited
      BY <2>1 DEF Child, NoChild, Unwaited
    <2>3. PICK c : SetChild(p, v, c) /\ c.st \notin Unwaited
      BY <1>13, <2>2 DEF Waited, RemoveRecord
    <2> QED
      BY <1>4, <2>3
  <1> QED
    BY <1>5, <1>6, <1>7, <1>8, <1>10, <1>11, <1>12, <1>13 DEF Starting, Serving

\* A monitor past its reclaim stays so while it lives.
LEMMA ServingKept ==
    ASSUME Shapes, NEW p \in Pids, Starting(p) \/ Serving(p) \/ World(p),
           NEW q \in Pids, Alive(q), Alive(q)',
           mons[q].pc \in {"run", "closing"}
    PROVE  mons'[q].pc \in {"run", "closing"}
  <1>1. \A m : SetMon(p, m) => \A v \in Pids : mons'[v] = IF v = p THEN m ELSE mons[v]
    BY DEF SetMon, Shapes
  <1>2. mons \in [Pids -> Monitor] /\ mons[p] \in Monitor
    BY DEF Shapes
  <1>3. CASE q # p \/ mons' = mons
    <2>1. mons' = mons \/ \E m : SetMon(p, m)
      BY DEF Starting, Serving, World, Probe, RemoveSocket, Listen, RunLoop,
             ReclaimSkip, ReclaimSignal, ReclaimKill, ReclaimDone, Fork,
             RecordOwner, Waited, RemoveRecord, SetChild, Terminate,
             CloseListener, Finish, Launch, Crash, OtherStarts, Ends, Refuse
    <2> QED
      BY <1>1, <1>3, <2>1
  <1>4. CASE q = p /\ mons' # mons
    <2>1. CASE Starting(p)
      BY <1>4, <2>1 DEF Starting, Probe, RemoveSocket, Listen, RunLoop, Reclaiming,
             ReclaimSkip, ReclaimSignal, ReclaimKill, ReclaimDone
    <2>2. CASE World(p)
      <3>1. procs'[p] = Free \/ procs[p].kind = "free" \/ mons' = mons
        BY <2>2 DEF World, Launch, Spawned, Crash, Gone, OtherStarts, Ends
      <3> QED
        BY <1>4, <3>1 DEF Alive, Free
    <2>3. CASE Serving(p)
      <3>1. ASSUME NEW u \in Units, NEW c, SetChild(p, u, c)
            PROVE  mons'[p].pc = mons[p].pc
        BY <1>1, <1>2, <3>1 DEF SetChild, Monitor
      <3>2. CASE \E u \in Units : \/ Fork(p, u) \/ RecordOwner(p, u)
                                 \/ Waited(p, u) \/ RemoveRecord(p, u)
        <4>1. \E u \in Units : \E c : SetChild(p, u, c)
          BY <3>2 DEF Fork, RecordOwner, Waited, RemoveRecord
        <4> QED
          BY <1>4, <3>1, <4>1
      <3>3. CASE Terminate(p) \/ CloseListener(p)
        BY <1>1, <1>2, <1>4, <3>3 DEF Terminate, CloseListener, InLoop, Monitor
      <3>4. CASE Finish(p)
        BY <1>4, <3>4 DEF Finish, Gone, Alive, Free
      <3> QED
        BY <2>3, <3>2, <3>3, <3>4 DEF Serving
    <2> QED
      BY <2>1, <2>2, <2>3
  <1> QED
    BY <1>3, <1>4

(***************************************************************************)
(* OwnershipKnown is inductive: one lemma for each of its parts.           *)
(***************************************************************************)
\* The ownership invariant holds at first: there is no process.
LEMMA OwnershipInit == Init => OwnershipKnown
  <1> SUFFICES ASSUME Init PROVE OwnershipKnown
    OBVIOUS
  <1>1. \A p \in Pids : ~Alive(p)
    BY DEF Init, Alive, Free
  <1>2. 0 \notin Pids
    BY SuccessionAssumption
  <1>3. ClockAhead
    BY DEF Init, ClockAhead, Free, Nobody
  <1>4. RecordsKnown
    BY <1>2 DEF Init, NoRecord, Nobody, RecordsKnown, Names, SameProcess, Live
  <1> QED
    BY <1>1, <1>3, <1>4
       DEF OwnershipKnown, ChildrenHeld, VictimsOrphaned, OwnRecordsLater

\* A record keeps naming a child of its monitor, or nothing.
LEMMA RecordsKnownStep ==
    ASSUME Shapes, OwnershipKnown, Evolves,
           NEW p \in Pids, Starting(p) \/ Serving(p) \/ World(p)
    PROVE  RecordsKnown'
  <1>1. clock \in Nat /\ clock > 0 /\ clock' \in {clock, clock + 1}
    BY DEF Shapes, OwnershipKnown, ClockAhead, Evolves
  <1>2. ASSUME NEW u \in Units
        PROVE  /\ records'[u].monitor.start < clock'
               /\ Names(records[u].child, records[u].monitor)'
    <2>1. CASE records'[u] = records[u]
      <3> DEFINE id == records[u].child
                 monitor == records[u].monitor
      <3>1. id \in Id /\ monitor \in Id
        BY DEF Shapes, Record
      <3>2. Names(id, monitor) /\ monitor.start < clock
        BY DEF OwnershipKnown, RecordsKnown
      <3>3. /\ id.start < clock'
            /\ /\ id.pid \in Pids /\ procs'[id.pid].kind \notin Dead
               /\ procs'[id.pid].start = id.start
               => procs'[id.pid].kind = "unit" /\ procs'[id.pid].parent = monitor
        <4> HIDE DEF id, monitor
        <4> QED
          BY <3>1, <3>2, NamesKept
      <3>4. monitor.start \in Nat
        BY <3>1 DEF Id
      <3> QED
        BY <1>1, <2>1, <3>2, <3>3, <3>4 DEF Names, SameProcess, Live
    <2>2. CASE records'[u] = NoRecord
      <3>1. 0 \notin Pids
        BY SuccessionAssumption
      <3> QED
        BY <1>1, <2>2, <3>1 DEF NoRecord, Nobody, Names, SameProcess, Live
    <2>3. CASE Recorded(p, u)
      <3> DEFINE pid == ChildOf(p, u).id.pid
      <3>1. /\ Alive(p) /\ ChildOf(p, u).st \in Unwaited /\ Live(pid)
            /\ clock' = clock
            /\ records'[u].child = Self(pid) /\ records'[u].monitor = Self(p)
        BY <2>3 DEF Recorded, RecordOwner, InLoop, Unwaited
      <3>2. Holds(p, u)
        BY <3>1 DEF OwnershipKnown, ChildrenHeld
      <3>3. /\ pid \in Pids /\ procs[pid].kind = "unit"
            /\ procs[pid].parent = Self(p)
        BY <3>1, <3>2 DEF Holds, Live, Dead
      <3>4. procs'[pid].kind = "unit" /\ procs'[pid].parent = Self(p)
        BY <2>3, <3>1, <3>3 DEF Recorded, RecordOwner, Shapes, Process
      <3>5. procs[pid].start < clock /\ procs[p].start < clock
        BY <3>3 DEF OwnershipKnown, ClockAhead
      <3> HIDE DEF pid
      <3>6. /\ records'[u].child.pid = pid
            /\ records'[u].child.start = procs[pid].start
            /\ records'[u].monitor.start = procs[p].start
        BY <3>1 DEF Self
      <3> QED
        BY <3>1, <3>4, <3>5, <3>6 DEF Names, SameProcess
    <2> QED
      BY <2>1, <2>2, <2>3, RecordsStep
  <1> QED
    BY <1>2 DEF RecordsKnown

\* The process of a child that is not waited for stays in the table.
LEMMA HeldStep ==
    ASSUME Shapes, OwnershipKnown,
           NEW p \in Pids, Starting(p) \/ Serving(p) \/ World(p),
           NEW q \in Pids, NEW u \in Units, Alive(q), Alive(q)',
           ChildOf(q, u).st \in Unwaited, ChildOf(q, u)'.st \in Unwaited
    PROVE  \/ Same(ChildOf(q, u).id.pid)
           \/ /\ Zombie(ChildOf(q, u).id.pid)
              /\ procs'[ChildOf(q, u).id.pid].unit = {u}
  <1> DEFINE pid == ChildOf(q, u).id.pid
  <1>1. /\ pid \in Pids /\ procs[pid].kind \in {"unit", "zombie"}
        /\ procs[pid].parent = Self(q) /\ procs[pid].unit = {u}
    BY DEF OwnershipKnown, ChildrenHeld, Holds
  <1> HIDE DEF pid
  <1>2. procs \in [Pids -> Process]
    BY DEF Shapes
  <1>3. CASE procs' = procs
    BY <1>3 DEF Same, pid
  <1>4. ASSUME NEW c \in Pids, NEW proc, Spawned(c, proc)
        PROVE  Same(pid)
    BY <1>1, <1>2, <1>4 DEF Spawned, Same
  <1>5. CASE Gone(p) /\ Alive(p)
    <2>1. ~Alive(p)'
      BY <1>5 DEF Gone, Alive, Free
    <2>2. q # p /\ Self(q) # Self(p)
      BY <2>1 DEF Self
    <2>3. CASE pid = p
      BY <1>1, <1>5, <2>3 DEF Alive
    <2>4. CASE pid # p
      BY <1>1, <1>5, <2>2, <2>4 DEF Gone, Same, pid
    <2> QED
      BY <2>3, <2>4
  <1>6. CASE Ends(p)
    <2>1. CASE pid = p
      <3>1. SameProcess(procs[p].parent)
        BY <1>1, <2>1 DEF SameProcess, Live, Self, Alive, Dead
      <3>2. procs'[p] = [procs[p] EXCEPT !.kind = "zombie"]
        BY <1>2, <1>6, <3>1 DEF Ends
      <3> QED
        BY <1>1, <1>2, <2>1, <3>2 DEF Zombie, Process, pid
    <2>2. CASE pid # p
      BY <1>1, <1>2, <1>6, <2>2 DEF Ends, Same, pid
    <2> QED
      BY <2>1, <2>2
  <1>7. ASSUME NEW v \in Units, ReclaimKill(p, v)
        PROVE  Same(pid)
    <2> DEFINE id == mons[p].victim[v]
    <2>1. SameProcess(id) /\ Alive(p)
      BY <1>7 DEF ReclaimKill, Reclaiming
    <2>2. Orphan(id)
      BY <2>1 DEF OwnershipKnown, VictimsOrphaned
    <2>3. pid # id.pid
      BY <1>1, <2>2 DEF Orphan
    <2> QED
      BY <1>1, <1>2, <1>7, <2>3 DEF ReclaimKill, Same
  <1>8. ASSUME NEW v \in Units, Waited(p, v)
        PROVE  Same(pid)
    <2> DEFINE other == ChildOf(p, v).id.pid
    <2>1. Alive(p) /\ ChildOf(p, v).st \in Unwaited
      BY <1>8 DEF Waited, InLoop, Unwaited
    <2>2. procs[other].parent = Self(p) /\ procs[other].unit = {v}
      BY <2>1 DEF OwnershipKnown, ChildrenHeld, Holds
    <2>3. CASE q = p /\ u = v
      <3>1. SetChild(p, v, [ChildOf(p, v) EXCEPT !.st = "waited"])
        BY <1>8 DEF Waited
      <3>2. ChildOf(p, v)'.st = "waited"
        BY <3>1 DEF SetChild, SetMon, ChildOf, Shapes, Monitor, Child
      <3> QED
        BY <2>3, <3>2 DEF Unwaited
    <2>4. CASE ~(q = p /\ u = v)
      <3>1. pid # other
        BY <1>1, <2>2, <2>4 DEF Self
      <3> QED
        BY <1>1, <1>2, <1>8, <3>1 DEF Waited, Same
    <2> QED
      BY <2>3, <2>4
  <1>9. ASSUME NEW v \in Units, RecordOwner(p, v)
        PROVE  Same(pid)
    BY <1>1, <1>2, <1>9 DEF RecordOwner, Same, Process
  <1>10. ASSUME NEW v \in Units, Fork(p, v)
         PROVE  Same(pid)
    BY <1>4, <1>10 DEF Fork
  <1>11. CASE Launch(p) \/ OtherStarts(p)
    BY <1>4, <1>11 DEF Launch, OtherStarts, pid
  <1>12. ASSUME NEW v \in Units,
                \/ ReclaimSkip(p, v) \/ ReclaimSignal(p, v)
                \/ ReclaimDone(p, v) \/ RemoveRecord(p, v)
         PROVE  procs' = procs
    BY <1>12 DEF ReclaimSkip, ReclaimSignal, ReclaimDone, RemoveRecord
  <1>13. CASE \/ Probe(p) \/ Listen(p) \/ RemoveSocket(p) \/ RunLoop(p)
              \/ Terminate(p) \/ CloseListener(p) \/ Finish(p) \/ Crash(p)
    <2>1. procs' = procs \/ (Gone(p) /\ Alive(p))
      BY <1>13 DEF Probe, Listen, Refuse, RemoveSocket, RunLoop, Terminate,
             CloseListener, Finish, Crash
    <2> QED
      BY <1>3, <1>5, <2>1
  <1> QED
    BY <1>3, <1>6, <1>7, <1>8, <1>9, <1>10, <1>11, <1>12, <1>13
       DEF Starting, Serving, World, pid

\* A child keeps its pid until it is waited for.
LEMMA ChildrenHeldStep ==
    ASSUME Shapes, OwnershipKnown, Evolves,
           NEW p \in Pids, Starting(p) \/ Serving(p) \/ World(p)
    PROVE  ChildrenHeld'
  <1>1. ASSUME NEW q \in Pids, NEW u \in Units, Alive(q)',
               ChildOf(q, u)'.st \in Unwaited
        PROVE  Holds(q, u)'
    <2>1. mons'[q] # At("probe")
      BY <1>1 DEF ChildOf, At, NoChild, Unwaited
    <2>2. Alive(q) /\ Self(q)' = Self(q)
      BY <1>1, <2>1, MonitorsKept
    <2>3. CASE /\ ChildOf(q, u).st \in Unwaited
               /\ ChildOf(q, u)'.id = ChildOf(q, u).id
      <3>1. Holds(q, u)
        BY <2>2, <2>3 DEF OwnershipKnown, ChildrenHeld
      <3>2. \/ Same(ChildOf(q, u).id.pid)
            \/ /\ Zombie(ChildOf(q, u).id.pid)
               /\ procs'[ChildOf(q, u).id.pid].unit = {u}
        BY <1>1, <2>2, <2>3, HeldStep
      <3> QED
        BY <2>2, <2>3, <3>1, <3>2 DEF Holds, Same, Zombie
    <2>4. CASE q = p /\ NewChild(q, u)
      BY <2>2, <2>4 DEF NewChild, Holds
    <2> QED
      BY <1>1, <2>3, <2>4, ChildrenStep
  <1> QED
    BY <1>1 DEF ChildrenHeld

\* A victim was one before, or is the child of a record that is read now.
LEMMA VictimsStep ==
    ASSUME Shapes, NEW p \in Pids, Starting(p) \/ Serving(p) \/ World(p),
           NEW q \in Pids, NEW u \in Units
    PROVE  \/ mons'[q].victim[u] \in {mons[q].victim[u], Nobody}
           \/ q = p /\ ReclaimSignal(p, u)
  <1>1. \A m : SetMon(p, m) => \A v \in Pids : mons'[v] = IF v = p THEN m ELSE mons[v]
    BY DEF SetMon, Shapes
  <1>2. mons \in [Pids -> Monitor] /\ mons[p] \in Monitor
    BY DEF Shapes
  <1>3. ASSUME NEW m, SetMon(p, m), m.victim = mons[p].victim
        PROVE  mons'[q].victim[u] = mons[q].victim[u]
    BY <1>1, <1>3
  <1>4. ASSUME NEW stage, SetMon(p, At(stage))
        PROVE  mons'[q].victim[u] \in {mons[q].victim[u], Nobody}
    <2>1. At(stage).victim[u] = Nobody
      BY DEF At
    <2> QED
      BY <1>1, <1>4, <2>1
  <1>5. ASSUME NEW v \in Units, NEW c, SetChild(p, v, c)
        PROVE  mons'[q].victim[u] = mons[q].victim[u]
    <2>1. [mons[p] EXCEPT !.child[v] = c].victim = mons[p].victim
      BY <1>2 DEF Monitor
    <2> QED
      BY <1>3, <1>5, <2>1 DEF SetChild
  <1>6. CASE Starting(p)
    <2>1. ASSUME NEW stage, SetMon(p, [mons[p] EXCEPT !.pc = stage])
          PROVE  mons'[q].victim[u] = mons[q].victim[u]
      <3>1. [mons[p] EXCEPT !.pc = stage].victim = mons[p].victim
        BY <1>2 DEF Monitor
      <3> QED
        BY <1>3, <2>1, <3>1
    <2>2. CASE Refuse(p)
      BY <1>4, <2>2 DEF Refuse
    <2>3. CASE Probe(p) /\ ~Refuse(p)
      BY <2>1, <2>3 DEF Probe
    <2>4. CASE Listen(p) /\ ~Refuse(p)
      <3> DEFINE m == [mons[p] EXCEPT !.pc = "reclaim",
                             !.todo = {v \in Units : records[v] # NoRecord}]
      <3>1. SetMon(p, m)
        BY <2>4 DEF Listen
      <3>2. m.victim = mons[p].victim
        BY <1>2 DEF Monitor
      <3> QED
        BY <1>3, <3>1, <3>2
    <2>5. CASE RemoveSocket(p) \/ RunLoop(p)
      BY <2>1, <2>5 DEF RemoveSocket, RunLoop
    <2>6. ASSUME NEW v \in Units, ReclaimSkip(p, v)
          PROVE  mons'[q].victim[u] = mons[q].victim[u]
      <3>1. [mons[p] EXCEPT !.todo = @ \ {v}].victim = mons[p].victim
        BY <1>2 DEF Monitor
      <3> QED
        BY <1>3, <2>6, <3>1 DEF ReclaimSkip
    <2>7. ASSUME NEW v \in Units, ReclaimSignal(p, v), ~(q = p /\ u = v)
          PROVE  mons'[q].victim[u] = mons[q].victim[u]
      <3> DEFINE m == [mons[p] EXCEPT !.victim[v] = records[v].child]
      <3>1. SetMon(p, m)
        BY <2>7 DEF ReclaimSignal
      <3>2. u # v => m.victim[u] = mons[p].victim[u]
        BY <1>2 DEF Monitor
      <3> HIDE DEF m
      <3> QED
        BY <1>1, <2>7, <3>1, <3>2
    <2>8. ASSUME NEW v \in Units, ReclaimDone(p, v)
          PROVE  mons'[q].victim[u] \in {mons[q].victim[u], Nobody}
      <3> DEFINE m == [mons[p] EXCEPT !.victim[v] = Nobody, !.todo = @ \ {v}]
      <3>1. SetMon(p, m)
        BY <2>8 DEF ReclaimDone
      <3>2. m.victim[u] \in {mons[p].victim[u], Nobody}
        BY <1>2 DEF Monitor
      <3> HIDE DEF m
      <3> QED
        BY <1>1, <3>1, <3>2
    <2>9. ASSUME NEW v \in Units, ReclaimKill(p, v)
          PROVE  mons'[q].victim[u] = mons[q].victim[u]
      BY <2>9 DEF ReclaimKill
    <2> QED
      BY <1>6, <2>2, <2>3, <2>4, <2>5, <2>6, <2>7, <2>8, <2>9 DEF Starting
  <1>7. CASE Serving(p)
    <2>1. CASE Terminate(p)
      <3>1. [mons[p] EXCEPT !.stopping = TRUE].victim = mons[p].victim
        BY <1>2 DEF Monitor
      <3> QED
        BY <1>3, <2>1, <3>1 DEF Terminate
    <2>2. CASE CloseListener(p)
      <3>1. [mons[p] EXCEPT !.pc = "closing"].victim = mons[p].victim
        BY <1>2 DEF Monitor
      <3> QED
        BY <1>3, <2>2, <3>1 DEF CloseListener
    <2>3. CASE Finish(p)
      BY <1>4, <2>3 DEF Finish
    <2>4. CASE \E v \in Units : \/ Fork(p, v) \/ RecordOwner(p, v)
                               \/ Waited(p, v) \/ RemoveRecord(p, v)
      <3>1. \E v \in Units : \E c : SetChild(p, v, c)
        BY <2>4 DEF Fork, RecordOwner, Waited, RemoveRecord
      <3> QED
        BY <1>5, <3>1
    <2> QED
      BY <1>7, <2>1, <2>2, <2>3, <2>4 DEF Serving
  <1>8. CASE World(p)
    <2>1. \/ SetMon(p, At("off")) \/ SetMon(p, At("probe"))
          \/ mons' = mons
      BY <1>8 DEF World, Launch, Crash, OtherStarts, Ends
    <2> QED
      BY <1>4, <2>1
  <1> QED
    BY <1>6, <1>7, <1>8

\* What reclaimOne is about to signal: the recorded child still, whose parent
\* is the recorded monitor, which is neither another living monitor, for
\* reclaimOne asked, nor this one, which has no records of its own yet.
LEMMA SignalsOrphan ==
    ASSUME Shapes, OwnershipKnown, NEW p \in Pids, NEW u \in Units,
           ReclaimSignal(p, u)
    PROVE  Orphan(records[u].child)
  <1> DEFINE id == records[u].child
  <1>1. /\ SameProcess(id) /\ Reclaiming(p)
        /\ ~MonitorLives(p, records[u])
    BY DEF ReclaimSignal
  <1>2. /\ procs[id.pid].kind = "unit" /\ procs[id.pid].start = id.start
        /\ procs[id.pid].parent = records[u].monitor
    BY <1>1 DEF OwnershipKnown, RecordsKnown, Names, SameProcess
  <1>3. ASSUME NEW q \in Pids, Alive(q), Self(q) = records[u].monitor
        PROVE  FALSE
    <2>1. CASE q = p
      BY <1>1, <1>3, <2>1 DEF OwnershipKnown, OwnRecordsLater, Reclaiming
    <2>2. CASE q # p
      <3>1. /\ records[u].monitor.pid = q
            /\ records[u].monitor.start = procs[q].start
        BY <1>3 DEF Self
      <3>2. SameProcess(records[u].monitor)
        BY <1>3, <3>1 DEF SameProcess, Live, Alive, Dead
      <3> QED
        BY <1>1, <2>2, <3>1, <3>2 DEF MonitorLives
    <2> QED
      BY <2>1, <2>2
  <1> HIDE DEF id
  <1> QED
    BY <1>2, <1>3 DEF Orphan, id

\* What a reclaim waits for stays an orphan.
LEMMA VictimsOrphanedStep ==
    ASSUME Shapes, OwnershipKnown, Evolves,
           NEW p \in Pids, Starting(p) \/ Serving(p) \/ World(p)
    PROVE  VictimsOrphaned'
  <1>1. ASSUME NEW q \in Pids, NEW u \in Units, Alive(q)'
        PROVE  /\ mons'[q].victim[u].start < clock'
               /\ SameProcess(mons[q].victim[u])' => Orphan(mons[q].victim[u])'
    <2>1. clock \in Nat /\ clock > 0 /\ clock' \in {clock, clock + 1}
      BY DEF Shapes, OwnershipKnown, ClockAhead, Evolves
    <2>2. CASE mons'[q].victim[u] = Nobody
      <3>1. 0 \notin Pids
        BY SuccessionAssumption
      <3> QED
        BY <2>1, <2>2, <3>1 DEF Nobody, SameProcess, Live
    <2>3. CASE mons'[q].victim[u] # Nobody
      <3>1. mons'[q] # At("probe")
        BY <2>3 DEF At
      <3>2. Alive(q) /\ Self(q)' = Self(q)
        BY <1>1, <3>1, MonitorsKept
      <3> DEFINE id == IF q = p /\ ReclaimSignal(p, u)
                       THEN records[u].child ELSE mons[q].victim[u]
      <3>3. mons'[q].victim[u] = id
        <4>1. CASE q = p /\ ReclaimSignal(p, u)
          BY <4>1 DEF ReclaimSignal, SetMon, Shapes, Monitor
        <4>2. CASE ~(q = p /\ ReclaimSignal(p, u))
          BY <2>3, <4>2, VictimsStep
        <4> QED
          BY <4>1, <4>2
      <3>4. id \in Id
        BY DEF Shapes, Record, Monitor
      <3>5. id.start < clock /\ (SameProcess(id) => Orphan(id))
        <4>1. CASE q = p /\ ReclaimSignal(p, u)
          BY <4>1, SignalsOrphan DEF OwnershipKnown, RecordsKnown, Names
        <4>2. CASE ~(q = p /\ ReclaimSignal(p, u))
          BY <3>2, <4>2 DEF OwnershipKnown, VictimsOrphaned
        <4> QED
          BY <4>1, <4>2
      <3>6. ClockAhead
        BY DEF OwnershipKnown
      <3> HIDE DEF id
      <3>7. /\ id.start < clock'
            /\ /\ id.pid \in Pids /\ procs'[id.pid].kind \notin Dead
               /\ procs'[id.pid].start = id.start
               => /\ procs'[id.pid].kind = "unit"
                  /\ \A r \in Pids : Alive(r)' => Self(r)' # procs'[id.pid].parent
        BY <3>4, <3>5, <3>6, OrphanKept
      <3> QED
        BY <3>3, <3>7 DEF SameProcess, Live, Orphan
    <2> QED
      BY <2>2, <2>3
  <1> QED
    BY <1>1 DEF VictimsOrphaned

\* A monitor has no record of its own until its loop runs.
LEMMA OwnRecordsStep ==
    ASSUME Shapes, OwnershipKnown, Evolves,
           NEW p \in Pids, Starting(p) \/ Serving(p) \/ World(p)
    PROVE  OwnRecordsLater'
  <1>1. ASSUME NEW q \in Pids, NEW u \in Units, Alive(q)',
               records'[u].monitor = Self(q)'
        PROVE  mons'[q].pc \in {"run", "closing"}
    <2>1. Self(q)'.start = procs'[q].start /\ Self(q)'.pid = q
      BY DEF Self
    <2>2. CASE Recorded(p, u)
      <3>1. q = p /\ InLoop(p)
        BY <1>1, <2>1, <2>2 DEF Self, Recorded, RecordOwner
      <3> QED
        BY <1>1, <3>1, ServingKept DEF InLoop
    <2>3. CASE records'[u] = NoRecord
      BY <1>1, <2>1, <2>3, SuccessionAssumption DEF NoRecord, Nobody
    <2>4. CASE records'[u] = records[u]
      <3>1. records[u].monitor.start < clock /\ clock \in Nat
        BY DEF OwnershipKnown, RecordsKnown, Shapes
      <3>2. Alive(q) /\ Self(q)' = Self(q)
        BY <1>1, <2>1, <2>4, <3>1, MonitorsKept
      <3>3. mons[q].pc \in {"run", "closing"}
        BY <1>1, <2>4, <3>2 DEF OwnershipKnown, OwnRecordsLater
      <3> QED
        BY <1>1, <3>2, <3>3, ServingKept
    <2> QED
      BY <2>2, <2>3, <2>4, RecordsStep
  <1> QED
    BY <1>1 DEF OwnRecordsLater

\* Whatever is killed and when, however many monitors run at once and however
\* pids are used again: a record that still names a process names a child of
\* the recorded monitor, and what a reclaim waits for is an orphan to the end.
THEOREM OwnershipAlwaysKnown == Spec => []OwnershipKnown
  <1>1. Shapes /\ OwnershipKnown /\ [Next]_vars => OwnershipKnown'
    <2> SUFFICES ASSUME Shapes, OwnershipKnown, [Next]_vars
                 PROVE  OwnershipKnown'
      OBVIOUS
    <2>1. ASSUME NEW p \in Pids, Starting(p) \/ Serving(p) \/ World(p)
          PROVE  OwnershipKnown'
      <3>1. Evolves
        BY <2>1, NextEvolves
      <3>2. ClockAhead'
        BY <3>1, ClockStep DEF OwnershipKnown
      <3> QED
        BY <2>1, <3>1, <3>2, RecordsKnownStep, ChildrenHeldStep,
           VictimsOrphanedStep, OwnRecordsStep DEF OwnershipKnown
    <2>2. CASE UNCHANGED vars
      <3>1. ClockAhead'
        BY <2>2, SMTT(30) DEF vars, OwnershipKnown, ClockAhead
      <3>2. RecordsKnown'
        BY <2>2, SMTT(30) DEF vars, OwnershipKnown, RecordsKnown, Names, SameProcess, Live,
           Alive, Self, ChildOf, Holds, Orphan
      <3>3. ChildrenHeld'
        BY <2>2, SMTT(30) DEF vars, OwnershipKnown, ChildrenHeld, Names, SameProcess, Live,
           Alive, Self, ChildOf, Holds, Orphan
      <3>4. VictimsOrphaned'
        BY <2>2, SMTT(30) DEF vars, OwnershipKnown, VictimsOrphaned, Names, SameProcess,
           Live, Alive, Self, ChildOf, Holds, Orphan
      <3>5. OwnRecordsLater'
        BY <2>2, SMTT(30) DEF vars, OwnershipKnown, OwnRecordsLater, Alive, Self
      <3> QED
        BY <3>1, <3>2, <3>3, <3>4, <3>5 DEF OwnershipKnown
    <2> QED
      BY <2>1, <2>2 DEF Next
  <1> QED
    BY <1>1, OwnershipInit, ShapesKept, PTL DEF Spec

\* reclaimOne signals and kills no process of a living monitor, nor one that
\* merely has a recorded pid.
THEOREM ReclaimsOrphansOnly == Spec => SparesForeign
  <1>1. ASSUME Shapes, OwnershipKnown, NEW p \in Pids, NEW u \in Units,
               ReclaimSignal(p, u)
        PROVE  Orphan(mons'[p].victim[u])
    <2>1. mons'[p].victim[u] = records[u].child
      BY <1>1 DEF ReclaimSignal, SetMon, Shapes, Monitor
    <2> QED
      BY <1>1, <2>1, SignalsOrphan
  <1>2. ASSUME Shapes, OwnershipKnown, NEW p \in Pids, NEW u \in Units,
               ReclaimKill(p, u)
        PROVE  Orphan(mons[p].victim[u])
    BY <1>2 DEF OwnershipKnown, VictimsOrphaned, ReclaimKill, Reclaiming
  <1>3. Shapes /\ OwnershipKnown =>
          [\A p \in Pids : \A u \in Units :
             /\ ReclaimSignal(p, u) => Orphan(mons'[p].victim[u])
             /\ ReclaimKill(p, u) => Orphan(mons[p].victim[u])]_vars
    BY <1>1, <1>2
  <1> QED
    BY <1>3, ShapesKept, OwnershipAlwaysKnown, PTL DEF SparesForeign

(***************************************************************************)
(* One process for each unit.  RecordedIsAlone is not inductive, and holds *)
(* of monitors that come one after the other only.  It rests on what a     *)
(* monitor knows of the processes of its units: those it forked, it holds  *)
(* until it waits for them (OwnIsHeld); those of a former monitor, if they *)
(* have a record, are named by it (RecordNames) and are dealt with before  *)
(* the loop runs (ForeignIsListed, VictimIsRecorded), and if they have no  *)
(* record they are older than this monitor (ForeignIsOlder) and will never *)
(* have one.                                                               *)
(***************************************************************************)
IsUnit(q) == procs[q].kind = "unit"
RecordedFor(q, u) == IsUnit(q) /\ procs[q].recorded /\ procs[q].unit = {u}

OneMonitor == \A p, q \in Pids : Alive(p) /\ Alive(q) => p = q

\* Processes of former monitors were started before this one.
ForeignIsOlder ==
    \A m, q \in Pids :
        Alive(m) /\ IsUnit(q) /\ procs[q].parent # Self(m) =>
            procs[q].start < procs[m].start

\* A living process of this monitor is the one it has for some unit.
OwnIsHeld ==
    \A m, q \in Pids :
        Alive(m) /\ IsUnit(q) /\ procs[q].parent = Self(m) =>
            /\ procs[m].start < procs[q].start
            /\ \E u \in Units : /\ procs[q].unit = {u}
                                /\ ChildOf(m, u).st \in Unwaited
                                /\ ChildOf(m, u).id = Self(q)

\* The record of a process that has one is there while the process lives.
RecordNames ==
    \A q \in Pids, u \in Units : RecordedFor(q, u) => records[u].child = Self(q)

\* The monitor of a record, while it is a living process, is a monitor.
MonitorNamed ==
    \A u \in Units :
        SameProcess(records[u].monitor) => Alive(records[u].monitor.pid)

\* A recorded process of a former monitor is dealt with before the loop runs.
ForeignIsListed ==
    \A m, q \in Pids, u \in Units :
        Alive(m) /\ RecordedFor(q, u) /\ procs[q].parent # Self(m) =>
            /\ mons[m].pc \notin {"run", "closing"}
            /\ mons[m].pc = "reclaim" => u \in mons[m].todo

\* What a reclaim waits for is what the record names, until it is forgotten.
VictimIsRecorded ==
    \A m \in Pids, u \in Units :
        Alive(m) /\ mons[m].victim[u] # Nobody =>
            mons[m].pc = "reclaim" /\ mons[m].victim[u] = records[u].child

OneForEach ==
    /\ OneMonitor /\ ForeignIsOlder /\ OwnIsHeld /\ RecordNames /\ MonitorNamed
    /\ ForeignIsListed /\ VictimIsRecorded /\ RecordedIsAlone

Step(p) == Starting(p) \/ Serving(p) \/ World(p)

\* The process table after a step.
LEMMA ProcsStep ==
    ASSUME Shapes, NEW p \in Pids, Step(p)
    PROVE  \/ procs' = procs
           \/ Alive(p) /\ Gone(p) /\ clock' = clock
           \/ Launch(p) \/ OtherStarts(p) \/ Ends(p)
           \/ \E v \in Units : Fork(p, v)
           \/ \E c : procs' = [procs EXCEPT ![c] = Free]
           \/ \E v \in Units : RecordOwner(p, v) /\ Live(ChildOf(p, v).id.pid)
  <1>1. CASE Starting(p)
    BY <1>1 DEF Starting, Probe, RemoveSocket, Listen, RunLoop, ReclaimSkip,
           ReclaimSignal, ReclaimKill, ReclaimDone, Refuse
  <1>2. CASE Serving(p)
    BY <1>2 DEF Serving, RecordOwner, Waited, RemoveRecord, Terminate,
           CloseListener, Finish
  <1>3. CASE World(p)
    BY <1>3 DEF World, Crash
  <1> QED
    BY <1>1, <1>2, <1>3 DEF Step

\* A process that starts is what its action says; the others stay.
LEMMA SpawnedStep ==
    ASSUME Shapes, NEW c \in Pids, NEW proc, Spawned(c, proc)
    PROVE  /\ procs[c].kind = "free" /\ procs'[c] = proc /\ clock' = clock + 1
           /\ \A q \in Pids \ {c} : procs'[q] = procs[q]
  BY DEF Spawned, Shapes

ForkedAs(p, v, q) ==
    /\ Fork(p, v) /\ clock' = clock + 1
    /\ procs'[q] = [kind |-> "unit", start |-> clock, unit |-> {v},
                    parent |-> Self(p), recorded |-> FALSE]
    /\ ChildOf(p, v)'.st \in Unwaited
    /\ ChildOf(p, v)'.id = [pid |-> q, start |-> clock]

RecordedAs(p, v, q) ==
    /\ RecordOwner(p, v) /\ Recorded(p, v)
    /\ q = ChildOf(p, v).id.pid

\* A unit's process after a step: as it was, forked, or recorded now.
LEMMA UnitsStep ==
    ASSUME Shapes, NEW p \in Pids, Step(p), NEW q \in Pids, IsUnit(q)'
    PROVE  \/ Same(q) /\ procs'[q].recorded = procs[q].recorded
           \/ \E v \in Units : ForkedAs(p, v, q)
           \/ \E v \in Units : Same(q) /\ RecordedAs(p, v, q)
  <1>1. CASE procs' = procs
    BY <1>1 DEF Same
  <1>2. CASE Gone(p)
    BY <1>2 DEF Gone, Same, IsUnit, Free
  <1>3. CASE Launch(p)
    <2>1. Spawned(p, [Free EXCEPT !.kind = "monitor", !.start = clock])
      BY <1>3 DEF Launch
    <2>2. [Free EXCEPT !.kind = "monitor", !.start = clock].kind # "unit"
      BY DEF Free
    <2> QED
      BY <2>1, <2>2, SpawnedStep DEF Same, IsUnit
  <1>4. CASE OtherStarts(p)
    <2>1. Spawned(p, [Free EXCEPT !.kind = "other", !.start = clock])
      BY <1>4 DEF OtherStarts
    <2>2. [Free EXCEPT !.kind = "other", !.start = clock].kind # "unit"
      BY DEF Free
    <2> QED
      BY <2>1, <2>2, SpawnedStep DEF Same, IsUnit
  <1>5. CASE Ends(p)
    <2>1. procs'[p].kind # "unit" /\ \A r \in Pids \ {p} : procs'[r] = procs[r]
      BY <1>5 DEF Ends, Shapes, Process, Free
    <2> QED
      BY <2>1 DEF IsUnit, Same
  <1>6. ASSUME NEW c, procs' = [procs EXCEPT ![c] = Free]
        PROVE  Same(q) /\ procs'[q].recorded = procs[q].recorded
    BY <1>6 DEF IsUnit, Same, Free, Shapes
  <1>7. ASSUME NEW v \in Units, Fork(p, v)
        PROVE  \/ Same(q) /\ procs'[q].recorded = procs[q].recorded
               \/ ForkedAs(p, v, q)
    <2> DEFINE Proc == [kind |-> "unit", start |-> clock, unit |-> {v},
                        parent |-> Self(p), recorded |-> FALSE]
    <2>1. PICK c \in Pids :
            /\ Spawned(c, Proc)
            /\ SetChild(p, v, [st |-> "forked", owned |-> FALSE,
                               id |-> [pid |-> c, start |-> clock]])
      BY <1>7 DEF Fork
    <2>2. CASE q = c
      <3>1. procs'[q] = Proc /\ clock' = clock + 1
        BY <2>1, <2>2, SpawnedStep
      <3>2. ChildOf(p, v)' = [st |-> "forked", owned |-> FALSE,
                              id |-> [pid |-> c, start |-> clock]]
        BY <2>1 DEF SetChild, SetMon, ChildOf, Shapes, Monitor
      <3> QED
        BY <1>7, <2>2, <3>1, <3>2 DEF ForkedAs, Unwaited
    <2>3. CASE q # c
      BY <2>1, <2>3, SpawnedStep DEF Same
    <2> QED
      BY <2>2, <2>3
  <1>8. ASSUME NEW v \in Units, RecordOwner(p, v), Live(ChildOf(p, v).id.pid)
        PROVE  \/ Same(q) /\ procs'[q].recorded = procs[q].recorded
               \/ Same(q) /\ RecordedAs(p, v, q)
    <2> DEFINE pid == ChildOf(p, v).id.pid
    <2>1. procs' = [procs EXCEPT ![pid].recorded = TRUE]
      BY <1>8 DEF RecordOwner
    <2>2. Same(q)
      BY <2>1 DEF Same, Shapes, Process
    <2>3. CASE q = pid
      <3>1. Recorded(p, v)
        BY <1>8 DEF Recorded, RecordOwner, Shapes
      <3> QED
        BY <1>8, <2>2, <2>3, <3>1 DEF RecordedAs
    <2>4. CASE q # pid
      BY <2>1, <2>2, <2>4 DEF Shapes
    <2> QED
      BY <2>3, <2>4
  <1> QED
    BY <1>1, <1>2, <1>3, <1>4, <1>5, <1>6, <1>7, <1>8, ProcsStep

\* A monitor after a step was one before, or is launched now.
LEMMA AliveStep ==
    ASSUME Shapes, NEW p \in Pids, Step(p), NEW m \in Pids, Alive(m)'
    PROVE  \/ Alive(m) /\ Self(m)' = Self(m) /\ procs'[m].start = procs[m].start
           \/ /\ Launch(p) /\ m = p /\ Self(m)' = [pid |-> m, start |-> clock]
              /\ procs'[m].start = clock /\ clock' = clock + 1
              /\ mons'[m] = At("probe")
  <1>1. CASE procs' = procs
    BY <1>1 DEF Alive, Self
  <1>2. CASE Gone(p)
    BY <1>2 DEF Gone, Alive, Self, Free
  <1>3. CASE Launch(p)
    <2> DEFINE Proc == [Free EXCEPT !.kind = "monitor", !.start = clock]
    <2>1. Spawned(p, Proc) /\ mons' = [mons EXCEPT ![p] = At("probe")]
      BY <1>3 DEF Launch, SetMon
    <2>2. Proc.start = clock
      BY DEF Free
    <2> HIDE DEF Proc
    <2>3. mons'[p] = At("probe")
      BY <2>1 DEF Shapes
    <2>4. /\ procs'[p] = Proc /\ clock' = clock + 1
          /\ \A q \in Pids \ {p} : procs'[q] = procs[q]
      BY <2>1, SpawnedStep
    <2> QED
      BY <1>3, <2>2, <2>3, <2>4 DEF Alive, Self
  <1>4. CASE OtherStarts(p)
    <2>1. Spawned(p, [Free EXCEPT !.kind = "other", !.start = clock])
      BY <1>4 DEF OtherStarts
    <2>2. [Free EXCEPT !.kind = "other", !.start = clock].kind # "monitor"
      BY DEF Free
    <2> QED
      BY <2>1, <2>2, SpawnedStep DEF Alive, Self
  <1>5. CASE Ends(p)
    <2>1. procs'[p].kind # "monitor" /\ \A r \in Pids \ {p} : procs'[r] = procs[r]
      BY <1>5 DEF Ends, Shapes, Process, Free
    <2> QED
      BY <2>1 DEF Alive, Self
  <1>6. ASSUME NEW c, procs' = [procs EXCEPT ![c] = Free]
        PROVE  Alive(m) /\ Self(m)' = Self(m) /\ procs'[m].start = procs[m].start
    BY <1>6 DEF Alive, Self, Free, Shapes
  <1>7. ASSUME NEW v \in Units, Fork(p, v)
        PROVE  Alive(m) /\ Self(m)' = Self(m) /\ procs'[m].start = procs[m].start
    <2>1. PICK c \in Pids :
            Spawned(c, [kind |-> "unit", start |-> clock, unit |-> {v},
                        parent |-> Self(p), recorded |-> FALSE])
      BY <1>7 DEF Fork
    <2> QED
      BY <2>1, SpawnedStep DEF Alive, Self
  <1>8. ASSUME NEW v \in Units, RecordOwner(p, v), Live(ChildOf(p, v).id.pid)
        PROVE  Alive(m) /\ Self(m)' = Self(m) /\ procs'[m].start = procs[m].start
    BY <1>8 DEF RecordOwner, Alive, Self, Shapes, Process
  <1> QED
    BY <1>1, <1>2, <1>3, <1>4, <1>5, <1>6, <1>7, <1>8, ProcsStep

\* A step of p leaves the state of the other monitors.
LEMMA OthersKept ==
    ASSUME Shapes, NEW p \in Pids, Step(p), NEW m \in Pids, m # p
    PROVE  mons'[m] = mons[m]
  <1>1. ASSUME NEW st, SetMon(p, st)
        PROVE  mons'[m] = mons[m]
    BY <1>1 DEF SetMon, Shapes
  <1>2. CASE Starting(p)
    BY <1>1, <1>2 DEF Starting, Probe, RemoveSocket, Listen, RunLoop,
           ReclaimSkip, ReclaimSignal, ReclaimKill, ReclaimDone, Refuse
  <1>3. CASE Serving(p)
    BY <1>1, <1>3 DEF Serving, Fork, RecordOwner, Waited, RemoveRecord,
           Terminate, CloseListener, Finish, SetChild
  <1>4. CASE World(p)
    BY <1>1, <1>4 DEF World, Launch, Crash, OtherStarts, Ends
  <1> QED
    BY <1>2, <1>3, <1>4 DEF Step

\* What is left of the step of a monitor that goes on.
LEMMA OwnStep ==
    ASSUME Shapes, NEW p \in Pids, Step(p), Alive(p), Alive(p)'
    PROVE  \/ mons' = mons
           \/ \E stage \in {"remove", "listen", "closing"} :
                 SetMon(p, [mons[p] EXCEPT !.pc = stage])
           \/ Listen(p) /\ ~Refuse(p)
           \/ RunLoop(p)
           \/ \E v \in Units : \/ ReclaimSkip(p, v) \/ ReclaimSignal(p, v)
                               \/ ReclaimDone(p, v)
           \/ InLoop(p) /\ \E v \in Units : \E c : SetChild(p, v, c)
           \/ Terminate(p)
  <1>1. ~Gone(p)
    BY DEF Gone, Alive, Free
  <1>2. CASE Starting(p)
    BY <1>1, <1>2 DEF Starting, Probe, RemoveSocket, Listen, ReclaimKill, Refuse
  <1>3. CASE Serving(p)
    BY <1>1, <1>3 DEF Serving, Fork, RecordOwner, Waited, RemoveRecord,
           CloseListener, Finish
  <1>4. CASE World(p)
    BY <1>1, <1>4 DEF World, Launch, Crash, OtherStarts, Ends, Spawned, Alive
  <1> QED
    BY <1>2, <1>3, <1>4 DEF Step

\* How what is left of a reclaim changes.
LEMMA TodoStep ==
    ASSUME Shapes, NEW p \in Pids, Step(p), NEW m \in Pids,
           Alive(m), Alive(m)', mons'[m].pc = "reclaim"
    PROVE  \/ mons[m].pc = "reclaim" /\ mons'[m].todo = mons[m].todo
           \/ /\ m = p /\ Listen(p) /\ records' = records
              /\ mons'[m].todo = {u \in Units : records[u] # NoRecord}
           \/ /\ m = p /\ mons[m].pc = "reclaim"
              /\ \E v \in Units : /\ ReclaimSkip(p, v) \/ ReclaimDone(p, v)
                                  /\ mons'[m].todo = mons[m].todo \ {v}
  <1>0. mons \in [Pids -> Monitor] /\ mons[p] \in Monitor
    BY DEF Shapes
  <1>1. CASE m # p
    BY <1>1, OthersKept
  <1>2. CASE m = p /\ mons' = mons
    BY <1>2
  <1>3. ASSUME m = p, NEW stage \in {"remove", "listen", "closing"},
               SetMon(p, [mons[p] EXCEPT !.pc = stage])
        PROVE  FALSE
    BY <1>0, <1>3 DEF SetMon, Monitor
  <1>4. CASE m = p /\ Listen(p) /\ ~Refuse(p)
    BY <1>0, <1>4 DEF Listen, SetMon, Monitor
  <1>5. CASE m = p /\ RunLoop(p)
    BY <1>0, <1>5 DEF RunLoop, SetMon, Monitor
  <1>6. ASSUME m = p, NEW v \in Units, ReclaimSkip(p, v)
        PROVE  /\ mons[m].pc = "reclaim"
               /\ mons'[m].todo = mons[m].todo \ {v}
    BY <1>0, <1>6 DEF ReclaimSkip, Reclaiming, SetMon, Monitor
  <1>7. ASSUME m = p, NEW v \in Units, ReclaimDone(p, v)
        PROVE  /\ mons[m].pc = "reclaim"
               /\ mons'[m].todo = mons[m].todo \ {v}
    BY <1>0, <1>7 DEF ReclaimDone, Reclaiming, SetMon, Monitor
  <1>8. ASSUME m = p, NEW v \in Units, ReclaimSignal(p, v)
        PROVE  mons[m].pc = "reclaim" /\ mons'[m].todo = mons[m].todo
    BY <1>0, <1>8 DEF ReclaimSignal, Reclaiming, SetMon, Monitor
  <1>9. ASSUME m = p, NEW v \in Units, NEW c, SetChild(p, v, c)
        PROVE  mons[m].pc = "reclaim" /\ mons'[m].todo = mons[m].todo
    BY <1>0, <1>9 DEF SetChild, SetMon, Monitor
  <1>10. CASE m = p /\ Terminate(p)
    BY <1>0, <1>10 DEF Terminate, InLoop, SetMon, Monitor
  <1> QED
    BY <1>1, <1>2, <1>3, <1>4, <1>5, <1>6, <1>7, <1>8, <1>9, <1>10, OwnStep

\* A monitor comes to its loop when its reclaim is over.
LEMMA LoopStep ==
    ASSUME Shapes, NEW p \in Pids, Step(p), NEW m \in Pids,
           Alive(m), Alive(m)', mons'[m].pc \in {"run", "closing"}
    PROVE  \/ mons[m].pc \in {"run", "closing"}
           \/ m = p /\ RunLoop(p)
  <1>0. mons \in [Pids -> Monitor] /\ mons[p] \in Monitor
    BY DEF Shapes
  <1>1. CASE m # p
    BY <1>1, OthersKept
  <1>2. CASE m = p /\ Starting(p)
    <2>1. ~Gone(p)
      BY <1>2 DEF Gone, Alive, Free
    <2>2. CASE Probe(p) \/ RemoveSocket(p)
      BY <1>0, <1>2, <2>1, <2>2 DEF Probe, RemoveSocket, Refuse, SetMon, Monitor
    <2>3. CASE Listen(p)
      BY <1>0, <1>2, <2>1, <2>3 DEF Listen, Refuse, SetMon, Monitor
    <2>4. ASSUME NEW v \in Units, ReclaimSkip(p, v)
          PROVE  mons'[p].pc = "reclaim"
      BY <1>0, <2>4 DEF ReclaimSkip, Reclaiming, SetMon, Monitor
    <2>5. ASSUME NEW v \in Units, ReclaimSignal(p, v)
          PROVE  mons'[p].pc = "reclaim"
      BY <1>0, <2>5 DEF ReclaimSignal, Reclaiming, SetMon, Monitor
    <2>6. ASSUME NEW v \in Units, ReclaimKill(p, v)
          PROVE  mons'[p].pc = "reclaim"
      BY <1>0, <2>6 DEF ReclaimKill, Reclaiming
    <2>7. ASSUME NEW v \in Units, ReclaimDone(p, v)
          PROVE  mons'[p].pc = "reclaim"
      BY <1>0, <2>7 DEF ReclaimDone, Reclaiming, SetMon, Monitor
    <2> QED
      BY <1>2, <2>2, <2>3, <2>4, <2>5, <2>6, <2>7 DEF Starting
  <1>3. CASE m = p /\ Serving(p)
    BY <1>3 DEF Serving, Fork, RecordOwner, Waited, RemoveRecord, Terminate,
           CloseListener, Finish, InLoop
  <1>4. CASE m = p /\ World(p)
    <2>1. ~Gone(p)
      BY <1>4 DEF Gone, Alive, Free
    <2> QED
      BY <1>4, <2>1 DEF World, Launch, Crash, OtherStarts, Ends, Spawned, Alive
  <1> QED
    BY <1>1, <1>2, <1>3, <1>4 DEF Step

\* A child that runs is not given up while its monitor lives.
LEMMA ChildKept ==
    ASSUME Shapes, NEW p \in Pids, Step(p), NEW m \in Pids,
           Alive(m), Alive(m)', NEW u \in Units, ChildOf(m, u).st \in Unwaited,
           procs[ChildOf(m, u).id.pid].kind = "unit"
    PROVE  /\ ChildOf(m, u)'.st \in Unwaited
           /\ ChildOf(m, u)'.id = ChildOf(m, u).id
  <1>0. mons \in [Pids -> Monitor] /\ mons[p] \in Monitor
    BY DEF Shapes
  <1>1. CASE mons'[m].child = mons[m].child
    BY <1>1 DEF ChildOf
  <1>2. CASE mons'[m].child # mons[m].child
    <2>1. m = p
      BY <1>2, OthersKept
    <2>2. ASSUME NEW v \in Units, NEW c, SetChild(p, v, c), v # u
          PROVE  ChildOf(p, u)' = ChildOf(p, u)
      BY <1>0, <2>2 DEF SetChild, SetMon, ChildOf, Monitor
    <2>3. ASSUME NEW v \in Units,
                 \/ Fork(p, v) \/ RecordOwner(p, v)
                 \/ Waited(p, v) \/ RemoveRecord(p, v)
          PROVE  /\ ChildOf(m, u)'.st \in Unwaited
                 /\ ChildOf(m, u)'.id = ChildOf(m, u).id
      <3>1. CASE v # u
        BY <2>1, <2>2, <2>3, <3>1 DEF Fork, RecordOwner, Waited, RemoveRecord
      <3>2. CASE v = u
        <4>1. RecordOwner(p, u)
          BY <2>1, <2>3, <3>2 DEF Fork, Waited, RemoveRecord, Unwaited
        <4> DEFINE live == Live(ChildOf(p, u).id.pid)
        <4>2. SetChild(p, u, [ChildOf(p, u) EXCEPT !.st = "up", !.owned = live])
          BY <4>1 DEF RecordOwner
        <4>3. ChildOf(p, u)' = [ChildOf(p, u) EXCEPT !.st = "up", !.owned = live]
          BY <1>0, <4>2 DEF SetChild, SetMon, ChildOf, Monitor
        <4>4. ChildOf(p, u) \in Child
          BY <1>0 DEF ChildOf, Monitor
        <4> HIDE DEF live
        <4> QED
          BY <2>1, <4>3, <4>4 DEF Child, Unwaited
      <3> QED
        BY <3>1, <3>2
    <2>4. CASE Starting(p) \/ World(p)
      <3>1. ~Gone(p)
        BY <2>1 DEF Gone, Alive, Free
      <3>2. ASSUME NEW st, SetMon(p, st)
            PROVE  st.child # mons[p].child
        BY <1>0, <1>2, <2>1, <3>2 DEF SetMon
      <3>3. [mons[p] EXCEPT !.pc = "remove"].child = mons[p].child
            /\ [mons[p] EXCEPT !.pc = "listen"].child = mons[p].child
            /\ [mons[p] EXCEPT !.pc = "run"].child = mons[p].child
        BY <1>0 DEF Monitor
      <3>4. ~(Probe(p) \/ RemoveSocket(p) \/ RunLoop(p))
        BY <3>1, <3>2, <3>3 DEF Probe, RemoveSocket, RunLoop, Refuse
      <3>5. ~Listen(p)
        <4> DEFINE todo == {v \in Units : records[v] # NoRecord}
                   st == [mons[p] EXCEPT !.pc = "reclaim", !.todo = todo]
        <4>1. st.child = mons[p].child
          BY <1>0 DEF Monitor
        <4>2. ~SetMon(p, st)
          BY <3>2, <4>1
        <4> QED
          BY <3>1, <4>2 DEF Listen, Refuse
      <3>6. ASSUME NEW v \in Units, ReclaimSkip(p, v)
            PROVE  FALSE
        BY <1>0, <3>2, <3>6 DEF ReclaimSkip, Monitor
      <3>7. ASSUME NEW v \in Units, ReclaimSignal(p, v)
            PROVE  FALSE
        BY <1>0, <3>2, <3>7 DEF ReclaimSignal, Monitor
      <3>8. ASSUME NEW v \in Units, ReclaimDone(p, v)
            PROVE  FALSE
        <4> DEFINE todo == mons[p].todo \ {v}
                   st == [mons[p] EXCEPT !.victim[v] = Nobody, !.todo = todo]
        <4>1. st.child = mons[p].child
          BY <1>0 DEF Monitor
        <4>2. SetMon(p, st)
          BY <1>0, <3>8 DEF ReclaimDone, Monitor
        <4> QED
          BY <3>2, <4>1, <4>2
      <3>9. ASSUME NEW v \in Units, ReclaimKill(p, v)
             PROVE  FALSE
        BY <1>2, <3>9 DEF ReclaimKill
      <3>10. ~World(p)
        BY <1>2, <2>1, <3>1 DEF World, Launch, Crash, OtherStarts, Ends, Spawned, Alive
      <3> QED
        BY <2>4, <3>4, <3>5, <3>6, <3>7, <3>8, <3>9, <3>10 DEF Starting
    <2>5. CASE Serving(p)
      <3>1. ~Gone(p)
        BY <2>1 DEF Gone, Alive, Free
      <3>2. ASSUME NEW st, SetMon(p, st)
            PROVE  st.child # mons[p].child
        BY <1>0, <1>2, <2>1, <3>2 DEF SetMon
      <3>3. /\ [mons[p] EXCEPT !.pc = "closing"].child = mons[p].child
            /\ [mons[p] EXCEPT !.stopping = TRUE].child = mons[p].child
        BY <1>0 DEF Monitor
      <3> QED
        BY <2>3, <2>5, <3>1, <3>2, <3>3 DEF Serving, Terminate, CloseListener, Finish
    <2> QED
      BY <2>4, <2>5 DEF Step
  <1> QED
    BY <1>1, <1>2

\* A monitor stays in its reclaim until its loop runs.
LEMMA ReclaimKept ==
    ASSUME Shapes, NEW p \in Pids, Step(p), NEW m \in Pids,
           Alive(m), Alive(m)', mons[m].pc = "reclaim"
    PROVE  mons'[m].pc = "reclaim" \/ (m = p /\ RunLoop(p))
  <1>0. mons \in [Pids -> Monitor] /\ mons[p] \in Monitor
    BY DEF Shapes
  <1>1. CASE m # p
    BY <1>1, OthersKept
  <1>2. CASE m = p
    <2>1. ~Gone(p)
      BY <1>2 DEF Gone, Alive, Free
    <2>2. CASE Starting(p)
      <3>1. ~(Probe(p) \/ RemoveSocket(p) \/ Listen(p))
        BY <1>2 DEF Probe, RemoveSocket, Listen
      <3>2. ASSUME NEW v \in Units, ReclaimSkip(p, v)
            PROVE  mons'[p].pc = "reclaim"
        BY <1>0, <3>2 DEF ReclaimSkip, Reclaiming, SetMon, Monitor
      <3>3. ASSUME NEW v \in Units, ReclaimSignal(p, v)
            PROVE  mons'[p].pc = "reclaim"
        BY <1>0, <3>3 DEF ReclaimSignal, Reclaiming, SetMon, Monitor
      <3>4. ASSUME NEW v \in Units, ReclaimDone(p, v)
            PROVE  mons'[p].pc = "reclaim"
        BY <1>0, <3>4 DEF ReclaimDone, Reclaiming, SetMon, Monitor
      <3>5. ASSUME NEW v \in Units, ReclaimKill(p, v)
            PROVE  mons'[p].pc = "reclaim"
        BY <1>2, <3>5 DEF ReclaimKill
      <3> QED
        BY <1>2, <2>2, <3>1, <3>2, <3>3, <3>4, <3>5 DEF Starting
    <2>3. CASE Serving(p)
      BY <1>2, <2>3 DEF Serving, Fork, RecordOwner, Waited, RemoveRecord,
             Terminate, CloseListener, Finish, InLoop
    <2>4. CASE World(p)
      BY <1>2, <2>1, <2>4 DEF World, Launch, Crash, OtherStarts, Ends, Spawned, Alive
    <2> QED
      BY <2>2, <2>3, <2>4 DEF Step
  <1> QED
    BY <1>1, <1>2

\* What removes a record.
LEMMA RecordRemoved ==
    ASSUME Shapes, NEW p \in Pids, Step(p), NEW u \in Units,
           records'[u] # records[u], ~Recorded(p, u)
    PROVE  \/ ReclaimSkip(p, u) /\ ~SameProcess(records[u].child)
           \/ ReclaimDone(p, u)
           \/ RemoveRecord(p, u)
  <1>1. ASSUME NEW v \in Units, Forget(v)
        PROVE  v = u
    BY <1>1 DEF Forget, Shapes
  <1>2. ASSUME NEW v \in Units, ReclaimSkip(p, v)
        PROVE  v = u /\ ~SameProcess(records[u].child)
    BY <1>1, <1>2 DEF ReclaimSkip
  <1>3. ASSUME NEW v \in Units, ReclaimDone(p, v) \/ RemoveRecord(p, v)
        PROVE  v = u
    BY <1>1, <1>3 DEF ReclaimDone, RemoveRecord
  <1>4. ASSUME NEW v \in Units, RecordOwner(p, v)
        PROVE  FALSE
    BY <1>4 DEF RecordOwner, Recorded, Shapes
  <1>5. CASE Starting(p)
    BY <1>2, <1>3, <1>5 DEF Starting, Probe, RemoveSocket, Listen, RunLoop,
           ReclaimSignal, ReclaimKill
  <1>6. CASE Serving(p)
    BY <1>3, <1>4, <1>6 DEF Serving, Fork, Waited, Terminate, CloseListener, Finish
  <1>7. CASE World(p)
    BY <1>7 DEF World, Launch, Crash, OtherStarts, Ends
  <1> QED
    BY <1>5, <1>6, <1>7 DEF Step

\* A process of the unit table has an identity that names it.
LEMMA UnitNamed ==
    ASSUME Shapes, NEW q \in Pids, IsUnit(q)
    PROVE  SameProcess(Self(q)) /\ Self(q) # Nobody
  BY SuccessionAssumption DEF IsUnit, SameProcess, Live, Self, Dead, Nobody

\* A recorded process of a unit whose monitor runs its loop is its child.
LEMMA OwnInLoop ==
    ASSUME Shapes, OneForEach, NEW p \in Pids, InLoop(p),
           NEW q \in Pids, NEW u \in Units, RecordedFor(q, u)
    PROVE  ChildOf(p, u).st \in Unwaited /\ ChildOf(p, u).id = Self(q)
  <1>1. procs[q].parent = Self(p)
    BY DEF OneForEach, ForeignIsListed, InLoop
  <1> QED
    BY <1>1 DEF OneForEach, OwnIsHeld, RecordedFor, InLoop

\* The record of a living process that has one is not removed.
LEMMA ForgetsNobody ==
    ASSUME Shapes, OneForEach, NEW p \in Pids, Step(p),
           NEW q \in Pids, NEW u \in Units, RecordedFor(q, u)
    PROVE  /\ records'[u] = records[u] \/ Recorded(p, u)
           /\ records[u] # NoRecord
           /\ ~(ReclaimSkip(p, u) /\ ~SameProcess(records[u].child))
           /\ ~ReclaimDone(p, u)
  <1>1. records[u].child = Self(q)
    BY DEF OneForEach, RecordNames
  <1>2. SameProcess(Self(q)) /\ Self(q) # Nobody
    BY UnitNamed DEF RecordedFor
  <1>3. ~ReclaimDone(p, u)
    BY <1>1, <1>2 DEF ReclaimDone, Reclaiming, OneForEach, VictimIsRecorded
  <1>4. ~RemoveRecord(p, u)
    BY OwnInLoop DEF RemoveRecord, Unwaited
  <1> QED
    BY <1>1, <1>2, <1>3, <1>4, RecordRemoved DEF NoRecord

\* A process that is recorded after a step was before, or is recorded now.
LEMMA RecordedStep ==
    ASSUME Shapes, OwnershipKnown, NEW p \in Pids, Step(p),
           NEW q \in Pids, NEW u \in Units, RecordedFor(q, u)'
    PROVE  /\ Same(q) /\ Self(q)' = Self(q)
           /\ RecordedFor(q, u) \/ RecordedAs(p, u, q)
  <1>1. IsUnit(q)' /\ procs'[q].recorded /\ procs'[q].unit = {u}
    BY DEF RecordedFor
  <1>2. ASSUME NEW v \in Units, ForkedAs(p, v, q)
        PROVE  FALSE
    BY <1>1, <1>2 DEF ForkedAs
  <1>3. ASSUME NEW v \in Units, Same(q), RecordedAs(p, v, q)
        PROVE  v = u
    <2>1. Alive(p) /\ ChildOf(p, v).st \in Unwaited
      BY <1>3 DEF RecordedAs, RecordOwner, InLoop, Unwaited
    <2>2. procs[q].unit = {v}
      BY <1>3, <2>1 DEF RecordedAs, OwnershipKnown, ChildrenHeld, Holds
    <2> QED
      BY <1>1, <1>3, <2>2 DEF Same
  <1>4. Same(q)
    BY <1>1, <1>2, UnitsStep
  <1>5. Self(q)' = Self(q)
    BY <1>4 DEF Same, Self
  <1>6. CASE procs'[q].recorded = procs[q].recorded
    BY <1>1, <1>4, <1>5, <1>6 DEF RecordedFor, IsUnit, Same
  <1>7. CASE procs'[q].recorded # procs[q].recorded
    BY <1>1, <1>2, <1>3, <1>4, <1>5, <1>7, UnitsStep
  <1> QED
    BY <1>6, <1>7

\* The process recorded now is a child of the monitor that records it.
LEMMA RecordedOwn ==
    ASSUME Shapes, OwnershipKnown, NEW p \in Pids, NEW u \in Units,
           NEW q \in Pids, RecordedAs(p, u, q)
    PROVE  /\ InLoop(p) /\ Alive(p) /\ clock' = clock
           /\ procs[q].parent = Self(p) /\ procs[q].unit = {u}
           /\ records'[u] = [child |-> Self(q), monitor |-> Self(p)]
  <1>1. Alive(p) /\ ChildOf(p, u).st \in Unwaited
    BY DEF RecordedAs, RecordOwner, InLoop, Unwaited
  <1> QED
    BY <1>1 DEF RecordedAs, Recorded, RecordOwner, InLoop,
                OwnershipKnown, ChildrenHeld, Holds

\* No monitor is launched beside another.
LEMMA OneMonitorStep ==
    ASSUME Overlap = FALSE, Shapes, OneForEach, NEW p \in Pids, Step(p)
    PROVE  OneMonitor'
  <1>1. ASSUME NEW a \in Pids, NEW b \in Pids, Alive(a)', Alive(b)'
        PROVE  a = b
    <2>1. Alive(a) \/ (Launch(p) /\ a = p)
      BY <1>1, AliveStep
    <2>2. Alive(b) \/ (Launch(p) /\ b = p)
      BY <1>1, AliveStep
    <2> QED
      BY <2>1, <2>2 DEF OneForEach, OneMonitor, Launch
  <1> QED
    BY <1>1 DEF OneMonitor

\* A record names the recorded process while it lives: no step forgets it, and
\* what is recorded over it is itself.
LEMMA RecordNamesStep ==
    ASSUME Shapes, OwnershipKnown, OneForEach, NEW p \in Pids, Step(p)
    PROVE  RecordNames'
  <1>1. ASSUME NEW q \in Pids, NEW u \in Units, RecordedFor(q, u)'
        PROVE  records'[u].child = Self(q)'
    <2>1. Self(q)' = Self(q)
      BY <1>1, RecordedStep
    <2>2. CASE RecordedAs(p, u, q)
      <3>1. records'[u] = [child |-> Self(q), monitor |-> Self(p)]
        BY <2>2, RecordedOwn
      <3> QED
        BY <2>1, <3>1
    <2>3. CASE RecordedFor(q, u) /\ records'[u] = records[u]
      BY <2>1, <2>3 DEF OneForEach, RecordNames
    <2>4. CASE RecordedFor(q, u) /\ Recorded(p, u)
      <3>1. ChildOf(p, u).id = Self(q)
        BY <2>4, OwnInLoop DEF Recorded, RecordOwner
      <3>2. ChildOf(p, u).id.pid = q
        BY <3>1 DEF Self
      <3>3. records'[u].child = Self(q)
        BY <2>4, <3>2 DEF Recorded
      <3> QED
        BY <2>1, <3>3
    <2> QED
      BY <1>1, <2>2, <2>3, <2>4, RecordedStep, ForgetsNobody
  <1> QED
    BY <1>1 DEF RecordNames

\* A record's monitor is a monitor or gone.
LEMMA MonitorNamedStep ==
    ASSUME Shapes, OwnershipKnown, OneForEach, NEW p \in Pids, Step(p)
    PROVE  MonitorNamed'
  <1>1. Evolves
    BY NextEvolves DEF Step
  <1>2. ASSUME NEW u \in Units, SameProcess(records[u].monitor)'
        PROVE  Alive(records[u].monitor.pid)'
    <2> DEFINE id == records'[u].monitor
    <2>1. /\ id.pid \in Pids /\ procs'[id.pid].kind \notin Dead
          /\ procs'[id.pid].start = id.start
      BY <1>2 DEF SameProcess, Live
    <2>2. CASE records'[u] = records[u]
      <3>1. records[u].monitor \in Id /\ records[u].monitor.start < clock
        BY DEF Shapes, Record, OwnershipKnown, RecordsKnown
      <3>2. Same(id.pid) /\ SameProcess(records[u].monitor)
        BY <1>1, <2>1, <2>2, <3>1, IdentityKept
      <3>3. Alive(records[u].monitor.pid)
        BY <3>2 DEF OneForEach, MonitorNamed
      <3> QED
        BY <2>2, <3>2, <3>3 DEF Alive, Same
    <2>3. CASE records'[u] = NoRecord
      BY <2>1, <2>3, SuccessionAssumption DEF NoRecord, Nobody
    <2>4. CASE Recorded(p, u)
      <3>1. id.pid = p
        BY <2>4 DEF Recorded, Self
      <3>2. Alive(p) /\ procs' = [procs EXCEPT ![ChildOf(p, u).id.pid].recorded = TRUE]
        BY <2>4 DEF Recorded, RecordOwner, InLoop
      <3> QED
        BY <3>1, <3>2 DEF Alive, Shapes, Process
    <2> QED
      BY <2>2, <2>3, <2>4, RecordsStep DEF Step
  <1> QED
    BY <1>2 DEF MonitorNamed

\* A process of a former monitor is older: only the living one forks.
LEMMA ForeignIsOlderStep ==
    ASSUME Shapes, OwnershipKnown, OneForEach, NEW p \in Pids, Step(p)
    PROVE  ForeignIsOlder'
  <1>1. ASSUME NEW m \in Pids, NEW q \in Pids, Alive(m)', IsUnit(q)',
               procs'[q].parent # Self(m)'
        PROVE  procs'[q].start < procs'[m].start
    <2>1. CASE /\ Alive(m) /\ Self(m)' = Self(m)
               /\ procs'[m].start = procs[m].start
      <3>1. ASSUME NEW v \in Units, ForkedAs(p, v, q)
            PROVE  FALSE
        <4>1. p = m
          BY <2>1, <3>1 DEF ForkedAs, Fork, InLoop, OneForEach, OneMonitor
        <4> QED
          BY <1>1, <2>1, <3>1, <4>1 DEF ForkedAs
      <3>2. Same(q)
        BY <1>1, <3>1, UnitsStep
      <3> QED
        BY <1>1, <2>1, <3>2 DEF Same, IsUnit, OneForEach, ForeignIsOlder
    <2>2. CASE Launch(p) /\ procs'[m].start = clock
      <3>1. ~\E v \in Units : Fork(p, v)
        BY <2>2 DEF Launch, Spawned, Fork, InLoop, Alive
      <3>2. Same(q)
        BY <1>1, <3>1, UnitsStep DEF ForkedAs
      <3> QED
        BY <2>2, <3>2 DEF Same, OwnershipKnown, ClockAhead
    <2> QED
      BY <1>1, <2>1, <2>2, AliveStep
  <1> QED
    BY <1>1 DEF ForeignIsOlder

\* A living child is the one its monitor has: it is not waited for.
LEMMA OwnIsHeldStep ==
    ASSUME Shapes, OwnershipKnown, OneForEach, NEW p \in Pids, Step(p)
    PROVE  OwnIsHeld'
  <1> DEFINE Held(m, q) ==
        /\ procs[m].start < procs[q].start
        /\ \E u \in Units : /\ procs[q].unit = {u}
                            /\ ChildOf(m, u).st \in Unwaited
                            /\ ChildOf(m, u).id = Self(q)
  <1>1. ASSUME NEW m \in Pids, NEW q \in Pids, Alive(m)', IsUnit(q)',
               procs'[q].parent = Self(m)'
        PROVE  Held(m, q)'
    <2>1. CASE /\ Alive(m) /\ Self(m)' = Self(m)
               /\ procs'[m].start = procs[m].start
      <3>1. CASE Same(q)
        <4>1. IsUnit(q) /\ procs[q].parent = Self(m) /\ Self(q)' = Self(q)
          BY <1>1, <2>1, <3>1 DEF IsUnit, Same, Self
        <4>2. Held(m, q)
          BY <2>1, <4>1 DEF OneForEach, OwnIsHeld
        <4>3. PICK u \in Units : /\ procs[q].unit = {u}
                                 /\ ChildOf(m, u).st \in Unwaited
                                 /\ ChildOf(m, u).id = Self(q)
          BY <4>2
        <4>4. procs[ChildOf(m, u).id.pid].kind = "unit"
          BY <4>1, <4>3 DEF Self, IsUnit
        <4>5. /\ ChildOf(m, u)'.st \in Unwaited
              /\ ChildOf(m, u)'.id = ChildOf(m, u).id
          BY <1>1, <2>1, <4>3, <4>4, ChildKept
        <4> QED
          BY <2>1, <3>1, <4>1, <4>2, <4>3, <4>5 DEF Same
      <3>2. ASSUME NEW v \in Units, ForkedAs(p, v, q)
            PROVE  Held(m, q)'
        <4>1. p = m
          BY <1>1, <2>1, <3>2 DEF ForkedAs, Self
        <4>2. procs[m].start < clock /\ procs'[q].start = clock
          BY <3>2 DEF ForkedAs, OwnershipKnown, ClockAhead
        <4>3. Self(q)' = [pid |-> q, start |-> clock]
          BY <4>2 DEF Self
        <4> QED
          BY <2>1, <3>2, <4>1, <4>2, <4>3 DEF ForkedAs
      <3> QED
        BY <1>1, <3>1, <3>2, UnitsStep
    <2>2. CASE Launch(p) /\ Self(m)' = [pid |-> m, start |-> clock]
      <3>1. ~\E v \in Units : Fork(p, v)
        BY <2>2 DEF Launch, Spawned, Fork, InLoop, Alive
      <3>2. Same(q)
        BY <1>1, <3>1, UnitsStep DEF ForkedAs
      <3>3. procs[q].parent.start < clock /\ clock \in Nat
        BY DEF OwnershipKnown, ClockAhead, Shapes
      <3>4. procs[q].parent.start = clock
        BY <1>1, <2>2, <3>2 DEF Same
      <3> QED
        BY <3>3, <3>4
    <2> QED
      BY <1>1, <2>1, <2>2, AliveStep
  <1> QED
    BY <1>1 DEF OwnIsHeld

\* A former monitor's recorded process stays listed: it is skipped only when its
\* monitor lives, and none does, and it is done with only when it is gone.
LEMMA ForeignIsListedStep ==
    ASSUME Shapes, OwnershipKnown, OneForEach, NEW p \in Pids, Step(p)
    PROVE  ForeignIsListed'
  <1> DEFINE Listed(m, u) == /\ mons[m].pc \notin {"run", "closing"}
                             /\ mons[m].pc = "reclaim" => u \in mons[m].todo
  <1>1. ASSUME NEW m \in Pids, NEW q \in Pids, NEW u \in Units,
               Alive(m)', RecordedFor(q, u)', procs'[q].parent # Self(m)'
        PROVE  Listed(m, u)'
    <2>1. CASE mons'[m] = At("probe")
      BY <2>1 DEF At
    <2>2. CASE Alive(m) /\ Self(m)' = Self(m)
      <3>1. procs[q].parent # Self(m)
        BY <1>1, <2>2, RecordedStep DEF Same
      <3>2. ~RecordedAs(p, u, q)
        <4>1. RecordedAs(p, u, q) => Alive(p) /\ procs[q].parent = Self(p)
          BY RecordedOwn
        <4> QED
          BY <2>2, <3>1, <4>1 DEF OneForEach, OneMonitor
      <3>3. RecordedFor(q, u)
        BY <1>1, <3>2, RecordedStep
      <3>4. Listed(m, u)
        BY <2>2, <3>1, <3>3 DEF OneForEach, ForeignIsListed
      <3>5. /\ records'[u] = records[u] \/ Recorded(p, u)
            /\ records[u] # NoRecord
            /\ ~(ReclaimSkip(p, u) /\ ~SameProcess(records[u].child))
            /\ ~ReclaimDone(p, u)
        BY <3>3, ForgetsNobody
      <3>6. ~ReclaimSkip(p, u)
        <4>1. SUFFICES ASSUME ReclaimSkip(p, u) PROVE FALSE
          OBVIOUS
        <4>2. MonitorLives(p, records[u]) /\ Alive(p)
          BY <3>5, <4>1 DEF ReclaimSkip, Reclaiming
        <4>3. /\ Alive(records[u].monitor.pid) /\ records[u].monitor.pid # p
              /\ records[u].monitor.pid \in Pids
          BY <4>2 DEF MonitorLives, OneForEach, MonitorNamed, SameProcess, Live
        <4> QED
          BY <4>2, <4>3 DEF OneForEach, OneMonitor
      <3>7. mons'[m].pc \notin {"run", "closing"}
        <4>1. ~(m = p /\ RunLoop(p))
          BY <3>4 DEF RunLoop, Reclaiming
        <4> QED
          BY <1>1, <2>2, <3>4, <4>1, LoopStep
      <3>8. ASSUME mons'[m].pc = "reclaim"
            PROVE  u \in mons'[m].todo
        <4>1. CASE mons[m].pc = "reclaim" /\ mons'[m].todo = mons[m].todo
          BY <3>4, <4>1
        <4>2. CASE mons'[m].todo = {v \in Units : records[v] # NoRecord}
          BY <3>5, <4>2
        <4>3. ASSUME NEW v \in Units, mons[m].pc = "reclaim",
                     ReclaimSkip(p, v) \/ ReclaimDone(p, v),
                     mons'[m].todo = mons[m].todo \ {v}
              PROVE  u \in mons'[m].todo
          <5>1. v # u
            BY <3>5, <3>6, <4>3
          <5> QED
            BY <3>4, <4>3, <5>1
        <4> QED
          BY <1>1, <2>2, <3>8, <4>1, <4>2, <4>3, TodoStep
      <3> QED
        BY <3>7, <3>8
    <2> QED
      BY <1>1, <2>1, <2>2, AliveStep
  <1> QED
    BY <1>1 DEF ForeignIsListed

\* What a reclaim waits for stays recorded until it is forgotten.
LEMMA VictimIsRecordedStep ==
    ASSUME Shapes, OwnershipKnown, OneForEach, NEW p \in Pids, Step(p)
    PROVE  VictimIsRecorded'
  <1>1. ASSUME NEW m \in Pids, NEW u \in Units, Alive(m)',
               mons'[m].victim[u] # Nobody
        PROVE  mons'[m].pc = "reclaim" /\ mons'[m].victim[u] = records'[u].child
    <2>1. mons'[m] # At("probe")
      BY <1>1 DEF At
    <2>2. Alive(m)
      BY <1>1, <2>1, AliveStep
    <2>3. CASE m = p /\ ReclaimSignal(p, u)
      BY <2>3 DEF ReclaimSignal, Reclaiming, SetMon, Shapes, Monitor
    <2>4. CASE mons'[m].victim[u] = mons[m].victim[u]
      <3>1. mons[m].pc = "reclaim" /\ mons[m].victim[u] = records[u].child
        BY <1>1, <2>2, <2>4 DEF OneForEach, VictimIsRecorded
      <3>2. ~Idle(m)
        BY <1>1, <2>4 DEF Idle
      <3>3. Alive(p) => m = p
        BY <2>2 DEF OneForEach, OneMonitor
      <3>4. ~RunLoop(p) /\ ~ReclaimSkip(p, u)
        BY <3>2, <3>3 DEF RunLoop, ReclaimSkip, Reclaiming
      <3>5. mons'[m].pc = "reclaim"
        BY <1>1, <2>2, <3>1, <3>4, ReclaimKept
      <3>6. ~Recorded(p, u) /\ ~RemoveRecord(p, u)
        BY <3>1, <3>3 DEF Recorded, RecordOwner, RemoveRecord, InLoop
      <3>7. ~ReclaimDone(p, u)
        <4>1. SUFFICES ASSUME ReclaimDone(p, u) PROVE FALSE
          OBVIOUS
        <4>2. m = p
          BY <3>3, <4>1 DEF ReclaimDone, Reclaiming
        <4>3. mons'[p].victim[u] = Nobody
          BY <4>1 DEF ReclaimDone, SetMon, Shapes, Monitor
        <4> QED
          BY <1>1, <4>2, <4>3
      <3>8. records'[u] = records[u]
        BY <3>4, <3>6, <3>7, RecordRemoved
      <3> QED
        BY <2>4, <3>1, <3>5, <3>8
    <2> QED
      BY <1>1, <2>3, <2>4, VictimsStep DEF Step
  <1> QED
    BY <1>1 DEF VictimIsRecorded

\* A unit is forked beside a recorded process of its own neither by the monitor
\* that has it nor by one whose reclaim left it; and a process that is recorded
\* is the youngest of its unit.
LEMMA RecordedIsAloneStep ==
    ASSUME Shapes, OwnershipKnown, OneForEach, NEW p \in Pids, Step(p)
    PROVE  RecordedIsAlone'
  <1>1. ASSUME NEW a \in Pids, NEW b \in Pids, IsUnit(a)', IsUnit(b)',
               procs'[a].unit = procs'[b].unit,
               procs'[a].start < procs'[b].start, procs'[a].recorded
        PROVE  FALSE
    <2>1. ASSUME NEW v \in Units, ForkedAs(p, v, a)
          PROVE  FALSE
      BY <1>1, <2>1 DEF ForkedAs
    <2>2. Same(a)
      BY <1>1, <2>1, UnitsStep
    <2>3. CASE procs[a].recorded /\ Same(b)
      BY <1>1, <2>2, <2>3 DEF Same, IsUnit, OneForEach, RecordedIsAlone
    <2>4. ASSUME procs[a].recorded, NEW v \in Units, ForkedAs(p, v, b)
          PROVE  FALSE
      <3>1. RecordedFor(a, v)
        <4>1. procs'[b].unit = {v}
          BY <2>4 DEF ForkedAs
        <4> QED
          BY <1>1, <2>2, <2>4, <4>1 DEF Same, RecordedFor, IsUnit
      <3>2. InLoop(p) /\ ChildOf(p, v).st = "none"
        BY <2>4 DEF ForkedAs, Fork
      <3> QED
        BY <3>1, <3>2, OwnInLoop DEF Unwaited
    <2>5. ASSUME NEW v \in Units, RecordedAs(p, v, a)
          PROVE  FALSE
      <3>1. /\ Alive(p) /\ clock' = clock
            /\ procs[a].parent = Self(p) /\ procs[a].unit = {v}
        BY <2>5, RecordedOwn
      <3>2. Same(b)
        <4>1. clock \in Nat
          BY DEF Shapes
        <4>2. ASSUME NEW w \in Units, ForkedAs(p, w, b)
              PROVE  FALSE
          <5>1. clock' = clock + 1
            BY <4>2 DEF ForkedAs
          <5> QED
            BY <3>1, <4>1, <5>1
        <4> QED
          BY <1>1, <4>2, UnitsStep
      <3>3. /\ IsUnit(a) /\ IsUnit(b) /\ procs[b].unit = {v}
            /\ procs[a].start < procs[b].start
        BY <1>1, <2>2, <3>1, <3>2 DEF Same, IsUnit
      <3>4. procs[p].start < procs[a].start
        BY <3>1, <3>3 DEF OneForEach, OwnIsHeld
      <3>5. procs[b].parent = Self(p)
        <4>1. \A r \in Pids : procs[r].start \in Nat
          BY DEF Shapes, Process
        <4>2. procs[b].parent # Self(p) => procs[b].start < procs[p].start
          BY <3>1, <3>3 DEF OneForEach, ForeignIsOlder
        <4> QED
          BY <3>3, <3>4, <4>1, <4>2
      <3>6. ChildOf(p, v).id = Self(b)
        BY <3>1, <3>3, <3>5 DEF OneForEach, OwnIsHeld
      <3>7. a = b
        BY <2>5, <3>6 DEF RecordedAs, Self
      <3>8. procs[b].start \in Nat
        BY DEF Shapes, Process
      <3> QED
        BY <3>3, <3>7, <3>8
    <2>6. procs[a].recorded
      BY <1>1, <2>1, <2>5, UnitsStep
    <2> QED
      BY <1>1, <2>3, <2>4, <2>6, UnitsStep
  <1> QED
    BY <1>1 DEF RecordedIsAlone, IsUnit

\* It holds at first: there is no process.
LEMMA OneForEachInit == Init => OneForEach
  <1> SUFFICES ASSUME Init PROVE OneForEach
    OBVIOUS
  <1>1. \A q \in Pids : ~Alive(q) /\ ~IsUnit(q)
    BY DEF Init, Alive, IsUnit, Free
  <1>2. \A u \in Units : ~SameProcess(records[u].monitor)
    BY SuccessionAssumption DEF Init, SameProcess, Live, NoRecord, Nobody
  <1> QED
    BY <1>1, <1>2 DEF OneForEach, OneMonitor, ForeignIsOlder, OwnIsHeld,
       RecordNames, MonitorNamed, ForeignIsListed, VictimIsRecorded,
       RecordedIsAlone, RecordedFor, IsUnit

\* While no monitor is launched beside another, each knows the processes of
\* its units: the invariant that makes RecordedIsAlone inductive.
THEOREM EachKnowsItsUnits == Overlap = FALSE /\ Spec => []OneForEach
  <1> SUFFICES ASSUME Overlap = FALSE PROVE Spec => []OneForEach
    OBVIOUS
  <1>1. Shapes /\ OwnershipKnown /\ OneForEach /\ [Next]_vars => OneForEach'
    <2> SUFFICES ASSUME Shapes, OwnershipKnown, OneForEach, [Next]_vars
                 PROVE  OneForEach'
      OBVIOUS
    <2>1. ASSUME NEW p \in Pids, Step(p)
          PROVE  OneForEach'
      BY <2>1, OneMonitorStep, ForeignIsOlderStep, OwnIsHeldStep,
         RecordNamesStep, MonitorNamedStep, ForeignIsListedStep,
         VictimIsRecordedStep, RecordedIsAloneStep DEF OneForEach
    <2>2. CASE UNCHANGED vars
      BY <2>2, SMTT(30) DEF vars, OneForEach, OneMonitor, ForeignIsOlder,
         OwnIsHeld, RecordNames, MonitorNamed, ForeignIsListed, VictimIsRecorded,
         RecordedIsAlone, RecordedFor, IsUnit, Alive, Self, ChildOf,
         SameProcess, Live
    <2> QED
      BY <2>1, <2>2 DEF Next, Step
  <1> QED
    BY <1>1, OneForEachInit, ShapesKept, OwnershipAlwaysKnown, PTL DEF Spec

\* Once a unit's process has its record, no other process of the unit is
\* started while it lives, by its own monitor or by a successor: whatever is
\* killed and when, for monitors that come one after the other.
THEOREM RecordedStaysAlone == Overlap = FALSE /\ Spec => []RecordedIsAlone
  <1>1. OneForEach => RecordedIsAlone
    BY DEF OneForEach
  <1> QED
    BY <1>1, EachKnowsItsUnits, PTL

=============================================================================
