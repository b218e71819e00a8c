------------------------- MODULE MonitorSuccession -------------------------
(***************************************************************************)
(* One `bashy supervisord` after another: who owns the control socket      *)
(* (internal/agentos/supervisord_ipc.go), the ownership record each unit's *)
(* process leaves (supervisord_owner.go), a monitor killed hard, and the   *)
(* reclaim of what it left by the next one.                                *)
(*                                                                         *)
(* A process is a pid and a start time; pids are used again, start times   *)
(* never.  The loop itself is abstracted to what matters here: it starts   *)
(* and stops the processes of its units (SupervisorMonitor has the rest).  *)
(* Reading an identity and signalling it is one step, writing a record     *)
(* succeeds, and KILL ends a process.                                      *)
(***************************************************************************)
EXTENDS Integers, FiniteSets

CONSTANTS
    Units,    \* process units of the home
    Pids,     \* process numbers
    Overlap   \* a monitor may be launched while another one is alive

ASSUME SuccessionAssumption == Pids \subseteq Nat \ {0} /\ Overlap \in BOOLEAN

VARIABLES
    procs,    \* the process table
    clock,    \* the start time of the next process
    sock,     \* whose listener the socket file is, or Nobody: no file
    records,  \* owner.json of each unit, or NoRecord: no file
    mons      \* the state of the monitor of each pid

vars == <<procs, clock, sock, records, mons>>

Id == [pid : Pids \cup {0}, start : Nat]
Nobody == [pid |-> 0, start |-> 0]
Record == [child : Id, monitor : Id]
NoRecord == [child |-> Nobody, monitor |-> Nobody]

Kinds == {"free", "zombie", "monitor", "unit", "other"}
\* unit, parent and recorded say what a "unit" process is, for the properties.
Process == [kind : Kinds, start : Nat, unit : SUBSET Units, parent : Id,
            recorded : BOOLEAN]
Free == [kind |-> "free", start |-> 0, unit |-> {}, parent |-> Nobody,
         recorded |-> FALSE]

\* A unit's process seen by its monitor: forked and not yet recorded, up,
\* waited for (its record not yet removed), or none.
Child == [st : {"none", "forked", "up", "waited"}, id : Id, owned : BOOLEAN]
NoChild == [st |-> "none", id |-> Nobody, owned |-> FALSE]

Stages == {"off", "probe", "remove", "listen", "reclaim", "run", "closing",
           "refused"}
Monitor == [pc : Stages, stopping : BOOLEAN, todo : SUBSET Units,
            victim : [Units -> Id], child : [Units -> Child]]
At(stage) == [pc |-> stage, stopping |-> FALSE, todo |-> {},
              victim |-> [u \in Units |-> Nobody],
              child |-> [u \in Units |-> NoChild]]

\* The identity of the process that has pid p.
Self(p) == [pid |-> p, start |-> procs[p].start]
Dead == {"free", "zombie"}

\* procStartTime finds a process, and no zombie.
Live(pid) == pid \in Pids /\ procs[pid].kind \notin Dead

\* Mutant: an identity is a pid.
SamePid(id) == Live(id.pid)

\* sameProcess: alive, and started when the identity says.
SameProcess(id) == Live(id.pid) /\ procs[id.pid].start = id.start

Alive(p) == procs[p].kind = "monitor"

(***************************************************************************)
(* Processes come and go.                                                  *)
(***************************************************************************)
Spawned(p, proc) ==
    /\ procs[p].kind = "free"
    /\ procs' = [procs EXCEPT ![p] = proc]
    /\ clock' = clock + 1

\* The monitor's process is gone.  Its children go on without a parent; those
\* nobody waits for any more are reaped by the system.
Gone(p) ==
    procs' = [q \in Pids |->
                IF q = p \/ (procs[q].kind = "zombie"
                             /\ procs[q].parent = Self(p))
                THEN Free ELSE procs[q]]

SetMon(p, m) == mons' = [mons EXCEPT ![p] = m]

Launch(p) ==
    /\ Overlap \/ \A q \in Pids : ~Alive(q)
    /\ Spawned(p, [Free EXCEPT !.kind = "monitor", !.start = clock])
    /\ SetMon(p, At("probe"))
    /\ UNCHANGED <<sock, records>>

\* SIGKILL, or the kernel out of memory: at any moment.
Crash(p) ==
    /\ Alive(p)
    /\ Gone(p) /\ SetMon(p, At("off"))
    /\ UNCHANGED <<clock, sock, records>>

OtherStarts(p) ==
    /\ Spawned(p, [Free EXCEPT !.kind = "other", !.start = clock])
    /\ UNCHANGED <<sock, records, mons>>

\* A process ends; it stays a zombie until its parent, if any, waits for it.
Ends(p) ==
    /\ procs[p].kind \in {"unit", "other"}
    /\ procs' = [procs EXCEPT ![p] =
                    IF SameProcess(procs[p].parent)
                    THEN [@ EXCEPT !.kind = "zombie"] ELSE Free]
    /\ UNCHANGED <<clock, sock, records, mons>>

(***************************************************************************)
(* serveControl: probe the socket, remove the file, listen.                *)
(***************************************************************************)
\* A monitor answers `status` once its loop runs: between listening and the
\* end of the reclaim the request waits in the queue, and the caller gives up
\* after a second.
Answers(id) == SameProcess(id) /\ mons[id.pid].pc = "run"

Refuse(p) == Gone(p) /\ SetMon(p, At("refused"))

Probe(p) ==
    /\ Alive(p) /\ mons[p].pc = "probe"
    /\ IF Answers(sock) THEN Refuse(p)
       ELSE SetMon(p, [mons[p] EXCEPT !.pc = "remove"]) /\ UNCHANGED procs
    /\ UNCHANGED <<clock, sock, records>>

\* Mutant: a stale socket file is left where it is.
LeaveSocket(p) ==
    /\ Alive(p) /\ mons[p].pc = "remove"
    /\ SetMon(p, [mons[p] EXCEPT !.pc = "listen"])
    /\ UNCHANGED <<procs, clock, records, sock>>

RemoveSocket(p) ==
    /\ Alive(p) /\ mons[p].pc = "remove"
    /\ sock' = Nobody
    /\ SetMon(p, [mons[p] EXCEPT !.pc = "listen"])
    /\ UNCHANGED <<procs, clock, records>>

\* Binding fails if the file exists again.  Then the records are listed.
Listen(p) ==
    /\ Alive(p) /\ mons[p].pc = "listen"
    /\ IF sock # Nobody THEN Refuse(p) /\ UNCHANGED sock
       ELSE /\ sock' = Self(p)
            /\ SetMon(p, [mons[p] EXCEPT !.pc = "reclaim",
                             !.todo = {u \in Units : records[u] # NoRecord}])
            /\ UNCHANGED procs
    /\ UNCHANGED <<clock, records>>

(***************************************************************************)
(* reclaimOrphans: one record after the other, then the loop.              *)
(***************************************************************************)
Reclaiming(p) == Alive(p) /\ mons[p].pc = "reclaim"
Idle(p) == \A u \in Units : mons[p].victim[u] = Nobody

Forget(u) == records' = [records EXCEPT ![u] = NoRecord]

\* Mutant: any process with the recorded monitor's pid is that monitor.
MonitorPidInUse(p, rec) == rec.monitor.pid # p /\ SamePid(rec.monitor)

\* "The monitor that started it is still alive": not ours to touch.
MonitorLives(p, rec) == rec.monitor.pid # p /\ SameProcess(rec.monitor)

\* The record is gone, its monitor lives, or its process is gone.
ReclaimSkip(p, u) ==
    /\ Reclaiming(p) /\ Idle(p) /\ u \in mons[p].todo
    /\ \/ records[u] = NoRecord /\ UNCHANGED records
       \/ /\ records[u] # NoRecord /\ MonitorLives(p, records[u])
          /\ UNCHANGED records
       \/ /\ records[u] # NoRecord /\ ~MonitorLives(p, records[u])
          /\ ~SameProcess(records[u].child)
          /\ Forget(u)
    /\ SetMon(p, [mons[p] EXCEPT !.todo = @ \ {u}])
    /\ UNCHANGED <<procs, clock, sock>>

\* An orphan: the declared stop signal.  It may end, or outlast its grace.
ReclaimSignal(p, u) ==
    /\ Reclaiming(p) /\ Idle(p) /\ u \in mons[p].todo
    /\ records[u] # NoRecord /\ ~MonitorLives(p, records[u])
    /\ SameProcess(records[u].child)
    /\ SetMon(p, [mons[p] EXCEPT !.victim[u] = records[u].child])
    /\ UNCHANGED <<procs, clock, sock, records>>

\* The grace is over and it is still the same process: KILL.
ReclaimKill(p, u) ==
    /\ Reclaiming(p) /\ SameProcess(mons[p].victim[u])
    /\ procs' = [procs EXCEPT ![mons[p].victim[u].pid] = Free]
    /\ UNCHANGED <<clock, sock, records, mons>>

ReclaimDone(p, u) ==
    /\ Reclaiming(p) /\ mons[p].victim[u] # Nobody
    /\ ~SameProcess(mons[p].victim[u])
    /\ Forget(u)
    /\ SetMon(p, [mons[p] EXCEPT !.victim[u] = Nobody, !.todo = @ \ {u}])
    /\ UNCHANGED <<procs, clock, sock>>

RunLoop(p) ==
    /\ Reclaiming(p) /\ Idle(p) /\ mons[p].todo = {}
    /\ SetMon(p, [mons[p] EXCEPT !.pc = "run"])
    /\ UNCHANGED <<procs, clock, sock, records>>

(***************************************************************************)
(* The loop's processes: fork, record, wait, remove the record.            *)
(***************************************************************************)
InLoop(p) == Alive(p) /\ mons[p].pc = "run"
ChildOf(p, u) == mons[p].child[u]
SetChild(p, u, c) == SetMon(p, [mons[p] EXCEPT !.child[u] = c])

Fork(p, u) ==
    /\ InLoop(p) /\ ~mons[p].stopping /\ ChildOf(p, u).st = "none"
    /\ \E c \in Pids :
          /\ Spawned(c, [kind |-> "unit", start |-> clock, unit |-> {u},
                         parent |-> Self(p), recorded |-> FALSE])
          /\ SetChild(p, u, [st |-> "forked", owned |-> FALSE,
                             id |-> [pid |-> c, start |-> clock]])
    /\ UNCHANGED <<sock, records>>

\* Mutant: that the start time cannot be read is ignored, and the record of a
\* process that is already gone has none.
RecordGone(p, u) ==
    /\ InLoop(p) /\ ChildOf(p, u).st = "forked"
    /\ LET pid == ChildOf(p, u).id.pid
           start == IF Live(pid) THEN procs[pid].start ELSE 0
       IN  /\ SetChild(p, u, [ChildOf(p, u) EXCEPT !.st = "up", !.owned = TRUE])
           /\ records' = [records EXCEPT ![u] =
                  [child |-> [pid |-> pid, start |-> start], monitor |-> Self(p)]]
           /\ procs' = [procs EXCEPT ![pid].recorded = Live(pid)]
    /\ UNCHANGED <<clock, sock>>

\* recordOwner: whatever has the child's pid now; a process that is already gone
\* gets no record.
RecordOwner(p, u) ==
    /\ InLoop(p) /\ ChildOf(p, u).st = "forked"
    /\ LET pid == ChildOf(p, u).id.pid
           live == Live(pid)
       IN  /\ SetChild(p, u, [ChildOf(p, u) EXCEPT !.st = "up", !.owned = live])
           /\ IF live
              THEN /\ records' = [records EXCEPT ![u] = [child |-> Self(pid),
                                                         monitor |-> Self(p)]]
                   /\ procs' = [procs EXCEPT ![pid].recorded = TRUE]
              ELSE UNCHANGED <<records, procs>>
    /\ UNCHANGED <<clock, sock>>

\* Mutant: the wait begins before recordOwner.
WaitedEarly(p, u) ==
    /\ InLoop(p) /\ ChildOf(p, u).st \in {"forked", "up"}
    /\ procs[ChildOf(p, u).id.pid].kind = "zombie"
    /\ procs' = [procs EXCEPT ![ChildOf(p, u).id.pid] = Free]
    /\ SetChild(p, u, [ChildOf(p, u) EXCEPT !.st = IF @ = "up" THEN "waited" ELSE @])
    /\ UNCHANGED <<clock, sock, records>>

\* wait: the child's status is collected, its pid may be used again.
Waited(p, u) ==
    /\ InLoop(p) /\ ChildOf(p, u).st = "up"
    /\ procs[ChildOf(p, u).id.pid].kind = "zombie"
    /\ procs' = [procs EXCEPT ![ChildOf(p, u).id.pid] = Free]
    /\ SetChild(p, u, [ChildOf(p, u) EXCEPT !.st = "waited"])
    /\ UNCHANGED <<clock, sock, records>>

\* ... its record is removed, and only then is the wait over for Deactivate.
RemoveRecord(p, u) ==
    /\ InLoop(p) /\ ChildOf(p, u).st = "waited"
    /\ IF ChildOf(p, u).owned THEN Forget(u) ELSE UNCHANGED records
    /\ SetChild(p, u, NoChild)
    /\ UNCHANGED <<procs, clock, sock>>

(***************************************************************************)
(* The end of a monitor that is asked to stop.                             *)
(***************************************************************************)
Terminate(p) ==
    /\ InLoop(p) /\ ~mons[p].stopping
    /\ SetMon(p, [mons[p] EXCEPT !.stopping = TRUE])
    /\ UNCHANGED <<procs, clock, sock, records>>

\* Closing the listener unlinks the path, whoever's file is there by now ...
CloseListener(p) ==
    /\ InLoop(p) /\ mons[p].stopping
    /\ \A u \in Units : ChildOf(p, u).st = "none"
    /\ sock' = Nobody
    /\ SetMon(p, [mons[p] EXCEPT !.pc = "closing"])
    /\ UNCHANGED <<procs, clock, records>>

\* ... and so does the os.Remove that follows.
Finish(p) ==
    /\ Alive(p) /\ mons[p].pc = "closing"
    /\ sock' = Nobody
    /\ Gone(p) /\ SetMon(p, At("off"))
    /\ UNCHANGED <<clock, records>>

(***************************************************************************)
(* The specification.                                                      *)
(***************************************************************************)
Init ==
    /\ procs = [p \in Pids |-> Free]
    /\ clock = 1
    /\ sock = Nobody
    /\ records = [u \in Units |-> NoRecord]
    /\ mons = [p \in Pids |-> At("off")]

\* What a monitor does by itself until it serves its units.
Starting(p) ==
    \/ Probe(p) \/ RemoveSocket(p) \/ Listen(p) \/ RunLoop(p)
    \/ \E u \in Units : \/ ReclaimSkip(p, u) \/ ReclaimSignal(p, u)
                        \/ ReclaimKill(p, u) \/ ReclaimDone(p, u)

Serving(p) ==
    \/ \E u \in Units : \/ Fork(p, u) \/ RecordOwner(p, u)
                        \/ Waited(p, u) \/ RemoveRecord(p, u)
    \/ Terminate(p) \/ CloseListener(p) \/ Finish(p)

World(p) == Launch(p) \/ Crash(p) \/ OtherStarts(p) \/ Ends(p)

Next == \E p \in Pids : Starting(p) \/ Serving(p) \/ World(p)

Spec == Init /\ [][Next]_vars

\* The start of a monitor is its own straight-line code.
StartFairness == \A p \in Pids : WF_vars(Starting(p))

(***************************************************************************)
(* Properties.                                                             *)
(***************************************************************************)
Shapes ==
    /\ procs \in [Pids -> Process]
    /\ clock \in Nat
    /\ sock \in Id
    /\ records \in [Units -> Record]
    /\ mons \in [Pids -> Monitor]

\* A process has a start time.
Started == /\ clock > 0
           /\ \A p \in Pids : procs[p].kind # "free" => procs[p].start > 0

\* recordOwner writes no record that sameProcess could never match: both its
\* identities were read from a process that was there.
Identified ==
    \A u \in Units : records[u] # NoRecord =>
        records[u].child.start > 0 /\ records[u].monitor.start > 0

\* Every process, record and monitor has the shape the code gives it, and an
\* ownership record names two processes by pid and start time.
TypeOK == Shapes /\ Started /\ Identified

\* "Process ownership across monitor incarnations": once a unit's process has
\* its record, no other process of the unit is started while it lives, by its
\* own monitor or by a successor, whatever is killed and when.
RecordedIsAlone ==
    \A p, q \in Pids :
        /\ procs[p].kind = "unit" /\ procs[q].kind = "unit"
        /\ procs[p].unit = procs[q].unit /\ procs[p].start < procs[q].start
        => ~procs[p].recorded

\* Start times are in the past: none is used again.
ClockAhead ==
    /\ clock > 0
    /\ \A p \in Pids : procs[p].start < clock /\ procs[p].parent.start < clock

\* An identity that still names a process names a unit's process of this monitor.
Names(id, monitor) ==
    /\ id.start < clock
    /\ SameProcess(id) => /\ procs[id.pid].kind = "unit"
                          /\ procs[id.pid].parent = monitor

RecordsKnown ==
    \A u \in Units : /\ records[u].monitor.start < clock
                    /\ Names(records[u].child, records[u].monitor)

\* Until a child is waited for, its pid is its own.
Unwaited == {"forked", "up"}

Holds(p, u) ==
    LET id == ChildOf(p, u).id
    IN  /\ id.pid \in Pids
        /\ procs[id.pid].kind \in {"unit", "zombie"}
        /\ procs[id.pid].start = id.start
        /\ procs[id.pid].parent = Self(p)
        /\ procs[id.pid].unit = {u}

ChildrenHeld ==
    \A p \in Pids, u \in Units :
        Alive(p) /\ ChildOf(p, u).st \in Unwaited => Holds(p, u)

\* A unit's process whose monitor is gone.
Orphan(id) ==
    /\ procs[id.pid].kind = "unit" /\ procs[id.pid].start = id.start
    /\ \A q \in Pids : Alive(q) => Self(q) # procs[id.pid].parent

VictimsOrphaned ==
    \A p \in Pids, u \in Units : Alive(p) =>
        /\ mons[p].victim[u].start < clock
        /\ SameProcess(mons[p].victim[u]) => Orphan(mons[p].victim[u])

\* A monitor has records of its own only when its reclaim is over.
OwnRecordsLater ==
    \A p \in Pids, u \in Units :
        Alive(p) /\ records[u].monitor = Self(p)
            => mons[p].pc \in {"run", "closing"}

\* recordOwner and the identity it reads: a record that still names a process
\* names a child of the recorded monitor, because a pid is the child's own
\* until it is waited for and the wait begins after the record is written; and
\* what a reclaim waits for is an orphan to the end.
OwnershipKnown ==
    /\ ClockAhead
    /\ RecordsKnown
    /\ ChildrenHeld
    /\ VictimsOrphaned
    /\ OwnRecordsLater

\* "a pid whose start time differs (reused) is never signaled", nor a process
\* of a living monitor: what a reclaim signals or kills is an orphan.
SparesForeign ==
    [][\A p \in Pids : \A u \in Units :
          /\ ReclaimSignal(p, u) => Orphan(mons'[p].victim[u])
          /\ ReclaimKill(p, u) => Orphan(mons[p].victim[u])]_vars

\* A monitor that starts while no other is alive comes to run its loop unless
\* it is killed: neither a stale socket file nor an orphan keeps it out.
AloneIsServed ==
    \A p \in Pids : mons[p].pc = "probe" ~> mons[p].pc \in {"run", "off"}

\* "Holding the socket proves no other monitor serves this home".
SocketProvesAlone ==
    \A p, q \in Pids : InLoop(p) /\ InLoop(q) => p = q
=============================================================================
