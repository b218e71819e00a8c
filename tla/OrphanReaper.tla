---------------------------- MODULE OrphanReaper ----------------------------
(***************************************************************************)
(* The reaper of the supervisor (internal/agentos/supervisord_linux.go)    *)
(* against the Wait of each main child (execChild, supervisord.go).        *)
(*                                                                         *)
(* The kernel gives the status of a process to one wait.  The reaper waits *)
(* for any child, so it may collect a main child before its Wait does; the *)
(* stash is how the status then reaches that Wait.                         *)
(*                                                                         *)
(* Abstractions.  A status is the number of the process it is of: what     *)
(* matters is whose it is.  A main child is one startTracked and the Wait  *)
(* that follows, of a unit or of an exec probe.  The wait of os.Process is *)
(* on the process and never on another one with its pid, as with a pidfd.  *)
(* The end of the supervisor is left out.                                  *)
(***************************************************************************)
EXTENDS Integers

CONSTANTS
    Children,  \* the goroutines that start a child and wait for it
    Pids,      \* process numbers
    Reuse      \* whether the kernel gives out a number again

None == 0      \* no process has this number, no status is this

VARIABLES
    procs,     \* for each pid the process that has it or had it last
    next,      \* the number of the next process
    kids,      \* a startTracked and its Wait
    mains, spawning, stash, orphans,  \* the fields of reaper
    chld,      \* a SIGCHLD is in the channel
    reap       \* the reaper's goroutine: where it is, what wait4 gave it

kernel == <<procs, next>>
fields == <<mains, spawning, stash, orphans>>
vars == <<kernel, kids, fields, chld, reap>>

Process(id, st) == [id |-> id, st |-> st]
NoKid == [pc |-> "idle", pid |-> None, id |-> None, got |-> None, said |-> None]
Reaping(pc, pid, id) == [pc |-> pc, pid |-> pid, id |-> id]

At(c, pc) == kids[c].pc = pc

(***************************************************************************)
(* Processes.                                                              *)
(***************************************************************************)
Free(p) == procs[p].st = "free" /\ (Reuse \/ procs[p].id = None)

Born(p, st) ==
    /\ Free(p)
    /\ procs' = [procs EXCEPT ![p] = Process(next, st)]
    /\ next' = next + 1

\* The kernel forgets a process when somebody has its status.
Collected(p) == procs' = [procs EXCEPT ![p].st = "free"] /\ UNCHANGED next

\* An orphan becomes a child of the supervisor, running or ended already.
Adopt(p, st) ==
    /\ Born(p, st)
    /\ chld' = (chld \/ st = "zombie")
    /\ UNCHANGED <<kids, fields, reap>>

\* A signal that finds the channel full is dropped: one wake owes several waits.
Exits(p) ==
    /\ procs[p].st = "runs"
    /\ procs' = [procs EXCEPT ![p].st = "zombie"]
    /\ chld' = TRUE
    /\ UNCHANGED <<next, kids, fields, reap>>

(***************************************************************************)
(* startTracked.                                                           *)
(***************************************************************************)
\* What the stash keeps once no spawn is in flight; the rest were orphans.
Swept(s, live) == [p \in Pids |-> IF p \in live THEN s[p] ELSE None]

Sweep(live) ==
    IF spawning' = 0
    THEN /\ stash' = Swept(stash, live)
         /\ orphans' = orphans \cup ({stash[p] : p \in Pids \ live} \ {None})
    ELSE UNCHANGED <<stash, orphans>>

Arm(c) ==
    /\ At(c, "idle")
    /\ kids' = [kids EXCEPT ![c] = [NoKid EXCEPT !.pc = "spawn"]]
    /\ spawning' = spawning + 1
    /\ UNCHANGED <<kernel, mains, stash, orphans, chld, reap>>

Fork(c, p) ==
    /\ At(c, "spawn")
    /\ Born(p, "runs")
    /\ kids' = [kids EXCEPT ![c].pc = "forked", ![c].pid = p, ![c].id = next]
    /\ UNCHANGED <<fields, chld, reap>>

Disarm(c) ==
    /\ At(c, "spawn")
    /\ kids' = [kids EXCEPT ![c] = NoKid]
    /\ spawning' = spawning - 1
    /\ Sweep(mains)
    /\ UNCHANGED <<kernel, mains, chld, reap>>

Watch(c) ==
    /\ At(c, "forked")
    /\ kids' = [kids EXCEPT ![c].pc = "wait"]
    /\ spawning' = spawning - 1
    /\ mains' = mains \cup {kids[c].pid}
    /\ Sweep(mains')
    /\ UNCHANGED <<kernel, chld, reap>>

(***************************************************************************)
(* Wait: cmd.Wait collects the process, or finds that it is gone.  It may  *)
(* return much later, when the last of the output is copied.               *)
(***************************************************************************)
Own(c) == procs[kids[c].pid].id = kids[c].id

WaitCollects(c) ==
    /\ At(c, "wait")
    /\ Own(c) /\ procs[kids[c].pid].st = "zombie"
    /\ Collected(kids[c].pid)
    /\ kids' = [kids EXCEPT ![c].pc = "take", ![c].got = kids[c].id]
    /\ UNCHANGED <<fields, chld, reap>>

WaitFindsNoChild(c) ==
    /\ At(c, "wait")
    /\ ~Own(c) \/ procs[kids[c].pid].st = "free"
    /\ kids' = [kids EXCEPT ![c].pc = "take"]
    /\ UNCHANGED <<kernel, fields, chld, reap>>

\* The status of its own wait if there is one, else the stashed one.
Take(c) ==
    /\ At(c, "take")
    /\ LET pid == kids[c].pid
           said == IF kids[c].got # None THEN kids[c].got ELSE stash[pid]
       IN /\ kids' = [kids EXCEPT ![c].pc = "done", ![c].said = said]
          /\ stash' = [stash EXCEPT ![pid] = None]
          /\ mains' = mains \ {pid}
    /\ UNCHANGED <<kernel, spawning, orphans, chld, reap>>

\* The next start of the unit, or the next probe.
Again(c) ==
    /\ At(c, "done")
    /\ kids' = [kids EXCEPT ![c] = NoKid]
    /\ UNCHANGED <<kernel, fields, chld, reap>>

(***************************************************************************)
(* The reaper.                                                             *)
(***************************************************************************)
Wake ==
    /\ reap.pc = "sleep" /\ chld
    /\ chld' = FALSE
    /\ reap' = Reaping("wait4", None, None)
    /\ UNCHANGED <<kernel, kids, fields>>

Wait4(p) ==
    /\ reap.pc = "wait4"
    /\ procs[p].st = "zombie"
    /\ Collected(p)
    /\ reap' = Reaping("lock", p, procs[p].id)
    /\ UNCHANGED <<kids, fields, chld>>

Store ==
    /\ reap.pc = "lock"
    /\ IF spawning > 0 \/ reap.pid \in mains
       THEN stash' = [stash EXCEPT ![reap.pid] = reap.id] /\ UNCHANGED orphans
       ELSE orphans' = orphans \cup {reap.id} /\ UNCHANGED stash
    /\ reap' = Reaping("wait4", None, None)
    /\ UNCHANGED <<kernel, kids, mains, spawning, chld>>

Sleep ==
    /\ reap.pc = "wait4"
    /\ \A p \in Pids : procs[p].st # "zombie"
    /\ reap' = Reaping("sleep", None, None)
    /\ UNCHANGED <<kernel, kids, fields, chld>>

Init ==
    /\ procs = [p \in Pids |-> Process(None, "free")] /\ next = 1
    /\ kids = [c \in Children |-> NoKid]
    /\ mains = {} /\ spawning = 0 /\ stash = [p \in Pids |-> None] /\ orphans = {}
    /\ chld = FALSE /\ reap = Reaping("sleep", None, None)

Next ==
    \/ \E p \in Pids, st \in {"runs", "zombie"} : Adopt(p, st)
    \/ \E p \in Pids : Exits(p) \/ Wait4(p)
    \/ \E c \in Children : \/ Arm(c) \/ Disarm(c) \/ Watch(c)
                           \/ \E p \in Pids : Fork(c, p)
                           \/ WaitCollects(c) \/ WaitFindsNoChild(c)
                           \/ Take(c) \/ Again(c)
    \/ Wake \/ Store \/ Sleep

Spec == Init /\ [][Next]_vars

(***************************************************************************)
(* Correctness.                                                            *)
(***************************************************************************)
\* A Wait whose child was collected by the reaper finds its status on the
\* stash, unless the reaper has it in hand and not yet the lock.
StatusIsKept ==
    \A c \in Children :
        At(c, "take") /\ kids[c].got = None =>
            \/ stash[kids[c].pid] = kids[c].id
            \/ reap.id = kids[c].id

\* A status that a Wait returns is of its own child.
StatusIsOwn ==
    \A c \in Children :
        At(c, "done") => kids[c].said \in {kids[c].id, None}

\* No zombie stays: a SIGCHLD is pending or the reaper has not finished.
ZombiesAreDue ==
    (\E p \in Pids : procs[p].st = "zombie") => chld \/ reap.pc # "sleep"

\* Outside spawns nothing is kept but for a live main child.
StashIsForMains ==
    spawning = 0 => \A p \in Pids \ mains : stash[p] = None

\* startTracked: "the status of a child the reaper collects first is never
\* lost".  It is when the Wait comes back between the reaper's wait4 and its
\* lock.
NeverLost == \A c \in Children : At(c, "done") => kids[c].said # None
=============================================================================
