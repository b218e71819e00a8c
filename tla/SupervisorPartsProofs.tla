------------------------ MODULE SupervisorPartsProofs ------------------------
(***************************************************************************)
(* Two parts of the supervisor beside its monitor.                         *)
(*                                                                         *)
(* What the stash of the orphan reaper promises to a Wait, for any number  *)
(* of children and processes, when no process number is given out again    *)
(* while the supervisor runs.  And, from "Policy" on, the start limit and  *)
(* the bounds of the backoff, for every policy, any clock and any sequence *)
(* of starts, refusals, resets and reloads.                                *)
(***************************************************************************)
EXTENDS OrphanReaper, FiniteSetTheorems, TLAPS

ProcType == [id : Nat, st : {"free", "runs", "zombie"}]

KidType ==
    [pc : {"idle", "spawn", "forked", "wait", "take", "done"},
     pid : Pids \cup {None}, id : Nat, got : Nat, said : Nat]

ReapType == [pc : {"sleep", "wait4", "lock"}, pid : Pids \cup {None}, id : Nat]

Typed ==
    /\ procs \in [Pids -> ProcType] /\ next \in Nat \ {0}
    /\ kids \in [Children -> KidType]
    /\ mains \subseteq Pids /\ stash \in [Pids -> Nat]
    /\ reap \in ReapType

\* Numbers of processes are in the order of their births, and differ.
Numbered ==
    \A p \in Pids :
        /\ procs[p].id < next
        /\ \A q \in Pids : procs[p].id = procs[q].id => procs[p].id = None \/ p = q

\* What runs or is a zombie has a number.
Alive == \A p \in Pids : procs[p].st # "free" => procs[p].id # None

HasPid(c) == kids[c].pc \in {"forked", "wait", "take", "done"}

\* A child has a process, and no other child has it.
Named ==
    \A c \in Children : HasPid(c) =>
        /\ kids[c].pid \in Pids /\ kids[c].id # None
        /\ Own(c)
        /\ \A d \in Children : HasPid(d) /\ kids[d].pid = kids[c].pid => d = c

\* What the reaper has in hand and what it keeps are of the process that had
\* the pid.
InHand ==
    /\ reap.pc = "lock" =>
          reap.pid \in Pids /\ reap.id # None /\ reap.id = procs[reap.pid].id
    /\ reap.pc # "lock" => reap.id = None

Kept == \A p \in Pids : stash[p] \in {None, procs[p].id}

\* A spawn window is open for each child in it, and mains are waited for.
Spawning == {c \in Children : kids[c].pc \in {"spawn", "forked"}}

Counted == IsFiniteSet(Spawning) /\ spawning = Cardinality(Spawning)

Watched ==
    \A c \in Children : kids[c].pc \in {"wait", "take"} => kids[c].pid \in mains

\* The status of a child whose process is gone before its Wait saw it.
HasStatus(c) == stash[kids[c].pid] = kids[c].id \/ reap.id = kids[c].id

Gone(c) ==
    \/ kids[c].pc \in {"forked", "wait"} /\ procs[kids[c].pid].st = "free"
    \/ kids[c].pc = "take" /\ kids[c].got = None

NotLostYet == \A c \in Children : Gone(c) => HasStatus(c)

Got ==
    \A c \in Children :
        /\ kids[c].pc # "take" => kids[c].got = None \/ kids[c].pc = "done"
        /\ kids[c].pc = "take" => kids[c].got \in {None, kids[c].id}

IInv ==
    /\ Typed /\ Numbered /\ Alive /\ Named /\ InHand /\ Kept /\ Counted /\ Watched
    /\ NotLostYet /\ Got /\ StatusIsOwn /\ StashIsForMains

(***************************************************************************)
(* Helpers.                                                                *)
(***************************************************************************)
\* The window is open while a child is in it.
LEMMA WindowOpen ==
    ASSUME IInv
    PROVE  /\ spawning \in Nat
           /\ \A c \in Spawning : spawning > 0
  BY FS_CardinalityType, FS_EmptySet DEF IInv, Counted

\* A child that leaves or enters the window, or stays where it is.
LEMMA WindowMoves ==
    ASSUME IInv, IsFiniteSet(Children), NEW c \in Children, NEW r \in KidType,
           kids' = [kids EXCEPT ![c] = r]
    PROVE  /\ kids' \in [Children -> KidType] /\ kids'[c] = r
           /\ \A d \in Children \ {c} : kids'[d] = kids[d]
           /\ IsFiniteSet(Spawning')
           /\ (c \in Spawning <=> r.pc \in {"spawn", "forked"}) => Spawning' = Spawning
           /\ c \notin Spawning /\ r.pc \in {"spawn", "forked"} =>
                 Cardinality(Spawning') = Cardinality(Spawning) + 1
           /\ c \in Spawning /\ r.pc \notin {"spawn", "forked"} =>
                 Cardinality(Spawning') = Cardinality(Spawning) - 1
<1>1. /\ kids' \in [Children -> KidType] /\ kids'[c] = r
      /\ \A d \in Children \ {c} : kids'[d] = kids[d]
  BY DEF IInv, Typed
<1>2. IsFiniteSet(Spawning) /\ IsFiniteSet(Spawning')
  BY FS_Subset DEF Spawning
<1>3. CASE c \in Spawning <=> r.pc \in {"spawn", "forked"}
  <2>1. Spawning' = Spawning
    BY <1>1, <1>3 DEF Spawning
  <2>. QED BY <1>1, <1>2, <1>3, <2>1
<1>4. CASE c \notin Spawning /\ r.pc \in {"spawn", "forked"}
  <2>1. Spawning' = Spawning \cup {c}
    BY <1>1, <1>4 DEF Spawning
  <2>. QED BY <1>1, <1>2, <1>4, <2>1, FS_AddElement
<1>5. CASE c \in Spawning /\ r.pc \notin {"spawn", "forked"}
  <2>1. Spawning' = Spawning \ {c}
    BY <1>1, <1>5 DEF Spawning
  <2>. QED BY <1>1, <1>2, <1>5, <2>1, FS_RemoveElement
<1>. QED BY <1>3, <1>4, <1>5

\* A birth takes a number and a pid that were never used.
LEMMA Births ==
    ASSUME Reuse = FALSE, IInv, NEW p \in Pids, NEW st \in {"runs", "zombie"},
           Born(p, st)
    PROVE  /\ procs' \in [Pids -> ProcType] /\ next' \in Nat \ {0}
           /\ procs[p].id = None /\ procs[p].st = "free"
           /\ procs'[p].id = next /\ procs'[p].st = st
           /\ \A q \in Pids \ {p} : procs'[q] = procs[q]
           /\ Numbered' /\ Alive'
<1>1. /\ procs' \in [Pids -> ProcType] /\ next' \in Nat \ {0}
      /\ procs[p].id = None /\ procs[p].st = "free"
      /\ procs'[p].id = next /\ procs'[p].st = st
      /\ \A q \in Pids \ {p} : procs'[q] = procs[q]
      /\ next' = next + 1
  BY DEF IInv, Typed, ProcType, Born, Free, Process
<1>2. Numbered'
  BY <1>1 DEF IInv, Typed, ProcType, Numbered, None
<1>3. Alive'
  BY <1>1 DEF IInv, Typed, Alive, None
<1>. QED BY <1>1, <1>2, <1>3

\* A process that ends or is collected keeps its number.
LEMMA KeepsNumber ==
    ASSUME IInv, NEW p \in Pids, NEW st \in {"free", "zombie"},
           procs' = [procs EXCEPT ![p].st = st], UNCHANGED next,
           procs[p].st # "free"
    PROVE  /\ procs' \in [Pids -> ProcType]
           /\ \A q \in Pids : procs'[q].id = procs[q].id
           /\ procs'[p].st = st
           /\ \A q \in Pids \ {p} : procs'[q].st = procs[q].st
           /\ Numbered' /\ Alive'
<1>1. /\ procs' \in [Pids -> ProcType]
      /\ \A q \in Pids : procs'[q].id = procs[q].id
      /\ procs'[p].st = st
      /\ \A q \in Pids \ {p} : procs'[q].st = procs[q].st
  BY DEF IInv, Typed, ProcType
<1>2. Numbered'
  BY <1>1 DEF IInv, Numbered
<1>3. Alive'
  BY <1>1 DEF IInv, Alive
<1>. QED BY <1>1, <1>2, <1>3

(***************************************************************************)
(* The steps.                                                              *)
(***************************************************************************)
LEMMA InitOK == Init => IInv
<1>. SUFFICES ASSUME Init PROVE IInv
  OBVIOUS
<1>1. Typed
  BY DEF Init, Typed, ProcType, KidType, ReapType, Process, NoKid, Reaping, None
<1>2. Counted
  <2>1. Spawning = {}
    BY DEF Init, Spawning, NoKid
  <2>. QED BY <2>1, FS_EmptySet DEF Init, Counted
<1>3. Numbered /\ Alive /\ Named /\ InHand /\ Kept /\ Watched
  BY DEF Init, Numbered, Alive, Named, InHand, Kept, Watched, HasPid, Process, NoKid,
         Reaping, None
<1>4. NotLostYet /\ Got /\ StatusIsOwn /\ StashIsForMains
  BY DEF Init, NotLostYet, Gone, Got, StatusIsOwn, StashIsForMains, At, NoKid
<1>. QED BY <1>1, <1>2, <1>3, <1>4 DEF IInv

\* The kernel's steps: a birth outside the children, an exit.
LEMMA AdoptKeeps ==
    ASSUME Reuse = FALSE, IInv, NEW p \in Pids, NEW st \in {"runs", "zombie"},
           Adopt(p, st)
    PROVE  IInv'
<1>1. Born(p, st) /\ UNCHANGED <<kids, mains, spawning, stash, orphans, reap>>
  BY DEF Adopt, fields
<1>2. /\ procs' \in [Pids -> ProcType] /\ next' \in Nat \ {0}
      /\ procs[p].id = None /\ procs[p].st = "free"
      /\ procs'[p].id = next /\ procs'[p].st = st
      /\ \A q \in Pids \ {p} : procs'[q] = procs[q]
      /\ Numbered' /\ Alive'
  BY <1>1, Births
<1>3. \A c \in Children : HasPid(c) => kids[c].pid # p
  BY <1>2 DEF IInv, Named, Own
<1>4. Typed'
  BY <1>1, <1>2 DEF IInv, Typed
<1>5. Named' /\ NotLostYet'
  BY <1>1, <1>2, <1>3
     DEF IInv, Named, NotLostYet, Gone, HasStatus, HasPid, Own
<1>6. InHand' /\ Kept'
  BY <1>1, <1>2 DEF IInv, InHand, Kept
<1>7. Counted' /\ Watched' /\ Got' /\ StatusIsOwn' /\ StashIsForMains'
  BY <1>1 DEF IInv, Counted, Spawning, Watched, Got, StatusIsOwn, StashIsForMains, At
<1>. QED BY <1>2, <1>4, <1>5, <1>6, <1>7 DEF IInv

\* A child that ends becomes a zombie: nobody has its status yet.
LEMMA ExitKeeps ==
    ASSUME IInv, NEW p \in Pids, Exits(p)
    PROVE  IInv'
<1>1. /\ procs' = [procs EXCEPT ![p].st = "zombie"] /\ procs[p].st # "free"
      /\ UNCHANGED <<next, kids, mains, spawning, stash, orphans, reap>>
  BY DEF Exits, fields
<1>2. /\ procs' \in [Pids -> ProcType]
      /\ \A q \in Pids : procs'[q].id = procs[q].id
      /\ procs'[p].st = "zombie"
      /\ \A q \in Pids \ {p} : procs'[q].st = procs[q].st
      /\ Numbered' /\ Alive'
  BY <1>1, KeepsNumber
<1>3. Typed'
  BY <1>1, <1>2 DEF IInv, Typed
<1>4. Named' /\ NotLostYet'
  BY <1>1, <1>2 DEF IInv, Named, NotLostYet, Gone, HasStatus, HasPid, Own
<1>5. InHand' /\ Kept'
  BY <1>1, <1>2 DEF IInv, InHand, Kept
<1>6. Counted' /\ Watched' /\ Got' /\ StatusIsOwn' /\ StashIsForMains'
  BY <1>1 DEF IInv, Counted, Spawning, Watched, Got, StatusIsOwn, StashIsForMains, At
<1>. QED BY <1>2, <1>3, <1>4, <1>5, <1>6 DEF IInv

\* arm and the beginning of another run.
LEMMA ArmKeeps ==
    ASSUME IsFiniteSet(Children), IInv, NEW c \in Children, Arm(c)
    PROVE  IInv'
<1>. DEFINE r == [NoKid EXCEPT !.pc = "spawn"]
<1>1. /\ r \in KidType /\ r.pc = "spawn" /\ r.got = None
      /\ kids[c].pc = "idle" /\ c \notin Spawning
  BY DEF Arm, At, KidType, NoKid, None, Spawning
<1>2. /\ kids' = [kids EXCEPT ![c] = r] /\ spawning' = spawning + 1
      /\ UNCHANGED <<procs, next, mains, stash, orphans, reap>>
  BY DEF Arm, kernel
<1>. HIDE DEF r
<1>3. /\ kids' \in [Children -> KidType] /\ kids'[c] = r
      /\ \A d \in Children \ {c} : kids'[d] = kids[d]
      /\ IsFiniteSet(Spawning')
      /\ Cardinality(Spawning') = Cardinality(Spawning) + 1
  BY <1>1, <1>2, WindowMoves
<1>4. Typed' /\ Numbered' /\ Alive' /\ InHand' /\ Kept'
  BY <1>2, <1>3 DEF IInv, Typed, Numbered, Alive, InHand, Kept
<1>5. Counted' /\ StashIsForMains'
  BY <1>2, <1>3, WindowOpen DEF IInv, Counted, StashIsForMains
<1>6. Named' /\ Watched'
  BY <1>1, <1>2, <1>3 DEF IInv, Named, Watched, HasPid, Own
<1>7. NotLostYet'
  BY <1>1, <1>2, <1>3 DEF IInv, NotLostYet, Gone, HasStatus
<1>8. Got' /\ StatusIsOwn'
  BY <1>1, <1>2, <1>3 DEF IInv, Got, StatusIsOwn, At
<1>. QED BY <1>4, <1>5, <1>6, <1>7, <1>8 DEF IInv

\* A Wait that found its pid gone is asked again, with the stash unchanged.
LEMMA AgainKeeps ==
    ASSUME IsFiniteSet(Children), IInv, NEW c \in Children, Again(c)
    PROVE  IInv'
<1>1. /\ NoKid \in KidType /\ NoKid.pc = "idle" /\ NoKid.got = None
      /\ kids[c].pc = "done" /\ c \notin Spawning
  BY DEF Again, At, KidType, NoKid, None, Spawning
<1>2. /\ kids' = [kids EXCEPT ![c] = NoKid]
      /\ UNCHANGED <<procs, next, mains, spawning, stash, orphans, reap>>
  BY DEF Again, kernel, fields
<1>3. /\ kids' \in [Children -> KidType] /\ kids'[c] = NoKid
      /\ \A d \in Children \ {c} : kids'[d] = kids[d]
      /\ IsFiniteSet(Spawning') /\ Spawning' = Spawning
  BY <1>1, <1>2, WindowMoves
<1>4. Typed' /\ Numbered' /\ Alive' /\ InHand' /\ Kept'
  BY <1>2, <1>3 DEF IInv, Typed, Numbered, Alive, InHand, Kept
<1>5. Counted' /\ StashIsForMains'
  BY <1>2, <1>3 DEF IInv, Counted, StashIsForMains
<1>6. Named' /\ Watched'
  BY <1>1, <1>2, <1>3 DEF IInv, Named, Watched, HasPid, Own
<1>7. NotLostYet'
  BY <1>1, <1>2, <1>3 DEF IInv, NotLostYet, Gone, HasStatus
<1>8. Got' /\ StatusIsOwn'
  BY <1>1, <1>2, <1>3 DEF IInv, Got, StatusIsOwn, At
<1>. QED BY <1>4, <1>5, <1>6, <1>7, <1>8 DEF IInv

\* The child gets a pid that no stash, reaper or child knows.
LEMMA ForkKeeps ==
    ASSUME IsFiniteSet(Children), Reuse = FALSE, IInv,
           NEW c \in Children, NEW p \in Pids, Fork(c, p)
    PROVE  IInv'
<1>. DEFINE r == [kids[c] EXCEPT !.pc = "forked", !.pid = p, !.id = next]
<1>1. /\ r \in KidType /\ r.pc = "forked" /\ r.pid = p /\ r.id = next
      /\ r.got = kids[c].got
      /\ kids[c].pc = "spawn" /\ c \in Spawning
  BY DEF Fork, At, KidType, IInv, Typed, Spawning
<1>2. /\ kids' = [kids EXCEPT ![c] = r] /\ Born(p, "runs")
      /\ UNCHANGED <<mains, spawning, stash, orphans, reap>>
  BY DEF Fork, fields
<1>. HIDE DEF r
<1>3. /\ kids' \in [Children -> KidType] /\ kids'[c] = r
      /\ \A d \in Children \ {c} : kids'[d] = kids[d]
      /\ IsFiniteSet(Spawning') /\ Spawning' = Spawning
  BY <1>1, <1>2, WindowMoves
<1>4. /\ procs' \in [Pids -> ProcType] /\ next' \in Nat \ {0}
      /\ procs[p].id = None /\ procs[p].st = "free"
      /\ procs'[p].id = next /\ procs'[p].st = "runs"
      /\ \A q \in Pids \ {p} : procs'[q] = procs[q]
      /\ Numbered' /\ Alive' /\ next # None
  BY <1>2, Births DEF IInv, Typed, None
<1>5. \A d \in Children : HasPid(d) => kids[d].pid # p
  BY <1>4 DEF IInv, Named, Own
<1>6. Typed'
  BY <1>2, <1>3, <1>4 DEF IInv, Typed
<1>7. InHand' /\ Kept'
  BY <1>2, <1>4 DEF IInv, InHand, Kept
<1>8. Counted' /\ StashIsForMains'
  BY <1>2, <1>3 DEF IInv, Counted, StashIsForMains
<1>9. Named'
  <2>1. ASSUME NEW d \in Children, HasPid(d)', d # c
        PROVE  HasPid(d) /\ kids'[d] = kids[d] /\ kids[d].pid # p
    BY <1>3, <1>5, <2>1 DEF HasPid
  <2>. QED BY <1>1, <1>3, <1>4, <2>1 DEF IInv, Named, Own
<1>10. Watched'
  BY <1>1, <1>2, <1>3 DEF IInv, Watched
<1>11. NotLostYet'
  BY <1>1, <1>2, <1>3, <1>4, <1>5 DEF IInv, NotLostYet, Gone, HasStatus, HasPid, Named
<1>12. Got' /\ StatusIsOwn'
  BY <1>1, <1>2, <1>3 DEF IInv, Got, StatusIsOwn, At
<1>. QED BY <1>4, <1>6, <1>7, <1>8, <1>9, <1>10, <1>11, <1>12 DEF IInv

\* What a sweep takes from the stash is of no child that has a Wait to come.
LEMMA SweepKeeps ==
    ASSUME IInv, NEW live \in SUBSET Pids, spawning' \in Nat, Sweep(live)
    PROVE  /\ stash' \in [Pids -> Nat]
           /\ \A p \in live : stash'[p] = stash[p]
           /\ spawning' > 0 => stash' = stash
           /\ \A p \in Pids : stash'[p] \in {stash[p], None}
           /\ spawning' = 0 => \A p \in Pids \ live : stash'[p] = None
<1>1. CASE spawning' = 0
  <2>1. stash' = [p \in Pids |-> IF p \in live THEN stash[p] ELSE None]
    BY <1>1 DEF Sweep, Swept
  <2>. QED BY <1>1, <2>1 DEF IInv, Typed, None
<1>2. CASE spawning' # 0
  BY <1>2 DEF Sweep, IInv, Typed
<1>. QED BY <1>1, <1>2

\* The window closes at the end of the start; what it let the reaper stash
\* is kept for the watched pid only.
LEMMA DisarmKeeps ==
    ASSUME IsFiniteSet(Children), IInv, NEW c \in Children, Disarm(c)
    PROVE  IInv'
<1>1. /\ NoKid \in KidType /\ NoKid.pc = "idle" /\ NoKid.got = None
      /\ kids[c].pc = "spawn" /\ c \in Spawning
  BY DEF Disarm, At, KidType, NoKid, None, Spawning
<1>2. /\ kids' = [kids EXCEPT ![c] = NoKid] /\ spawning' = spawning - 1
      /\ Sweep(mains)
      /\ UNCHANGED <<procs, next, mains, reap>>
  BY DEF Disarm, kernel
<1>3. /\ kids' \in [Children -> KidType] /\ kids'[c] = NoKid
      /\ \A d \in Children \ {c} : kids'[d] = kids[d]
      /\ IsFiniteSet(Spawning')
      /\ Cardinality(Spawning') = Cardinality(Spawning) - 1
  BY <1>1, <1>2, WindowMoves
<1>4. Counted' /\ spawning' \in Nat
  BY <1>2, <1>3, FS_CardinalityType DEF IInv, Counted
<1>5. \A d \in Spawning' : spawning' > 0
  BY <1>4, FS_EmptySet, FS_CardinalityType DEF Counted
<1>6. /\ stash' \in [Pids -> Nat]
      /\ \A p \in mains : stash'[p] = stash[p]
      /\ spawning' > 0 => stash' = stash
      /\ \A p \in Pids : stash'[p] \in {stash[p], None}
      /\ spawning' = 0 => \A p \in Pids \ mains : stash'[p] = None
  BY <1>2, <1>4, SweepKeeps DEF IInv, Typed
<1>7. Typed' /\ Numbered' /\ Alive' /\ InHand' /\ Kept'
  BY <1>2, <1>3, <1>6 DEF IInv, Typed, Numbered, Alive, InHand, Kept
<1>8. Named' /\ Watched'
  BY <1>1, <1>2, <1>3 DEF IInv, Named, Watched, HasPid, Own
<1>9. NotLostYet'
  <2>1. SUFFICES ASSUME NEW d \in Children, Gone(d)' PROVE HasStatus(d)'
    BY DEF NotLostYet
  <2>2. d # c /\ kids'[d] = kids[d] /\ Gone(d)
    BY <1>1, <1>2, <1>3, <2>1 DEF Gone
  <2>3. HasStatus(d)
    BY <2>2 DEF IInv, NotLostYet
  <2>4. CASE kids[d].pc = "forked"
    <3>1. d \in Spawning'
      BY <2>2, <2>4 DEF Spawning
    <3>. QED BY <1>2, <1>5, <1>6, <2>2, <2>3, <3>1 DEF HasStatus
  <2>5. CASE kids[d].pc \in {"wait", "take"}
    BY <1>2, <1>6, <2>2, <2>3, <2>5 DEF HasStatus, IInv, Watched
  <2>. QED BY <2>2, <2>4, <2>5 DEF Gone
<1>10. Got' /\ StatusIsOwn' /\ StashIsForMains'
  BY <1>1, <1>2, <1>3, <1>6 DEF IInv, Got, StatusIsOwn, StashIsForMains, At
<1>. QED BY <1>4, <1>7, <1>8, <1>9, <1>10 DEF IInv

\* The pid is watched before the window closes, so a status that is on the
\* stash by then stays.
LEMMA WatchKeeps ==
    ASSUME IsFiniteSet(Children), IInv, NEW c \in Children, Watch(c)
    PROVE  IInv'
<1>. DEFINE r == [kids[c] EXCEPT !.pc = "wait"]
<1>1. /\ r \in KidType /\ r.pc = "wait" /\ r.got = kids[c].got
      /\ r.id = kids[c].id /\ r.pid = kids[c].pid
      /\ kids[c].pc = "forked" /\ c \in Spawning
      /\ kids[c].pid \in Pids
  BY DEF Watch, At, KidType, IInv, Typed, Named, HasPid, Spawning
<1>2. /\ kids' = [kids EXCEPT ![c] = r] /\ spawning' = spawning - 1
      /\ mains' = mains \cup {kids[c].pid} /\ Sweep(mains')
      /\ UNCHANGED <<procs, next, reap>>
  BY DEF Watch, kernel
<1>. HIDE DEF r
<1>3. /\ kids' \in [Children -> KidType] /\ kids'[c] = r
      /\ \A d \in Children \ {c} : kids'[d] = kids[d]
      /\ IsFiniteSet(Spawning')
      /\ Cardinality(Spawning') = Cardinality(Spawning) - 1
  BY <1>1, <1>2, WindowMoves
<1>4. Counted' /\ spawning' \in Nat
  BY <1>2, <1>3, FS_CardinalityType DEF IInv, Counted
<1>5. \A d \in Spawning' : spawning' > 0
  BY <1>4, FS_EmptySet, FS_CardinalityType DEF Counted
<1>. DEFINE live == mains'
<1>6. live \in SUBSET Pids /\ mains \subseteq live /\ kids[c].pid \in live
  BY <1>1, <1>2 DEF IInv, Typed
<1>7. /\ stash' \in [Pids -> Nat]
      /\ \A p \in live : stash'[p] = stash[p]
      /\ spawning' > 0 => stash' = stash
      /\ \A p \in Pids : stash'[p] \in {stash[p], None}
      /\ spawning' = 0 => \A p \in Pids \ live : stash'[p] = None
  <2>1. Sweep(live)
    BY <1>2
  <2>. HIDE DEF live
  <2>. QED BY <1>4, <1>6, <2>1, SweepKeeps
<1>8. Typed' /\ Numbered' /\ Alive' /\ InHand' /\ Kept'
  BY <1>2, <1>3, <1>6, <1>7 DEF IInv, Typed, Numbered, Alive, InHand, Kept
<1>9. Named'
  BY <1>1, <1>2, <1>3 DEF IInv, Named, HasPid, Own
<1>10. Watched'
  BY <1>1, <1>2, <1>3 DEF IInv, Watched
<1>11. NotLostYet'
  <2>1. SUFFICES ASSUME NEW d \in Children, Gone(d)' PROVE HasStatus(d)'
    BY DEF NotLostYet
  <2>2. /\ kids'[d].pid = kids[d].pid /\ kids'[d].id = kids[d].id
        /\ Gone(d)
        /\ d # c => kids'[d] = kids[d]
    BY <1>1, <1>2, <1>3, <2>1 DEF Gone
  <2>3. HasStatus(d)
    BY <2>2 DEF IInv, NotLostYet
  <2>4. CASE d = c
    BY <1>2, <1>6, <1>7, <2>2, <2>3, <2>4 DEF HasStatus
  <2>5. CASE d # c /\ kids[d].pc = "forked"
    <3>1. d \in Spawning'
      BY <2>2, <2>5 DEF Spawning
    <3>. QED BY <1>2, <1>5, <1>7, <2>2, <2>3, <3>1 DEF HasStatus
  <2>6. CASE kids[d].pc \in {"wait", "take"}
    BY <1>2, <1>6, <1>7, <2>2, <2>3, <2>6 DEF HasStatus, IInv, Watched
  <2>. QED BY <2>2, <2>4, <2>5, <2>6 DEF Gone
<1>12. Got' /\ StatusIsOwn'
  BY <1>1, <1>2, <1>3 DEF IInv, Got, StatusIsOwn, At
<1>13. StashIsForMains'
  BY <1>7 DEF StashIsForMains
<1>. QED BY <1>4, <1>8, <1>9, <1>10, <1>11, <1>12, <1>13 DEF IInv

\* Wait has the status itself, or finds the process gone.
LEMMA CollectKeeps ==
    ASSUME IsFiniteSet(Children), IInv, NEW c \in Children, WaitCollects(c)
    PROVE  IInv'
<1>. DEFINE pid == kids[c].pid
            r == [kids[c] EXCEPT !.pc = "take", !.got = kids[c].id]
<1>1. /\ r \in KidType /\ r.pc = "take" /\ r.got = kids[c].id
      /\ r.id = kids[c].id /\ r.pid = kids[c].pid
      /\ kids[c].pc = "wait" /\ c \notin Spawning
      /\ kids[c].pid \in Pids /\ kids[c].id # None
  BY DEF WaitCollects, At, KidType, IInv, Typed, Named, HasPid, Spawning
<1>2. /\ kids' = [kids EXCEPT ![c] = r]
      /\ procs' = [procs EXCEPT ![pid].st = "free"]
      /\ procs[pid].st # "free"
      /\ UNCHANGED <<next, mains, spawning, stash, orphans, reap>>
  BY DEF WaitCollects, Collected, fields
<1>. HIDE DEF r
<1>3. /\ kids' \in [Children -> KidType] /\ kids'[c] = r
      /\ \A d \in Children \ {c} : kids'[d] = kids[d]
      /\ IsFiniteSet(Spawning') /\ Spawning' = Spawning
  BY <1>1, <1>2, WindowMoves
<1>4. /\ procs' \in [Pids -> ProcType]
      /\ \A q \in Pids : procs'[q].id = procs[q].id
      /\ \A q \in Pids \ {pid} : procs'[q].st = procs[q].st
      /\ Numbered' /\ Alive'
  BY <1>1, <1>2, KeepsNumber
<1>5. Typed' /\ InHand' /\ Kept'
  BY <1>2, <1>3, <1>4 DEF IInv, Typed, InHand, Kept
<1>6. Counted' /\ StashIsForMains'
  BY <1>2, <1>3 DEF IInv, Counted, StashIsForMains
<1>7. Named'
  BY <1>1, <1>2, <1>3, <1>4 DEF IInv, Named, HasPid, Own
<1>8. Watched'
  BY <1>1, <1>2, <1>3 DEF IInv, Watched
<1>9. NotLostYet'
  <2>1. SUFFICES ASSUME NEW d \in Children, Gone(d)' PROVE HasStatus(d)'
    BY DEF NotLostYet
  <2>2. d # c /\ kids'[d] = kids[d]
    BY <1>1, <1>3, <2>1 DEF Gone
  <2>3. kids[d].pid # pid \/ kids[d].pc = "take"
    BY <1>1, <2>1, <2>2 DEF Gone, IInv, Named, HasPid
  <2>4. Gone(d)
    BY <1>4, <2>1, <2>2, <2>3 DEF Gone, IInv, Named, HasPid
  <2>. QED BY <1>2, <2>2, <2>4 DEF HasStatus, IInv, NotLostYet
<1>10. Got' /\ StatusIsOwn'
  BY <1>1, <1>2, <1>3 DEF IInv, Got, StatusIsOwn, At
<1>. QED BY <1>4, <1>5, <1>6, <1>7, <1>8, <1>9, <1>10 DEF IInv

\* wait4 that finds no child takes nothing off the stash.
LEMMA NoChildKeeps ==
    ASSUME IsFiniteSet(Children), IInv, NEW c \in Children, WaitFindsNoChild(c)
    PROVE  IInv'
<1>. DEFINE r == [kids[c] EXCEPT !.pc = "take"]
<1>1. /\ r \in KidType /\ r.pc = "take" /\ r.got = kids[c].got
      /\ r.id = kids[c].id /\ r.pid = kids[c].pid
      /\ kids[c].pc = "wait" /\ c \notin Spawning /\ kids[c].got = None
      /\ procs[kids[c].pid].st = "free"
  BY DEF WaitFindsNoChild, At, KidType, IInv, Typed, Named, HasPid, Spawning, Got
<1>2. /\ kids' = [kids EXCEPT ![c] = r]
      /\ UNCHANGED <<procs, next, mains, spawning, stash, orphans, reap>>
  BY DEF WaitFindsNoChild, kernel, fields
<1>. HIDE DEF r
<1>3. /\ kids' \in [Children -> KidType] /\ kids'[c] = r
      /\ \A d \in Children \ {c} : kids'[d] = kids[d]
      /\ IsFiniteSet(Spawning') /\ Spawning' = Spawning
  BY <1>1, <1>2, WindowMoves
<1>4. Typed' /\ Numbered' /\ Alive' /\ InHand' /\ Kept'
  BY <1>2, <1>3 DEF IInv, Typed, Numbered, Alive, InHand, Kept
<1>5. Counted' /\ StashIsForMains'
  BY <1>2, <1>3 DEF IInv, Counted, StashIsForMains
<1>6. Named' /\ Watched'
  BY <1>1, <1>2, <1>3 DEF IInv, Named, Watched, HasPid, Own
<1>7. NotLostYet'
  BY <1>1, <1>2, <1>3 DEF IInv, NotLostYet, Gone, HasStatus
<1>8. Got' /\ StatusIsOwn'
  BY <1>1, <1>2, <1>3 DEF IInv, Got, StatusIsOwn, At
<1>. QED BY <1>4, <1>5, <1>6, <1>7, <1>8 DEF IInv

\* take forgets a pid that no other child has.
LEMMA TakeKeeps ==
    ASSUME IsFiniteSet(Children), IInv, NEW c \in Children, Take(c)
    PROVE  IInv'
<1>. DEFINE pid == kids[c].pid
            said == IF kids[c].got # None THEN kids[c].got ELSE stash[pid]
            r == [kids[c] EXCEPT !.pc = "done", !.said = said]
<1>1. /\ kids[c].pc = "take" /\ c \notin Spawning
      /\ pid \in Pids /\ kids[c].id # None /\ procs[pid].id = kids[c].id
  BY DEF Take, At, IInv, Named, HasPid, Own, Spawning
<1>2. said \in {kids[c].id, None} /\ said \in Nat
  BY <1>1 DEF IInv, Typed, KidType, Got, Kept
<1>3. /\ kids' = [kids EXCEPT ![c] = r]
      /\ stash' = [stash EXCEPT ![pid] = None] /\ mains' = mains \ {pid}
      /\ UNCHANGED <<procs, next, spawning, orphans, reap>>
  BY DEF Take, kernel
<1>. HIDE DEF said
<1>4. /\ r \in KidType /\ r.pc = "done" /\ r.said = said
      /\ r.id = kids[c].id /\ r.pid = kids[c].pid
  BY <1>2 DEF KidType, IInv, Typed
<1>. HIDE DEF r
<1>5. /\ kids' \in [Children -> KidType] /\ kids'[c] = r
      /\ \A d \in Children \ {c} : kids'[d] = kids[d]
      /\ IsFiniteSet(Spawning') /\ Spawning' = Spawning
  BY <1>1, <1>3, <1>4, WindowMoves
<1>6. /\ stash' \in [Pids -> Nat] /\ stash'[pid] = None
      /\ \A q \in Pids \ {pid} : stash'[q] = stash[q]
  BY <1>1, <1>3 DEF IInv, Typed, None
<1>7. Typed' /\ Numbered' /\ Alive' /\ InHand' /\ Kept'
  BY <1>3, <1>5, <1>6 DEF IInv, Typed, Numbered, Alive, InHand, Kept
<1>8. Counted' /\ StashIsForMains'
  BY <1>3, <1>5, <1>6 DEF IInv, Counted, StashIsForMains
<1>9. Named'
  BY <1>1, <1>3, <1>4, <1>5 DEF IInv, Named, HasPid, Own
<1>10. \A d \in Children \ {c} : HasPid(d) => kids[d].pid \in Pids \ {pid}
  BY <1>1 DEF IInv, Named, HasPid
<1>11. Watched'
  BY <1>3, <1>4, <1>5, <1>10 DEF IInv, Watched, HasPid
<1>12. NotLostYet'
  BY <1>3, <1>4, <1>5, <1>6, <1>10 DEF IInv, NotLostYet, Gone, HasStatus, HasPid
<1>13. Got' /\ StatusIsOwn'
  BY <1>2, <1>4, <1>5 DEF IInv, Got, StatusIsOwn, At
<1>. QED BY <1>7, <1>8, <1>9, <1>11, <1>12, <1>13 DEF IInv

\* The reaper collects: what it has in hand is nobody's loss yet.
LEMMA Wait4Keeps ==
    ASSUME IInv, NEW p \in Pids, Wait4(p)
    PROVE  IInv'
<1>1. /\ procs[p].st = "zombie" /\ reap.id = None
      /\ procs' = [procs EXCEPT ![p].st = "free"]
      /\ reap' = Reaping("lock", p, procs[p].id)
      /\ UNCHANGED <<next, kids, mains, spawning, stash, orphans>>
  BY DEF Wait4, Collected, fields, IInv, InHand
<1>2. /\ procs' \in [Pids -> ProcType]
      /\ \A q \in Pids : procs'[q].id = procs[q].id
      /\ \A q \in Pids \ {p} : procs'[q].st = procs[q].st
      /\ Numbered' /\ Alive'
  BY <1>1, KeepsNumber
<1>3. procs[p].id # None
  BY <1>1 DEF IInv, Alive
<1>4. /\ reap' \in ReapType /\ reap'.pc = "lock" /\ reap'.pid = p
      /\ reap'.id = procs[p].id
  BY <1>1 DEF Reaping, ReapType, IInv, Typed, ProcType
<1>5. Typed' /\ Alive' /\ InHand' /\ Kept'
  BY <1>1, <1>2, <1>3, <1>4 DEF IInv, Typed, Alive, InHand, Kept
<1>6. Named'
  BY <1>1, <1>2 DEF IInv, Named, HasPid, Own
<1>7. NotLostYet'
  <2>1. SUFFICES ASSUME NEW d \in Children, Gone(d)' PROVE HasStatus(d)'
    BY DEF NotLostYet
  <2>2. HasPid(d) /\ kids[d].pid \in Pids /\ kids[d].id # None
        /\ procs[kids[d].pid].id = kids[d].id
    BY <1>1, <2>1 DEF Gone, HasPid, IInv, Named, Own
  <2>3. CASE kids[d].pid = p
    BY <1>1, <1>4, <2>2, <2>3 DEF HasStatus
  <2>4. CASE kids[d].pid # p
    <3>1. Gone(d)
      BY <1>1, <1>2, <2>1, <2>2, <2>4 DEF Gone
    <3>. QED BY <1>1, <2>2, <3>1 DEF HasStatus, IInv, NotLostYet
  <2>. QED BY <2>3, <2>4
<1>8. Counted' /\ Watched' /\ Got' /\ StatusIsOwn' /\ StashIsForMains'
  BY <1>1 DEF IInv, Counted, Spawning, Watched, Got, StatusIsOwn, StashIsForMains, At
<1>. QED BY <1>2, <1>5, <1>6, <1>7, <1>8 DEF IInv

\* What it has in hand reaches the stash if a child may ask for it.
LEMMA StoreKeeps ==
    ASSUME IInv, Store
    PROVE  IInv'
<1>1. /\ reap.pid \in Pids /\ reap.id # None /\ reap.id = procs[reap.pid].id
      /\ reap.id \in Nat
      /\ UNCHANGED <<procs, next, kids, mains, spawning>>
  BY DEF Store, kernel, IInv, InHand, Typed, ReapType
<1>2. reap' \in ReapType /\ reap'.pc = "wait4" /\ reap'.id = None
  BY DEF Store, Reaping, ReapType, None
<1>. DEFINE keep == spawning > 0 \/ reap.pid \in mains
<1>3. /\ stash' \in [Pids -> Nat]
      /\ \A q \in Pids \ {reap.pid} : stash'[q] = stash[q]
      /\ keep => stash'[reap.pid] = reap.id
      /\ ~keep => stash' = stash
  BY <1>1 DEF Store, IInv, Typed
<1>. HIDE DEF keep
<1>4. Typed' /\ Numbered' /\ Alive' /\ InHand'
  BY <1>1, <1>2, <1>3 DEF IInv, Typed, Numbered, Alive, InHand
<1>5. Kept'
  BY <1>1, <1>3 DEF IInv, Kept
<1>6. NotLostYet'
  <2>1. SUFFICES ASSUME NEW d \in Children, Gone(d)' PROVE HasStatus(d)'
    BY DEF NotLostYet
  <2>2. /\ Gone(d) /\ HasStatus(d) /\ HasPid(d)
        /\ kids[d].pid \in Pids /\ kids[d].id # None
        /\ procs[kids[d].pid].id = kids[d].id
    BY <1>1, <2>1 DEF Gone, HasPid, IInv, Named, Own, NotLostYet
  <2>3. CASE kids[d].pid = reap.pid
    <3>1. keep
      BY <2>2, <2>3, WindowOpen DEF keep, Gone, IInv, Watched, Spawning
    <3>. QED BY <1>1, <1>3, <2>2, <2>3, <3>1 DEF HasStatus
  <2>4. CASE kids[d].pid # reap.pid
    <3>1. reap.id # kids[d].id
      BY <1>1, <2>2, <2>4 DEF IInv, Numbered
    <3>. QED BY <1>1, <1>3, <2>2, <2>4, <3>1 DEF HasStatus
  <2>. QED BY <2>3, <2>4
<1>7. StashIsForMains'
  BY <1>1, <1>3, WindowOpen DEF IInv, StashIsForMains, keep
<1>8. Named' /\ Counted' /\ Watched' /\ Got' /\ StatusIsOwn'
  BY <1>1 DEF IInv, Named, HasPid, Own, Counted, Spawning, Watched, Got,
              StatusIsOwn, At
<1>. QED BY <1>4, <1>5, <1>6, <1>7, <1>8 DEF IInv

\* Going to sleep, waking up, and nothing at all.
LEMMA RestKeeps ==
    ASSUME IInv, Wake \/ Sleep \/ UNCHANGED vars
    PROVE  IInv'
<1>1. UNCHANGED <<procs, next, kids, mains, spawning, stash, orphans>>
  BY DEF Wake, Sleep, vars, kernel, fields
<1>2. /\ reap' \in ReapType /\ reap'.id = reap.id
      /\ reap'.pc = "lock" => reap' = reap
      /\ reap.pc = "lock" => reap' = reap
  <2>1. CASE Wake \/ Sleep
    BY <2>1 DEF Wake, Sleep, Reaping, ReapType, None, IInv, InHand
  <2>2. CASE UNCHANGED vars
    BY <2>2 DEF vars, IInv, Typed
  <2>. QED BY <2>1, <2>2
<1>3. Typed' /\ Numbered' /\ Alive' /\ Kept' /\ Named' /\ InHand'
  BY <1>1, <1>2 DEF IInv, Typed, Numbered, Alive, Kept, Named, HasPid, Own, InHand
<1>4. NotLostYet'
  BY <1>1, <1>2 DEF IInv, NotLostYet, Gone, HasStatus
<1>5. Counted' /\ Watched' /\ Got' /\ StatusIsOwn' /\ StashIsForMains'
  BY <1>1 DEF IInv, Counted, Spawning, Watched, Got, StatusIsOwn, StashIsForMains, At
<1>. QED BY <1>3, <1>4, <1>5 DEF IInv

\* One case for each action.
LEMMA NextKeeps ==
    ASSUME IsFiniteSet(Children), Reuse = FALSE
    PROVE  IInv /\ [Next]_vars => IInv'
<1>. SUFFICES ASSUME IInv, [Next]_vars PROVE IInv'
  OBVIOUS
<1>1. ASSUME NEW p \in Pids, NEW st \in {"runs", "zombie"}, Adopt(p, st)
      PROVE  IInv'
  BY <1>1, AdoptKeeps
<1>2. ASSUME NEW p \in Pids, Exits(p) \/ Wait4(p) PROVE IInv'
  BY <1>2, ExitKeeps, Wait4Keeps
<1>3. ASSUME NEW c \in Children, Arm(c) \/ Disarm(c) \/ Watch(c) PROVE IInv'
  BY <1>3, ArmKeeps, DisarmKeeps, WatchKeeps
<1>4. ASSUME NEW c \in Children, NEW p \in Pids, Fork(c, p) PROVE IInv'
  BY <1>4, ForkKeeps
<1>5. ASSUME NEW c \in Children,
             WaitCollects(c) \/ WaitFindsNoChild(c) \/ Take(c) \/ Again(c)
      PROVE  IInv'
  BY <1>5, CollectKeeps, NoChildKeeps, TakeKeeps, AgainKeeps
<1>6. CASE Store
  BY <1>6, StoreKeeps
<1>7. CASE Wake \/ Sleep \/ UNCHANGED vars
  BY <1>7, RestKeeps
<1>. QED BY <1>1, <1>2, <1>3, <1>4, <1>5, <1>6, <1>7 DEF Next

(***************************************************************************)
(* The theorems.                                                           *)
(***************************************************************************)
\* With pids that are not given out again, a Wait that finds its child gone
\* finds its status too, unless it comes between the reaper's wait4 and its
\* lock (reap, take); whatever it returns is of its own child; and the stash
\* keeps nothing of an orphan once no spawn is in flight (sweep).
THEOREM StatusReachesItsWait ==
    ASSUME IsFiniteSet(Children), Reuse = FALSE
    PROVE  Spec => [](StatusIsKept /\ StatusIsOwn /\ StashIsForMains)
<1>1. IInv => StatusIsKept /\ StatusIsOwn /\ StashIsForMains
  BY DEF IInv, NotLostYet, Gone, HasStatus, StatusIsKept, At
<1>2. Init => IInv
  BY InitOK
<1>3. IInv /\ [Next]_vars => IInv'
  BY NextKeeps
<1>. QED BY <1>1, <1>2, <1>3, PTL DEF Spec

(***************************************************************************)
(* The start policy.  Its ladder has a rung where the reaper has a next    *)
(* process.                                                                *)
(***************************************************************************)
CONSTANT Policies
VARIABLES now, policy, starts, rung, term, admitted, waits

Policy == INSTANCE StartPolicy WITH next <- rung

LimiterTyped ==
    /\ now \in Nat /\ term \in Nat /\ policy \in Policies
    /\ IsFiniteSet(admitted) /\ starts \subseteq admitted
    /\ \A s \in admitted :
          /\ s.at \in 0 .. now
          /\ s.n \in 0 .. Cardinality(admitted) - 1
          /\ s.term \in 0 .. term
          /\ s.burst \in Nat /\ s.window \in Nat

\* What the limiter has forgotten in this term has left the window.
ForgottenIsOld ==
    \A s \in admitted \ starts : s.term = term => now - s.at >= policy.window

LimiterInv == LimiterTyped /\ ForgottenIsOld /\ Policy!NeverBeyondBurst

\* The ladder stays between the bounds and never falls behind the last wait.
LadderInv ==
    /\ policy \in Policies
    /\ rung \in policy.min .. policy.max
    /\ waits = <<waits[1], waits[2]>> /\ waits[1] \in Nat /\ waits[2] \in Nat
    /\ waits[2] <= rung
    /\ Policy!DelaysGrow

\* The instance counts as the finite sets of this module do.
LEMMA CountsAlike == \A S : Policy!Cardinality(S) = Cardinality(S)
  BY DEF Policy!Cardinality, Cardinality

\* What policyOf resolves.
LEMMA PolicyNumbers ==
    ASSUME Policy!PoliciesAreResolved, NEW p \in Policies
    PROVE  /\ p.burst \in Nat \ {0} /\ p.window \in Nat \ {0}
           /\ p.min \in Nat \ {0} /\ p.max \in Nat \ {0}
           /\ p.healthyAfter \in Nat \ {0} /\ p.min <= p.max
  BY DEF Policy!PoliciesAreResolved, Policy!PolicyShapes

(***************************************************************************)
(* The limiter.                                                            *)
(***************************************************************************)
LEMMA LimiterInit == ASSUME Policy!PoliciesAreResolved, Policy!Init PROVE LimiterInv
  BY FS_EmptySet
     DEF Policy!Init, LimiterInv, LimiterTyped, ForgottenIsOld,
         Policy!NeverBeyondBurst

\* What the limiter still remembers was admitted.
LEMMA RecentFinite ==
    ASSUME LimiterInv
    PROVE  /\ Policy!Recent \subseteq admitted
           /\ IsFiniteSet(Policy!Recent) /\ Cardinality(Policy!Recent) \in Nat
  BY FS_Subset, FS_CardinalityType DEF LimiterInv, LimiterTyped, Policy!Recent

\* A step that admits nothing and does not begin a term: the clock may go on,
\* and what is old may be forgotten.
LEMMA NothingAdmitted ==
    ASSUME Policy!PoliciesAreResolved, LimiterInv,
           UNCHANGED <<admitted, term, policy>>,
           now' \in Nat, now' >= now,
           starts' = starts \/ starts' = Policy!Recent
    PROVE  LimiterInv'
<1>. USE DEF LimiterInv
<1>1. policy.window \in Nat
  BY PolicyNumbers DEF LimiterTyped
<1>2. LimiterTyped'
  BY RecentFinite DEF LimiterTyped
<1>3. ForgottenIsOld'
  BY <1>1 DEF LimiterTyped, ForgottenIsOld, Policy!Recent
<1>4. Policy!NeverBeyondBurst'
  BY DEF Policy!NeverBeyondBurst, Policy!WindowOf
<1>. QED BY <1>2, <1>3, <1>4

\* A step that begins a term: nothing was admitted in it yet.
LEMMA TermBegins ==
    ASSUME Policy!PoliciesAreResolved, LimiterInv,
           term' = term + 1, policy' \in Policies,
           UNCHANGED <<admitted, now>>,
           starts' = starts \/ starts' = {}
    PROVE  LimiterInv'
<1>. USE DEF LimiterInv
<1>1. LimiterTyped'
  BY DEF LimiterTyped
<1>2. ForgottenIsOld'
  BY DEF LimiterTyped, ForgottenIsOld
<1>3. Policy!NeverBeyondBurst'
  BY DEF Policy!NeverBeyondBurst, Policy!WindowOf
<1>. QED BY <1>1, <1>2, <1>3

\* An admission: the window that ends with the new start holds it and what the
\* limiter still remembers, and no earlier window changes.
LEMMA AllowKeeps ==
    ASSUME Policy!PoliciesAreResolved, LimiterInv, Policy!Allow
    PROVE  LimiterInv'
<1>0. PICK e : e = Policy!Asked
  OBVIOUS
<1>1. /\ policy.burst \in Nat /\ policy.window \in Nat \ {0}
      /\ IsFiniteSet(admitted) /\ Cardinality(admitted) \in Nat
      /\ now \in Nat /\ term \in Nat
  BY PolicyNumbers, FS_CardinalityType DEF LimiterInv, LimiterTyped
<1>2. /\ e.n = Cardinality(admitted) /\ e.at = now /\ e.term = term
      /\ e.burst = policy.burst /\ e.window = policy.window
  BY <1>0, CountsAlike DEF Policy!Asked
<1>3. /\ Cardinality(Policy!Recent) < policy.burst
      /\ starts' = Policy!Recent \cup {e} /\ admitted' = admitted \cup {e}
      /\ UNCHANGED <<now, policy, term>>
  BY <1>0, CountsAlike DEF Policy!Allow
<1>4. e \notin admitted
  BY <1>1, <1>2 DEF LimiterInv, LimiterTyped
<1>5. IsFiniteSet(admitted') /\ Cardinality(admitted') = Cardinality(admitted) + 1
  BY <1>1, <1>3, <1>4, FS_AddElement
<1>6. LimiterTyped'
  <2>1. starts' \subseteq admitted'
    BY <1>3, RecentFinite
  <2>2. ASSUME NEW s \in admitted'
        PROVE  /\ s.at \in 0 .. now /\ s.n \in 0 .. Cardinality(admitted)
               /\ s.term \in 0 .. term /\ s.burst \in Nat /\ s.window \in Nat
    <3>1. CASE s \in admitted
      BY <1>1, <3>1 DEF LimiterInv, LimiterTyped
    <3>2. CASE s = e
      BY <1>1, <1>2, <3>2
    <3>. QED BY <1>3, <3>1, <3>2
  <2>3. now' \in Nat /\ term' \in Nat /\ policy' \in Policies
    BY <1>1, <1>3 DEF LimiterTyped, LimiterInv
  <2>4. Cardinality(admitted') - 1 = Cardinality(admitted)
    BY <1>1, <1>5
  <2>5. ASSUME NEW s \in admitted'
        PROVE  /\ s.at \in 0 .. now' /\ s.n \in 0 .. Cardinality(admitted') - 1
               /\ s.term \in 0 .. term' /\ s.burst \in Nat /\ s.window \in Nat
    BY <1>3, <2>2, <2>4
  <2>. QED BY <1>5, <2>1, <2>3, <2>5 DEF LimiterTyped
<1>7. ForgottenIsOld'
  BY <1>1, <1>3 DEF LimiterInv, LimiterTyped, ForgottenIsOld, Policy!Recent
<1>8. ASSUME NEW d \in admitted
      PROVE  Cardinality(Policy!WindowOf(d)') <= d.burst
  <2>1. d.n < e.n
    BY <1>1, <1>2 DEF LimiterInv, LimiterTyped
  <2>2. Policy!WindowOf(d)' = Policy!WindowOf(d)
    BY <1>1, <1>2, <1>3, <2>1 DEF Policy!WindowOf, LimiterInv, LimiterTyped
  <2>. QED BY <2>2, CountsAlike DEF LimiterInv, Policy!NeverBeyondBurst
<1>9. Cardinality(Policy!WindowOf(e)') <= e.burst
  <2>1. Policy!WindowOf(e)' \subseteq Policy!Recent \cup {e}
    <3>1. SUFFICES ASSUME NEW s \in admitted, s.term = term,
                          now - s.at < policy.window
                   PROVE  s \in Policy!Recent
      BY <1>1, <1>2, <1>3 DEF Policy!WindowOf
    <3>2. s \in starts
      BY <3>1, <1>1 DEF LimiterInv, LimiterTyped, ForgottenIsOld
    <3>. QED BY <3>1, <3>2 DEF Policy!Recent
  <2>2. e \notin Policy!Recent
    BY <1>4, RecentFinite
  <2>3. /\ IsFiniteSet(Policy!Recent \cup {e})
        /\ Cardinality(Policy!Recent \cup {e}) = Cardinality(Policy!Recent) + 1
    BY <2>2, RecentFinite, FS_AddElement
  <2>4. Cardinality(Policy!WindowOf(e)') <= Cardinality(Policy!Recent) + 1
    BY <2>1, <2>3, FS_Subset
  <2>5. Cardinality(Policy!WindowOf(e)') \in Nat
    BY <2>1, <2>3, FS_Subset, FS_CardinalityType
  <2>. QED BY <1>1, <1>2, <1>3, <2>4, <2>5, RecentFinite
<1>10. Policy!NeverBeyondBurst'
  <2>1. ASSUME NEW d \in admitted'
        PROVE  Cardinality(Policy!WindowOf(d)') <= d.burst
    BY <1>3, <1>8, <1>9
  <2>. QED BY <2>1, CountsAlike DEF Policy!NeverBeyondBurst, Policy!WindowOf
<1>. QED BY <1>6, <1>7, <1>10 DEF LimiterInv

\* Every step of the limiter, the ladder and the clock.
LEMMA LimiterNext ==
    ASSUME Policy!PoliciesAreResolved, LimiterInv, [Policy!Next]_(Policy!vars)
    PROVE  LimiterInv'
<1>. USE DEF Policy!limiter, Policy!ladder
<1>0. now \in Nat /\ policy \in Policies
  BY DEF LimiterInv, LimiterTyped
<1>1. CASE Policy!Allow
  BY <1>1, AllowKeeps
<1>2. CASE Policy!Refuse
  BY <1>0, <1>2, NothingAdmitted DEF Policy!Refuse
<1>3. CASE Policy!Reset
  BY <1>0, <1>3, TermBegins DEF Policy!Reset
<1>4. ASSUME NEW ran \in Nat, Policy!Restart(ran) PROVE LimiterInv'
  BY <1>0, <1>4, NothingAdmitted DEF Policy!Restart
<1>5. ASSUME NEW p \in Policies, NEW enables \in BOOLEAN, Policy!Reload(p, enables)
      PROVE  LimiterInv'
  BY <1>5, TermBegins DEF Policy!Reload
<1>6. ASSUME NEW passed \in Nat \ {0}, Policy!Tick(passed) PROVE LimiterInv'
  BY <1>0, <1>6, NothingAdmitted DEF Policy!Tick
<1>7. CASE UNCHANGED Policy!vars
  BY <1>0, <1>7, NothingAdmitted DEF Policy!vars
<1>. QED BY <1>1, <1>2, <1>3, <1>4, <1>5, <1>6, <1>7 DEF Policy!Next

\* However starts, refusals, resets and changes of the policy follow one
\* another, no window holds more admitted starts than its burst (allow).
THEOREM StartLimitHolds ==
    ASSUME Policy!PoliciesAreResolved
    PROVE  Policy!Spec => []Policy!NeverBeyondBurst
<1>1. LimiterInv => Policy!NeverBeyondBurst
  BY DEF LimiterInv
<1>2. Policy!Init => LimiterInv
  BY LimiterInit
<1>3. LimiterInv /\ [Policy!Next]_(Policy!vars) => LimiterInv'
  BY LimiterNext
<1>. QED BY <1>1, <1>2, <1>3, PTL DEF Policy!Spec

(***************************************************************************)
(* The ladder.                                                             *)
(***************************************************************************)
LEMMA LadderInit == ASSUME Policy!PoliciesAreResolved, Policy!Init PROVE LadderInv
  BY PolicyNumbers DEF Policy!Init, LadderInv, Policy!DelaysGrow, Policy!NoWaits

\* One delay: min after a healthy run, else the next rung.
LEMMA RestartKeeps ==
    ASSUME Policy!PoliciesAreResolved, LadderInv, NEW ran \in Nat, Policy!Restart(ran)
    PROVE  LadderInv'
<1>. DEFINE d == Policy!Delay(ran)
<1>1. /\ policy.min \in Nat \ {0} /\ policy.max \in Nat \ {0}
      /\ policy.min <= policy.max /\ policy.healthyAfter \in Nat
      /\ policy' = policy
  BY PolicyNumbers DEF LadderInv, Policy!Restart
<1>2. d \in policy.min .. policy.max
  BY <1>1 DEF LadderInv, Policy!Delay
<1>3. rung' = Policy!Smaller(2 * d, policy.max)
  BY DEF Policy!Restart
<1>4. rung' \in policy.min .. policy.max /\ d <= rung'
  BY <1>1, <1>2, <1>3 DEF Policy!Smaller
<1>5. CASE ran >= policy.healthyAfter
  <2>1. waits' = <<0, d>>
    BY <1>5 DEF Policy!Restart
  <2>. HIDE DEF d
  <2>. QED BY <1>1, <1>2, <1>4, <2>1 DEF LadderInv, Policy!DelaysGrow
<1>6. CASE ~(ran >= policy.healthyAfter)
  <2>1. waits' = <<waits[2], d>> /\ d = rung
    BY <1>6 DEF Policy!Restart, Policy!Delay
  <2>. HIDE DEF d
  <2>. QED BY <1>1, <1>2, <1>4, <2>1 DEF LadderInv, Policy!DelaysGrow
<1>. QED BY <1>5, <1>6

\* Only a restart and a reload move the ladder.
LEMMA LadderNext ==
    ASSUME Policy!PoliciesAreResolved, LadderInv, [Policy!Next]_(Policy!vars)
    PROVE  LadderInv'
<1>1. CASE UNCHANGED <<policy, Policy!ladder>>
  BY <1>1 DEF LadderInv, Policy!DelaysGrow, Policy!ladder
<1>2. ASSUME NEW ran \in Nat, Policy!Restart(ran) PROVE LadderInv'
  BY <1>2, RestartKeeps
<1>3. ASSUME NEW p \in Policies, NEW enables \in BOOLEAN, Policy!Reload(p, enables)
      PROVE  LadderInv'
  BY <1>3, PolicyNumbers DEF Policy!Reload, LadderInv, Policy!DelaysGrow, Policy!NoWaits
<1>4. CASE \/ Policy!Allow \/ Policy!Refuse \/ Policy!Reset
           \/ \E passed \in Nat \ {0} : Policy!Tick(passed)
  BY <1>1, <1>4 DEF Policy!Allow, Policy!Refuse, Policy!Reset, Policy!Tick
<1>5. CASE UNCHANGED Policy!vars
  BY <1>1, <1>5 DEF Policy!vars
<1>. QED BY <1>2, <1>3, <1>4, <1>5 DEF Policy!Next

\* A delay is never shorter than the one before it unless a run was healthy or
\* the policy changed, and lies between min and max (delay).
THEOREM BackoffIsBounded ==
    ASSUME Policy!PoliciesAreResolved
    PROVE  Policy!Spec => []Policy!DelaysGrow
<1>1. LadderInv => Policy!DelaysGrow
  BY DEF LadderInv
<1>2. Policy!Init => LadderInv
  BY LadderInit
<1>3. LadderInv /\ [Policy!Next]_(Policy!vars) => LadderInv'
  BY LadderNext
<1>. QED BY <1>1, <1>2, <1>3, PTL DEF Policy!Spec
=============================================================================
