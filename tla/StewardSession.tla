--------------------------- MODULE StewardSession ---------------------------
(***************************************************************************)
(* The background steward of a host: `bashy steward start` and `stop`, the *)
(* detached supervisor, and the files and the seat they share              *)
(* (internal/agentos/steward.go, steward_session.go, steward_supervise.go).*)
(*                                                                         *)
(* A start is named by the shell that runs it, and so is the supervisor it *)
(* spawns: its pid.  The seat, its epochs, the room and the handoff store  *)
(* (outside this repository) are modelled by what the calls here rely on:  *)
(* a heartbeat or a release is accepted for the epoch that is held, and    *)
(* for no other; and a release may fail, which leaves the seat held.       *)
(*                                                                         *)
(* Left out: the choice of the agent, the wording of briefs and notes, the *)
(* mediator, the bus sidecar, --no-seat, --keep-seat, --no-note, and a     *)
(* state directory that cannot be written.                                 *)
(***************************************************************************)
EXTENDS Integers, FiniteSets

CONSTANTS
    Shells,    \* where `steward start` is run, once in each
    Stoppers,  \* runs of `steward stop`
    AgentOf,   \* the agent a shell puts on the seat
    Messages   \* what arrives at the seat's inbox and the board

ASSUME StewardConstants == Shells \cap Stoppers = {}

VARIABLES
    session,   \* session.json
    outcome,   \* stop-outcome.json
    seat,      \* the journal's authority
    exported,  \* the epoch in the environment of a shell
    room,      \* the agent the seat's room is bound to
    notes,     \* how many handoff notes of a steward were written
    saves,     \* history: how many outcomes were saved
    start,     \* the runs of start
    sup,       \* the supervisors
    stop,      \* the runs of stop, and of the stop of a start --force
    inbox,     \* the messages at the seat and on the board
    told       \* history: the messages a delivered notice pointed at

files == <<session, outcome, saves>>
authority == <<seat, exported>>
mail == <<inbox, told>>
vars == <<files, authority, room, notes, start, sup, stop, mail>>

None == [is |-> "none"]
NoPid == "0"
NoRoom == "none"
Callers == Shells \cup Stoppers

Holds(epoch) == seat.held /\ seat.epoch = epoch

Alive(pid) == pid \in Shells /\ sup[pid].pc \notin {"none", "gone"}
Gone == [pc |-> "gone"]

\* liveStewardSession
Stale == session # None /\ ~Alive(session.pid)
Live == session # None /\ Alive(session.pid)

\* ReleaseRoom knows the agent, and stewardRelease the epoch: it releases the
\* seat, or is refused or fails.
CloseRoom(agent) == room' = IF room = agent THEN NoRoom ELSE room

Release(epoch, released) ==
    IF released THEN Holds(epoch) /\ seat' = [seat EXCEPT !.held = FALSE]
                ELSE seat' = seat

(***************************************************************************)
(* The operator.  A claim or a takeover begins a new epoch; a tenure can   *)
(* be exported into another shell.                                         *)
(***************************************************************************)
Claim(s) ==
    /\ seat' = [epoch |-> seat.epoch + 1, held |-> TRUE]
    /\ exported' = [exported EXCEPT ![s] = seat.epoch + 1]
    /\ UNCHANGED <<files, room, notes, start, sup, stop, mail>>

Export(s) ==
    /\ seat.held /\ exported[s] # seat.epoch
    /\ exported' = [exported EXCEPT ![s] = seat.epoch]
    /\ UNCHANGED <<files, seat, room, notes, start, sup, stop, mail>>

(***************************************************************************)
(* startStewardSession.                                                    *)
(***************************************************************************)
StartAt(s, pc) == start' = [start EXCEPT ![s].pc = pc]
StartDone(s) == start' = [start EXCEPT ![s] = [pc |-> "done"]]

StartLook(s) ==
    /\ start[s].pc = "look"
    /\ \/ session = None /\ StartAt(s, "seat") /\ UNCHANGED stop
       \/ Stale /\ StartAt(s, "clear") /\ UNCHANGED stop
       \* No agent was asked for, or this one.
       \/ /\ Live
          /\ start' = [start EXCEPT ![s] = [pc |-> "rebind", agent |-> session.agent]]
          /\ UNCHANGED stop
       \/ /\ Live /\ session.agent # AgentOf[s]
          /\ \/ StartDone(s) /\ UNCHANGED stop
             \/ /\ StartAt(s, "force")
                /\ stop' = [stop EXCEPT ![s] = [pc |-> "reset", rec |-> session,
                                                since |-> saves]]
    /\ UNCHANGED <<files, authority, room, notes, sup, mail>>

StartClear(s) ==
    /\ start[s].pc = "clear"
    /\ session' = None /\ StartAt(s, "seat")
    /\ UNCHANGED <<outcome, saves, authority, room, notes, sup, stop, mail>>

\* "already running": the room is bound again to the agent that was seen.
StartRebind(s) ==
    /\ start[s].pc = "rebind"
    /\ room' = start[s].agent /\ StartDone(s)
    /\ UNCHANGED <<files, authority, notes, sup, stop, mail>>

StartForced(s) ==
    /\ start[s].pc = "force" /\ stop[s].pc \in {"returned", "failed"}
    /\ IF stop[s].pc = "returned" THEN StartAt(s, "seat") ELSE StartDone(s)
    /\ UNCHANGED <<files, authority, room, notes, sup, stop, mail>>

\* Mutant: the environment is believed.
AcquiredOnTrust(s) == exported[s] <= seat.epoch

\* acquireStewardSeat: a tenure this shell has, checked against the journal.
Acquired(s) == Holds(exported[s])

StartSeat(s) ==
    /\ start[s].pc = "seat"
    /\ start' = [start EXCEPT ![s] =
                    IF Acquired(s) THEN [pc |-> "room", epoch |-> exported[s]]
                                   ELSE [pc |-> "done"]]
    /\ UNCHANGED <<files, authority, room, notes, sup, stop, mail>>

StartRoom(s) ==
    /\ start[s].pc = "room"
    /\ room' = AgentOf[s] /\ StartAt(s, "save")
    /\ UNCHANGED <<files, authority, notes, sup, stop, mail>>

RecordOf(s, pid) == [agent |-> AgentOf[s], pid |-> pid, epoch |-> start[s].epoch]

StartSave(s) ==
    /\ start[s].pc = "save"
    /\ session' = RecordOf(s, NoPid) /\ StartAt(s, "spawn")
    /\ UNCHANGED <<outcome, saves, authority, room, notes, sup, stop, mail>>

StartSpawn(s) ==
    /\ start[s].pc = "spawn"
    /\ \/ /\ sup' = [sup EXCEPT ![s] = [pc |-> "load"]]
          /\ StartAt(s, "record") /\ UNCHANGED <<session, room>>
       \/ /\ session' = None /\ CloseRoom(AgentOf[s])
          /\ StartDone(s) /\ UNCHANGED sup
    /\ UNCHANGED <<outcome, saves, authority, notes, stop, mail>>

StartRecord(s) ==
    /\ start[s].pc = "record"
    /\ session' = RecordOf(s, s)
    /\ StartDone(s)
    /\ UNCHANGED <<outcome, saves, authority, room, notes, sup, stop, mail>>

\* The command is interrupted.
StartDies(s) ==
    /\ start[s].pc # "done"
    /\ StartDone(s)
    /\ stop' = [stop EXCEPT ![s] = [pc |-> "failed"]]
    /\ UNCHANGED <<files, authority, room, notes, sup, mail>>

(***************************************************************************)
(* runStewardSupervisor: the launch and the watch.                         *)
(***************************************************************************)
SupAt(s, pc) == sup' = [sup EXCEPT ![s].pc = pc]
SupGone(s) == sup' = [sup EXCEPT ![s] = Gone]

SupLoad(s) ==
    /\ sup[s].pc = "load"
    /\ sup' = [sup EXCEPT ![s] = IF session = None THEN Gone
                                 ELSE [pc |-> "brief", rec |-> session,
                                       term |-> FALSE]]
    /\ UNCHANGED <<files, authority, room, notes, start, stop, mail>>

\* The record is saved as it was loaded.
SupBrief(s) ==
    /\ sup[s].pc = "brief"
    /\ session' = sup[s].rec /\ SupAt(s, "launch")
    /\ UNCHANGED <<outcome, saves, authority, room, notes, start, stop, mail>>

SupLaunch(s) ==
    /\ sup[s].pc = "launch"
    /\ \/ /\ sup' = [sup EXCEPT ![s] =
                         [pc |-> "watch", rec |-> sup[s].rec, agent |-> TRUE,
                          term |-> sup[s].term, mail |-> "prime", primed |-> {},
                          seen |-> {}, batch |-> {}]]
          /\ UNCHANGED session
       \/ session' = None /\ SupGone(s)
    /\ UNCHANGED <<outcome, saves, authority, room, notes, start, stop, mail>>

Launched(s) == sup[s].pc \in {"watch", "ask", "room", "release", "save", "clear"}

AgentEnds(s) ==
    /\ Launched(s) /\ sup[s].agent
    /\ sup' = [sup EXCEPT ![s].agent = FALSE]
    /\ UNCHANGED <<files, authority, room, notes, start, stop, mail>>

\* Mutant: a rejected heartbeat is taken for a transient error.
WatchEndsUnfenced(s) == sup[s].term \/ ~sup[s].agent

\* What ends the watch: the signal, the agent's end, a rejected heartbeat.
WatchEnds(s) == sup[s].term \/ ~sup[s].agent \/ ~Holds(sup[s].rec.epoch)

SupWrapsUp(s) ==
    /\ sup[s].pc = "watch" /\ WatchEnds(s)
    /\ sup' = [sup EXCEPT ![s] =
                  [pc |-> "ask", rec |-> @.rec, agent |-> @.agent, term |-> @.term,
                   mail |-> @.mail, primed |-> @.primed, seen |-> @.seen,
                   batch |-> @.batch, since |-> notes]]
    /\ UNCHANGED <<files, authority, room, notes, start, stop, mail>>

(***************************************************************************)
(* stewardWatchMessages: it tells the agent, at a turn boundary, how many  *)
(* messages have come that it was not told of.                             *)
(***************************************************************************)
Watching(s, at) ==
    /\ Launched(s) /\ sup[s].agent /\ ~sup[s].term
    /\ sup[s].mail = at

MailUnchanged == UNCHANGED <<files, authority, room, notes, start, stop, inbox>>

MailPrime(s) ==
    /\ Watching(s, "prime")
    /\ sup' = [sup EXCEPT ![s].mail = "tick", ![s].seen = inbox,
                          ![s].primed = inbox]
    /\ UNCHANGED told /\ MailUnchanged

MailPoll(s) ==
    /\ Watching(s, "tick") /\ inbox \ sup[s].seen # {}
    /\ sup' = [sup EXCEPT ![s].mail = "idle", ![s].batch = inbox \ sup[s].seen]
    /\ UNCHANGED told /\ MailUnchanged

\* WaitIdle found a turn boundary, or the next tick tries again.
MailCommit(s) ==
    /\ Watching(s, "idle")
    /\ \/ sup' = [sup EXCEPT ![s].mail = "say", ![s].seen = @ \cup sup[s].batch]
       \/ sup' = [sup EXCEPT ![s].mail = "tick", ![s].batch = {}]
    /\ UNCHANGED told /\ MailUnchanged

MailSay(s) ==
    /\ Watching(s, "say")
    /\ sup' = [sup EXCEPT ![s].mail = "tick", ![s].batch = {}]
    /\ told' \in {told, told \cup sup[s].batch}
    /\ MailUnchanged

Arrive(m) ==
    /\ m \notin inbox /\ inbox' = inbox \cup {m}
    /\ UNCHANGED <<files, authority, room, notes, start, sup, stop, told>>

(***************************************************************************)
(* stewardWrapUp.                                                          *)
(***************************************************************************)
\* A handoff note of a steward: by the agent that was asked, or by any other.
NoteWritten ==
    /\ notes' = notes + 1
    /\ UNCHANGED <<files, authority, room, start, sup, stop, mail>>

\* The note that landed since, or the fallback, which may fail; then Quit.
WrapNote(s) ==
    /\ sup[s].pc = "ask"
    /\ \E written \in BOOLEAN :
          /\ notes > sup[s].since => ~written
          /\ notes' = notes + IF written THEN 1 ELSE 0
          /\ sup' = [sup EXCEPT ![s] =
                        [pc |-> "room", rec |-> @.rec, agent |-> FALSE,
                         note |-> written \/ notes > @.since, released |-> FALSE]]
    /\ UNCHANGED <<files, authority, room, start, stop, mail>>

WrapRoom(s) ==
    /\ sup[s].pc = "room"
    /\ CloseRoom(sup[s].rec.agent) /\ SupAt(s, "release")
    /\ UNCHANGED <<files, authority, notes, start, stop, mail>>

\* That the seat could not be released is reported, and it goes on.
WrapRelease(s) ==
    /\ sup[s].pc = "release"
    /\ \E released \in BOOLEAN :
          /\ Release(sup[s].rec.epoch, released)
          /\ sup' = [sup EXCEPT ![s].pc = "save", ![s].released = released]
    /\ UNCHANGED <<files, exported, room, notes, start, stop, mail>>

SaveOutcome(rec, note, released) ==
    /\ outcome' = [epoch |-> rec.epoch, agent |-> rec.agent, note |-> note,
                   released |-> released, n |-> saves + 1]
    /\ saves' = saves + 1

WrapSave(s) ==
    /\ sup[s].pc = "save"
    /\ SaveOutcome(sup[s].rec, sup[s].note, sup[s].released)
    /\ SupAt(s, "clear")
    /\ UNCHANGED <<session, authority, room, notes, start, stop, mail>>

WrapClear(s) ==
    /\ sup[s].pc = "clear"
    /\ session' = None /\ SupGone(s)
    /\ UNCHANGED <<outcome, saves, authority, room, notes, start, stop, mail>>

SupCrashes(s) ==
    /\ Alive(s) /\ SupGone(s)
    /\ UNCHANGED <<files, authority, room, notes, start, stop, mail>>

(***************************************************************************)
(* `steward stop`, and stopStewardSession, which start --force calls too.  *)
(***************************************************************************)
StopAt(x, pc) == stop' = [stop EXCEPT ![x].pc = pc]
StopUnchanged == UNCHANGED <<start, exported, mail>>

StopLook(x) ==
    /\ stop[x].pc = "look"
    /\ \/ session = None /\ StopAt(x, "failed")
       \/ Stale /\ StopAt(x, "stale")
       \/ Live /\ stop' = [stop EXCEPT ![x] = [pc |-> "reset", rec |-> session,
                                              since |-> saves]]
    /\ UNCHANGED <<files, seat, room, notes, sup>> /\ StopUnchanged

StopStale(x) ==
    /\ stop[x].pc = "stale"
    /\ session' = None /\ StopAt(x, "failed")
    /\ UNCHANGED <<outcome, saves, seat, room, notes, sup>> /\ StopUnchanged

\* Mutant: an outcome that is there already is left.
ResetNothing == outcome

Reset == None

StopReset(x) ==
    /\ stop[x].pc = "reset"
    /\ outcome' = Reset /\ StopAt(x, "signal")
    /\ UNCHANGED <<session, saves, seat, room, notes, sup>> /\ StopUnchanged

\* The signal: it is handled once the record is loaded, it cancels the watch,
\* and it goes to the group, in which the agent may be.
Signalled(r) ==
    CASE r.pc = "load" -> {Gone}
      [] r.pc \in {"brief", "launch"} -> {[r EXCEPT !.term = TRUE]}
      [] r.pc \in {"watch", "ask"} ->
            {[r EXCEPT !.term = TRUE, !.agent = a] : a \in {FALSE, r.agent}}
      [] OTHER -> {r}

StopSignal(x) ==
    /\ stop[x].pc = "signal"
    /\ LET pid == stop[x].rec.pid IN
       IF Alive(pid)
       THEN /\ \E r \in Signalled(sup[pid]) : sup' = [sup EXCEPT ![pid] = r]
            /\ StopAt(x, "wait")
       ELSE StopAt(x, "failed") /\ UNCHANGED sup
    /\ UNCHANGED <<files, seat, room, notes>> /\ StopUnchanged

\* --force; a supervisor that is gone already is no error.
StopKill(x) ==
    /\ stop[x].pc = "signal" /\ StopAt(x, "wait")
    /\ sup' = [sup EXCEPT ![stop[x].rec.pid] = Gone]
    /\ UNCHANGED <<files, seat, room, notes>> /\ StopUnchanged

\* Mutant: a supervisor that does not finish in time is left alone.
TimedOutAlone(pid) == sup

TimedOut(pid) == [sup EXCEPT ![pid] = Gone]

StopWait(x) ==
    /\ stop[x].pc = "wait" /\ StopAt(x, "read")
    /\ sup' = IF Alive(stop[x].rec.pid) THEN TimedOut(stop[x].rec.pid) ELSE sup
    /\ UNCHANGED <<files, seat, room, notes>> /\ StopUnchanged

\* The outcome, or what the supervisor did not do is done from here.
StopRead(x) ==
    /\ stop[x].pc = "read"
    /\ stop' = [stop EXCEPT ![x] =
                   IF outcome # None THEN [pc |-> "returned", rec |-> @.rec,
                                           since |-> @.since, got |-> outcome]
                                     ELSE [@ EXCEPT !.pc = "room"]]
    /\ UNCHANGED <<files, seat, room, notes, sup>> /\ StopUnchanged

StopRoom(x) ==
    /\ stop[x].pc = "room"
    /\ CloseRoom(stop[x].rec.agent)
    /\ \E written \in BOOLEAN :
          /\ notes' = notes + IF written THEN 1 ELSE 0
          /\ stop' = [stop EXCEPT ![x] = [pc |-> "release", rec |-> @.rec,
                                          since |-> @.since, note |-> written,
                                          released |-> FALSE]]
    /\ UNCHANGED <<files, seat, sup>> /\ StopUnchanged

StopRelease(x) ==
    /\ stop[x].pc = "release"
    /\ \E released \in BOOLEAN :
          /\ Release(stop[x].rec.epoch, released)
          /\ stop' = [stop EXCEPT ![x].pc = "save", ![x].released = released]
    /\ UNCHANGED <<files, room, notes, sup>> /\ StopUnchanged

StopSave(x) ==
    /\ stop[x].pc = "save"
    /\ SaveOutcome(stop[x].rec, stop[x].note, stop[x].released)
    /\ stop' = [stop EXCEPT ![x] = [pc |-> "clear", rec |-> @.rec, since |-> @.since,
                                    got |-> outcome']]
    /\ UNCHANGED <<session, seat, room, notes, sup>> /\ StopUnchanged

StopClear(x) ==
    /\ stop[x].pc = "clear"
    /\ session' = None /\ StopAt(x, "returned")
    /\ UNCHANGED <<outcome, saves, seat, room, notes, sup>> /\ StopUnchanged

(***************************************************************************)
(* The specification.                                                      *)
(***************************************************************************)
Init ==
    /\ session = None /\ outcome = None /\ saves = 0
    /\ seat = [epoch |-> 0, held |-> FALSE]
    /\ exported = [s \in Shells |-> 0]
    /\ room = NoRoom /\ notes = 0
    /\ start = [s \in Shells |-> [pc |-> "look"]]
    /\ sup = [s \in Shells |-> [pc |-> "none"]]
    /\ stop = [x \in Callers |-> IF x \in Stoppers THEN [pc |-> "look"]
                                                   ELSE [pc |-> "none"]]
    /\ inbox = {} /\ told = {}

Start(s) == \/ StartLook(s) \/ StartClear(s) \/ StartRebind(s) \/ StartForced(s)
            \/ StartSeat(s) \/ StartRoom(s) \/ StartSave(s) \/ StartSpawn(s)
            \/ StartRecord(s)

Sup(s) == \/ SupLoad(s) \/ SupBrief(s) \/ SupLaunch(s) \/ SupWrapsUp(s)
          \/ WrapNote(s) \/ WrapRoom(s) \/ WrapRelease(s) \/ WrapSave(s)
          \/ WrapClear(s)

Mail(s) == MailPrime(s) \/ MailPoll(s) \/ MailCommit(s) \/ MailSay(s)

Stop(x) == \/ StopLook(x) \/ StopStale(x) \/ StopReset(x) \/ StopSignal(x)
           \/ StopKill(x) \/ StopWait(x) \/ StopRead(x) \/ StopRoom(x)
           \/ StopRelease(x) \/ StopSave(x) \/ StopClear(x)

Next ==
    \/ \E s \in Shells : \/ Start(s) \/ Sup(s) \/ Mail(s)
                         \/ Claim(s) \/ Export(s)
                         \/ StartDies(s) \/ AgentEnds(s) \/ SupCrashes(s)
    \/ \E x \in Callers : Stop(x)
    \/ \E m \in Messages : Arrive(m)
    \/ NoteWritten

Spec == Init /\ [][Next]_vars

\* The timers of a supervisor fire as long as its process runs.
Fairness == \A s \in Shells : WF_vars(Sup(s))

(***************************************************************************)
(* Correctness.                                                            *)
(***************************************************************************)
\* The shape of the state: a record names a shell's agent, a supervisor is
\* where its code is, and an outcome was saved.
TypeOK ==
    /\ session = None \/ (/\ session.agent \in {AgentOf[s] : s \in Shells}
                         /\ session.pid \in Shells \cup {NoPid}
                         /\ session.epoch \in 1 .. seat.epoch)
    /\ outcome = None \/ (/\ outcome.n \in 1 .. saves
                          /\ outcome.epoch \in 1 .. seat.epoch)
    /\ {notes, saves, seat.epoch} \subseteq Nat /\ seat.held \in BOOLEAN
    /\ \A s \in Shells :
          /\ exported[s] \in 0 .. seat.epoch
          /\ start[s].pc \in {"look", "clear", "rebind", "force", "seat", "room",
                              "save", "spawn", "record", "done"}
          /\ sup[s].pc \in {"none", "load", "brief", "launch", "watch", "ask", "room",
                            "release", "save", "clear", "gone"}
          /\ sup[s].pc # "none" => start[s].pc \in {"record", "done"}
    /\ \A x \in Callers :
          stop[x].pc \in {"none", "look", "stale", "reset", "signal", "wait", "read",
                         "room", "release", "save", "clear", "returned", "failed"}
    /\ room \in {NoRoom} \cup {AgentOf[s] : s \in Shells}
    /\ inbox \subseteq Messages /\ told \subseteq inbox

Returned(x) == stop[x].pc = "returned"

\* The outcome a stop reports was recorded after that stop looked: never the
\* result of an earlier one.
ReportIsFresh == \A x \in Callers : Returned(x) => stop[x].got.n > stop[x].since

\* When a stop has returned, the supervisor it addressed is gone, and if its
\* report says that the seat was released, the tenure it is about is over: nobody
\* holds the seat under it.
StoppedIsOver ==
    \A x \in Callers :
        Returned(x) => /\ ~Alive(stop[x].rec.pid)
                       /\ stop[x].got.released => ~Holds(stop[x].got.epoch)

\* A supervisor whose epoch has passed stands down: it leaves its watch and
\* wraps up, whatever the agent does.
FencedStandsDown ==
    \A s \in Shells :
        (sup[s].pc = "watch" /\ sup[s].rec.epoch < seat.epoch) ~> ~Alive(s)

(***************************************************************************)
(* What a comment says and the code does not do.                           *)
(***************************************************************************)
\* "commit marks the last poll's items announced.  Called ONLY after the
\* notice was delivered": what a watch holds for announced was there when it
\* began, or a notice of it was delivered.
AnnouncedWasDelivered ==
    \A s \in Shells :
        Watching(s, "tick") => sup[s].seen \ sup[s].primed \subseteq told
=============================================================================
