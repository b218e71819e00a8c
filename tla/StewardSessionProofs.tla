------------------------ MODULE StewardSessionProofs ------------------------
(***************************************************************************)
(* Proofs about StewardSession, for any number of shells, stops, agents    *)
(* and messages, and any deaths and takeovers: the types, that the outcome *)
(* a stop reports was saved after it looked, and that the supervisor and   *)
(* the tenure it reports on are over.                                      *)
(***************************************************************************)
EXTENDS StewardSession, TLAPS

(***************************************************************************)
(* The invariant.  It says of every call at its place in the code what it  *)
(* knows: which tenures are over, which supervisors are gone, and which    *)
(* outcomes were saved after it looked.                                    *)
(***************************************************************************)
Agents == {AgentOf[s] : s \in Shells}
Epochs == Nat \ {0}

Tenures == [agent : Agents, pid : Shells \cup {NoPid}, epoch : Epochs]
Spawned == [agent : Agents, pid : Shells, epoch : Epochs]
Outcomes == [epoch : Epochs, agent : Agents, note : BOOLEAN,
             released : BOOLEAN, n : Nat \ {0}]

\* The fields that a call has at each place.
StartRec ==
    [pc : {"look", "clear", "force", "seat", "done"}]
    \cup [pc : {"rebind"}, agent : Agents]
    \cup [pc : {"room", "save", "spawn", "record"}, epoch : Epochs]

SupRec ==
    [pc : {"none", "load", "gone"}]
    \cup [pc : {"brief", "launch"}, rec : Tenures, term : BOOLEAN]
    \cup [pc : {"watch"}, rec : Tenures, agent : BOOLEAN, term : BOOLEAN,
          mail : {"prime", "tick", "idle", "say"}, primed : SUBSET Messages,
          seen : SUBSET Messages, batch : SUBSET Messages]
    \cup [pc : {"ask"}, rec : Tenures, agent : BOOLEAN, term : BOOLEAN,
          mail : {"prime", "tick", "idle", "say"}, primed : SUBSET Messages,
          seen : SUBSET Messages, batch : SUBSET Messages, since : Nat]
    \cup [pc : {"room", "release", "save", "clear"}, rec : Tenures,
          agent : {FALSE}, note : BOOLEAN, released : BOOLEAN]

StopRec ==
    [pc : {"none", "look", "stale", "failed"}]
    \cup [pc : {"reset", "signal", "wait", "read", "room", "failed"},
          rec : Spawned, since : Nat]
    \cup [pc : {"release", "save"}, rec : Spawned, since : Nat, note : BOOLEAN,
          released : BOOLEAN]
    \cup [pc : {"clear", "returned"}, rec : Spawned, since : Nat, got : Outcomes]

\* A tenure that is over stays over: epochs do not come back.
Begun(epoch) == epoch <= seat.epoch
Over(epoch) == Begun(epoch) /\ ~Holds(epoch)

\* The places of a start at which it has a tenure, and after its spawn.
Tenured == {"room", "save", "spawn", "record"}
Launcher == {"record", "done"}

StartOK(s) ==
    /\ start[s] \in StartRec
    /\ start[s].pc \in Tenured => Begun(start[s].epoch)

\* A supervisor has a tenure from the load of its record on; when it saves its
\* outcome it has given the seat up, if it says so.
SupOK(s) ==
    /\ sup[s] \in SupRec
    /\ sup[s].pc # "none" => start[s].pc \in Launcher
    /\ sup[s].pc \notin {"none", "load", "gone"} => Begun(sup[s].rec.epoch)
    /\ sup[s].pc \in {"save", "clear"} /\ sup[s].released => Over(sup[s].rec.epoch)
    /\ sup[s].pc \in {"watch", "ask"} => sup[s].batch \subseteq inbox

\* The places of a stop: it addresses a supervisor that was there, it waits
\* for it to be gone, and it reports.
Addressing == {"reset", "signal", "wait", "read", "room", "release", "save",
               "clear", "returned"}
Waited == {"read", "room", "release", "save", "clear", "returned"}
AfterReset == {"signal", "wait", "read", "room", "release", "save"}
Reporting == {"clear", "returned"}

StopOK(x) ==
    /\ stop[x] \in StopRec
    /\ stop[x].pc \in Addressing =>
          /\ Begun(stop[x].rec.epoch) /\ stop[x].since <= saves
          /\ sup[stop[x].rec.pid].pc # "none"
    /\ stop[x].pc \in Waited => sup[stop[x].rec.pid].pc = "gone"
    /\ stop[x].pc \in AfterReset /\ outcome # None => outcome.n > stop[x].since
    /\ stop[x].pc = "save" /\ stop[x].released => Over(stop[x].rec.epoch)
    /\ stop[x].pc \in Reporting =>
          /\ stop[x].got.released => Over(stop[x].got.epoch)
          /\ stop[x].got.n > stop[x].since

SessionOK == session \in {None} \cup Tenures
             /\ (session # None => Begun(session.epoch))

\* An outcome that says the seat was released is saved after it was.
OutcomeOK ==
    /\ saves \in Nat
    /\ outcome \in {None} \cup Outcomes
    /\ outcome # None => /\ outcome.n <= saves /\ Begun(outcome.epoch)
                         /\ outcome.released => Over(outcome.epoch)

AuthorityOK ==
    /\ seat \in [epoch : Nat, held : BOOLEAN]
    /\ seat.held => seat.epoch > 0
    /\ DOMAIN exported = Shells
    /\ \A s \in Shells : exported[s] \in 0 .. seat.epoch

RestOK == /\ room \in {NoRoom} \cup Agents /\ notes \in Nat
          /\ inbox \subseteq Messages /\ told \subseteq inbox

IInv ==
    /\ SessionOK /\ OutcomeOK /\ AuthorityOK /\ RestOK
    /\ DOMAIN start = Shells /\ DOMAIN sup = Shells /\ DOMAIN stop = Callers
    /\ \A s \in Shells : StartOK(s) /\ SupOK(s)
    /\ \A x \in Callers : StopOK(x)

(***************************************************************************)
(* What every step does to the tenures, the outcomes and the supervisors.  *)
(***************************************************************************)
Onward ==
    /\ \A epoch \in Epochs : Begun(epoch) => Begun(epoch)'
    /\ \A epoch \in Epochs : Over(epoch) => Over(epoch)'
    /\ saves' \in Nat /\ saves <= saves'
    /\ outcome' \in {outcome, None} \/ outcome'.n = saves + 1
    /\ \A s \in Shells : /\ sup[s].pc # "none" => sup'[s].pc # "none"
                         /\ sup[s].pc = "gone" => sup'[s].pc = "gone"
                         /\ start[s].pc \in Launcher => start'[s].pc \in Launcher
    /\ inbox \subseteq inbox'

\* A seat that is claimed anew begins another epoch, and one that is given up
\* none.
LEMMA SeatGoesOn ==
    ASSUME AuthorityOK,
           \/ seat' = seat
           \/ seat' = [seat EXCEPT !.held = FALSE]
           \/ seat' = [epoch |-> seat.epoch + 1, held |-> TRUE]
    PROVE  /\ seat' \in [epoch : Nat, held : BOOLEAN]
           /\ seat'.held => seat'.epoch > 0
           /\ seat.epoch <= seat'.epoch
           /\ \A epoch \in Epochs : Begun(epoch) => Begun(epoch)'
           /\ \A epoch \in Epochs : Over(epoch) => Over(epoch)'
  <1>1. seat \in [epoch : Nat, held : BOOLEAN] /\ (seat.held => seat.epoch > 0)
    BY DEF AuthorityOK
  <1>2. CASE seat' = seat
    BY <1>1, <1>2 DEF Begun, Over, Holds
  <1>3. CASE seat' = [seat EXCEPT !.held = FALSE]
    <2>1. seat'.epoch = seat.epoch /\ seat'.held = FALSE
      BY <1>1, <1>3
    <2>2. seat' \in [epoch : Nat, held : BOOLEAN]
      BY <1>1, <1>3
    <2> QED
      BY <1>1, <2>1, <2>2 DEF Begun, Over, Holds
  <1>4. CASE seat' = [epoch |-> seat.epoch + 1, held |-> TRUE]
    <2>1. seat'.epoch = seat.epoch + 1 /\ seat'.held = TRUE
      BY <1>4
    <2>2. seat' \in [epoch : Nat, held : BOOLEAN]
      BY <1>1, <1>4
    <2> QED
      BY <1>1, <2>1, <2>2 DEF Begun, Over, Holds, Epochs
  <1> QED
    BY <1>2, <1>3, <1>4

\* After a release that is reported the epoch is not held.
LEMMA ReleasedIsOver ==
    ASSUME AuthorityOK, NEW epoch \in Epochs, Begun(epoch), NEW released \in BOOLEAN,
           Release(epoch, released)
    PROVE  (released => Over(epoch)') /\ (seat' = seat \/ seat' = [seat EXCEPT !.held = FALSE])
  <1>1. seat \in [epoch : Nat, held : BOOLEAN]
    BY DEF AuthorityOK
  <1>2. CASE Holds(epoch)
    BY <1>1, <1>2 DEF Release, Over, Begun, Holds
  <1>3. CASE ~Holds(epoch)
    BY <1>3 DEF Release, Over, Begun, Holds
  <1> QED
    BY <1>2, <1>3

\* What a start knows stays true while it rests, whatever the others do.
LEMMA StartRests ==
    ASSUME NEW s \in Shells, StartOK(s), Onward, start'[s] = start[s]
    PROVE  StartOK(s)'
  <1>1. start[s].pc \in Tenured => start[s].epoch \in Epochs
    BY DEF StartOK, StartRec, Tenured
  <1> QED
    BY <1>1 DEF StartOK, Onward

\* So does what a supervisor knows: of its tenure, and of its messages.
LEMMA SupRests ==
    ASSUME NEW s \in Shells, SupOK(s), Onward, sup'[s] = sup[s]
    PROVE  SupOK(s)'
  <1>1. sup[s].pc \notin {"none", "load", "gone"} => sup[s].rec.epoch \in Epochs
    BY DEF SupOK, SupRec, Tenures
  <1>2. /\ sup'[s] \in SupRec
        /\ sup'[s].pc # "none" => start'[s].pc \in Launcher
        /\ sup'[s].pc \in {"watch", "ask"} => sup'[s].batch \subseteq inbox'
    BY DEF SupOK, Onward
  <1>3. (sup[s].pc \notin {"none", "load", "gone"} => Begun(sup[s].rec.epoch))'
    BY <1>1 DEF SupOK, Onward
  <1>4. (sup[s].pc \in {"save", "clear"} /\ sup[s].released =>
            Over(sup[s].rec.epoch))'
    BY <1>1 DEF SupOK, Onward
  <1> QED
    BY <1>2, <1>3, <1>4 DEF SupOK

\* So does what a stop knows: of the supervisor it addressed, of the tenure, and
\* of the outcome it found or has to find.
LEMMA StopRests ==
    ASSUME NEW x \in Callers, StopOK(x), OutcomeOK, Onward, stop'[x] = stop[x]
    PROVE  StopOK(x)'
  <1>1. stop[x].pc \in Addressing => /\ stop[x].rec.epoch \in Epochs
                                     /\ stop[x].rec.pid \in Shells
                                     /\ stop[x].since \in Nat
    BY DEF StopOK, StopRec, Addressing, Spawned
  <1>2. stop[x].pc \in Reporting => stop[x].got.epoch \in Epochs
    BY DEF StopOK, StopRec, Reporting, Outcomes
  <1>3. /\ Waited \subseteq Addressing /\ AfterReset \subseteq Addressing
        /\ Reporting \subseteq Addressing /\ "save" \in Addressing
    BY DEF Waited, AfterReset, Reporting, Addressing
  <1>4. saves \in Nat /\ saves' \in Nat /\ saves <= saves'
    BY DEF OutcomeOK, Onward
  <1>5. (stop[x].pc \in Addressing =>
            /\ Begun(stop[x].rec.epoch) /\ stop[x].since <= saves
            /\ sup[stop[x].rec.pid].pc # "none")'
    BY <1>1, <1>4 DEF StopOK, Onward
  <1>6. (stop[x].pc \in Waited => sup[stop[x].rec.pid].pc = "gone")'
    BY <1>1, <1>3 DEF StopOK, Onward
  <1>7. (stop[x].pc \in AfterReset /\ outcome # None => outcome.n > stop[x].since)'
    BY <1>1, <1>3, <1>4 DEF StopOK, Onward
  <1>8. (stop[x].pc = "save" /\ stop[x].released => Over(stop[x].rec.epoch))'
    BY <1>1, <1>3 DEF StopOK, Onward
  <1>9. (stop[x].pc \in Reporting =>
            /\ stop[x].got.released => Over(stop[x].got.epoch)
            /\ stop[x].got.n > stop[x].since)'
    BY <1>2 DEF StopOK, Onward
  <1> QED
    BY <1>5, <1>6, <1>7, <1>8, <1>9 DEF StopOK

\* The invariant, part by part.
LEMMA Together ==
    ASSUME IInv, Onward, SessionOK', OutcomeOK', AuthorityOK', RestOK',
           DOMAIN start' = Shells, DOMAIN sup' = Shells, DOMAIN stop' = Callers,
           \A s \in Shells : start'[s] = start[s] \/ StartOK(s)',
           \A s \in Shells : sup'[s] = sup[s] \/ SupOK(s)',
           \A x \in Callers : stop'[x] = stop[x] \/ StopOK(x)'
    PROVE  IInv'
  <1>1. \A s \in Shells : StartOK(s)' /\ SupOK(s)'
    BY StartRests, SupRests DEF IInv
  <1>2. \A x \in Callers : StopOK(x)'
    BY StopRests DEF IInv
  <1> QED
    BY <1>1, <1>2 DEF IInv

\* The files, while they are left alone.
LEMMA FilesStay ==
    ASSUME IInv, Onward
    PROVE  /\ session' = session => SessionOK'
           /\ session' = None => SessionOK'
           /\ \A r \in Tenures : session' = r /\ Begun(r.epoch) => SessionOK'
           /\ UNCHANGED <<outcome, saves>> => OutcomeOK'
           /\ outcome' = None /\ saves' = saves => OutcomeOK'
           /\ UNCHANGED <<seat, exported>> => AuthorityOK'
           /\ UNCHANGED <<room, notes, inbox, told>> => RestOK'
           /\ UNCHANGED <<inbox, told>> /\ notes' \in Nat
                 /\ room' \in {NoRoom} \cup Agents => RestOK'
  <1>1. session' = session => SessionOK'
    <2>1. session # None => session.epoch \in Epochs
      BY DEF IInv, SessionOK, Tenures
    <2> QED
      BY <2>1 DEF IInv, SessionOK, Onward
  <1>2. \A r \in Tenures : session' = r /\ Begun(r.epoch) => SessionOK'
    <2>1. \A r \in Tenures : r.epoch \in Epochs
      BY DEF Tenures
    <2> QED
      BY <2>1 DEF SessionOK, Onward
  <1>3. UNCHANGED <<outcome, saves>> => OutcomeOK'
    <2>1. outcome # None => /\ outcome.epoch \in Epochs /\ outcome.n <= saves
                            /\ Begun(outcome.epoch)
                            /\ outcome.released => Over(outcome.epoch)
      BY DEF IInv, OutcomeOK, Outcomes
    <2>2. \A e \in Epochs : /\ Begun(e) => e <= seat'.epoch
                            /\ Over(e) => /\ e <= seat'.epoch
                                          /\ ~(seat'.held /\ seat'.epoch = e)
      BY DEF Onward, Begun, Over, Holds
    <2>3. saves \in Nat /\ outcome \in {None} \cup Outcomes
      BY DEF IInv, OutcomeOK
    <2>4. SUFFICES ASSUME outcome' = outcome, saves' = saves PROVE OutcomeOK'
      OBVIOUS
    <2>5. (outcome # None => /\ outcome.n <= saves /\ Begun(outcome.epoch)
                             /\ outcome.released => Over(outcome.epoch))'
      BY <2>1, <2>2, <2>4 DEF Begun, Over, Holds
    <2> QED
      BY <2>3, <2>4, <2>5 DEF OutcomeOK
  <1>4. session' = None => SessionOK'
    BY DEF SessionOK
  <1>5. outcome' = None /\ saves' = saves => OutcomeOK'
    BY DEF IInv, OutcomeOK
  <1>6. UNCHANGED <<seat, exported>> => AuthorityOK'
    BY DEF IInv, AuthorityOK
  <1>7. /\ UNCHANGED <<room, notes, inbox, told>> => RestOK'
        /\ UNCHANGED <<inbox, told>> /\ notes' \in Nat
              /\ room' \in {NoRoom} \cup Agents => RestOK'
    BY DEF IInv, RestOK
  <1> QED
    BY <1>1, <1>2, <1>3, <1>4, <1>5, <1>6, <1>7

\* A step that leaves the seat, the outcomes and the inbox.
LEMMA OnwardWhenQuiet ==
    ASSUME IInv, UNCHANGED <<saves, seat, inbox>>, outcome' \in {outcome, None},
           \A s \in Shells : /\ sup[s].pc # "none" => sup'[s].pc # "none"
                             /\ sup[s].pc = "gone" => sup'[s].pc = "gone"
                             /\ start[s].pc \in Launcher => start'[s].pc \in Launcher
    PROVE  Onward
  <1>1. /\ \A epoch \in Epochs : Begun(epoch) => Begun(epoch)'
        /\ \A epoch \in Epochs : Over(epoch) => Over(epoch)'
    BY SeatGoesOn DEF IInv
  <1>2. saves' \in Nat /\ saves <= saves'
    BY DEF IInv, OutcomeOK
  <1> QED
    BY <1>1, <1>2 DEF Onward

(***************************************************************************)
(* startStewardSession.                                                    *)
(***************************************************************************)
\* A start that does nothing but write the record and bind the room.
LEMMA StartMoves ==
    ASSUME IInv, NEW s \in Shells, NEW v, start' = [start EXCEPT ![s] = v],
           v \in StartRec, v.pc \in Tenured => Begun(v.epoch),
           start[s].pc \notin Launcher \/ v.pc \in Launcher,
           UNCHANGED <<outcome, saves, authority, notes, sup, stop, mail>>,
           \/ session' = session
           \/ session' = None
           \/ \E r \in Tenures : session' = r /\ Begun(r.epoch),
           room' \in {NoRoom} \cup Agents
    PROVE  IInv'
  <1>1. UNCHANGED <<outcome, saves, seat, exported, notes, sup, stop, inbox, told>>
    BY DEF authority, mail
  <1>2. /\ DOMAIN start = Shells /\ DOMAIN start' = Shells
        /\ start'[s] = v /\ \A t \in Shells : t # s => start'[t] = start[t]
    BY DEF IInv
  <1>3. Onward
    BY <1>1, <1>2, OnwardWhenQuiet
  <1>4. StartOK(s)'
    <2>1. v.pc \in Tenured => v.epoch \in Epochs
      BY DEF StartRec, Tenured
    <2>2. v.pc \in Tenured => Begun(v.epoch)'
      BY <1>3, <2>1 DEF Onward
    <2> QED
      BY <1>1, <1>2, <2>2 DEF StartOK, Begun
  <1>5. SessionOK' /\ OutcomeOK' /\ AuthorityOK'
    BY <1>1, <1>3, FilesStay
  <1>6. RestOK'
    <2>1. notes' \in Nat
      BY <1>1 DEF IInv, RestOK
    <2> QED
      BY <1>1, <1>3, <2>1, FilesStay
  <1>7. /\ \A t \in Shells : start'[t] = start[t] \/ StartOK(t)'
        /\ \A t \in Shells : sup'[t] = sup[t] \/ SupOK(t)'
        /\ \A x \in Callers : stop'[x] = stop[x] \/ StopOK(x)'
        /\ DOMAIN sup' = Shells /\ DOMAIN stop' = Callers
    BY <1>1, <1>2, <1>4 DEF IInv
  <1> QED
    BY <1>2, <1>3, <1>5, <1>6, <1>7, Together

\* The room of an agent, or none.
LEMMA RoomTyped ==
    ASSUME IInv
    PROVE  /\ room \in {NoRoom} \cup Agents
           /\ \A agent : CloseRoom(agent) => room' \in {NoRoom} \cup Agents
           /\ \A s \in Shells : AgentOf[s] \in Agents
  BY DEF IInv, RestOK, CloseRoom, Agents

\* The fields of a start at each place.
LEMMA StartFields ==
    ASSUME IInv, NEW s \in Shells
    PROVE  /\ start[s].pc \in {"look", "clear", "force", "seat", "done"} =>
                 start[s] \in [pc : {"look", "clear", "force", "seat", "done"}]
           /\ start[s].pc = "rebind" => start[s].agent \in Agents
           /\ start[s].pc \in Tenured =>
                 /\ start[s] \in [pc : {"room", "save", "spawn", "record"},
                                  epoch : Epochs]
                 /\ start[s].epoch \in Epochs /\ Begun(start[s].epoch)
           /\ start[s].pc \in {"look", "clear", "rebind", "force", "seat", "room",
                               "save", "spawn", "record", "done"}
  BY DEF IInv, StartOK, StartRec, Tenured

\* The steps that write the record or bind the room.
LEMMA StartFilesKeep ==
    ASSUME IInv, NEW s \in Shells,
           \/ StartClear(s) \/ StartRebind(s) \/ StartForced(s) \/ StartSeat(s)
           \/ StartRoom(s) \/ StartSave(s) \/ StartRecord(s)
    PROVE  IInv'
  <1>1. [pc |-> "done"] \in StartRec /\ [pc |-> "seat"] \in StartRec
        /\ "done" \in Launcher /\ "done" \notin Tenured /\ "seat" \notin Tenured
    BY DEF StartRec, Launcher, Tenured
  <1>2. CASE StartClear(s) \/ StartForced(s)
    <2>1. /\ start[s].pc \in {"clear", "force"}
          /\ start' = [start EXCEPT ![s].pc = "seat"]
             \/ start' = [start EXCEPT ![s] = [pc |-> "done"]]
          /\ UNCHANGED <<outcome, saves, authority, room, notes, sup, stop, mail>>
          /\ session' = session \/ session' = None
      BY <1>2 DEF StartClear, StartForced, StartAt, StartDone, files
    <2>2. [start[s] EXCEPT !.pc = "seat"] = [pc |-> "seat"]
      BY <2>1, StartFields
    <2>3. /\ \/ start' = [start EXCEPT ![s] = [pc |-> "seat"]]
             \/ start' = [start EXCEPT ![s] = [pc |-> "done"]]
          /\ start[s].pc \notin Launcher
      BY <2>1, <2>2 DEF Launcher
    <2>4. room' \in {NoRoom} \cup Agents
      BY <2>1, RoomTyped
    <2>5. CASE start' = [start EXCEPT ![s] = [pc |-> "seat"]]
      BY <1>1, <2>1, <2>3, <2>4, <2>5, StartMoves
    <2>6. CASE start' = [start EXCEPT ![s] = [pc |-> "done"]]
      BY <1>1, <2>1, <2>3, <2>4, <2>6, StartMoves
    <2> QED
      BY <2>3, <2>5, <2>6
  <1>3. CASE StartRebind(s)
    <2>1. /\ start' = [start EXCEPT ![s] = [pc |-> "done"]]
          /\ room' = start[s].agent /\ start[s].pc = "rebind" /\ session' = session
          /\ UNCHANGED <<outcome, saves, authority, notes, sup, stop, mail>>
      BY <1>3 DEF StartRebind, StartDone, files
    <2>2. room' \in {NoRoom} \cup Agents
      BY <2>1, StartFields
    <2> QED
      BY <1>1, <2>1, <2>2, StartMoves
  <1>4. CASE StartSeat(s)
    <2>1. /\ start' = [start EXCEPT ![s] =
                          IF Acquired(s) THEN [pc |-> "room", epoch |-> exported[s]]
                                         ELSE [pc |-> "done"]]
          /\ UNCHANGED <<outcome, saves, authority, notes, sup, stop, mail>>
          /\ session' = session /\ room' = room /\ start[s].pc = "seat"
      BY <1>4 DEF StartSeat, files
    <2>2. room' \in {NoRoom} \cup Agents /\ start[s].pc \notin Launcher
      BY <2>1, RoomTyped DEF Launcher
    <2>3. CASE ~Acquired(s)
      BY <1>1, <2>1, <2>2, <2>3, StartMoves
    <2>4. CASE Acquired(s)
      <3>1. seat.held /\ seat.epoch = exported[s] /\ seat.epoch \in Epochs
        BY <2>4 DEF Acquired, Holds, IInv, AuthorityOK, Epochs
      <3>2. PICK v : v = [pc |-> "room", epoch |-> exported[s]]
        OBVIOUS
      <3>3. v \in StartRec /\ Begun(v.epoch) /\ start' = [start EXCEPT ![s] = v]
        BY <2>1, <2>4, <3>1, <3>2 DEF StartRec, Begun, Epochs
      <3> QED
        BY <2>1, <2>2, <3>3, StartMoves
    <2> QED
      BY <2>3, <2>4
  <1>5. CASE StartRoom(s) \/ StartSave(s) \/ StartRecord(s)
    <2>1. start[s].pc \in Tenured
      BY <1>5 DEF StartRoom, StartSave, StartRecord, Tenured
    <2>2. start[s] \in [pc : {"room", "save", "spawn", "record"}, epoch : Epochs]
          /\ start[s].epoch \in Epochs /\ Begun(start[s].epoch)
      BY <2>1, StartFields
    <2>3. ASSUME NEW pid \in Shells \cup {NoPid}
          PROVE  RecordOf(s, pid) \in Tenures /\ RecordOf(s, pid).epoch = start[s].epoch
      BY <2>2, RoomTyped DEF RecordOf, Tenures
    <2>4. UNCHANGED <<outcome, saves, authority, notes, sup, stop, mail>>
      BY <1>5 DEF StartRoom, StartSave, StartRecord, files
    <2>5. CASE StartRecord(s)
      <3>1. /\ start' = [start EXCEPT ![s] = [pc |-> "done"]]
            /\ session' = RecordOf(s, s) /\ room' = room
        BY <2>5 DEF StartRecord, StartDone
      <3>2. room' \in {NoRoom} \cup Agents
        BY <3>1, RoomTyped
      <3>3. \E r \in Tenures : session' = r /\ Begun(r.epoch)
        BY <2>2, <2>3, <3>1
      <3> QED
        BY <1>1, <2>4, <3>1, <3>2, <3>3, StartMoves
    <2>6. CASE StartRoom(s) \/ StartSave(s)
      <3>1. PICK pc \in {"save", "spawn"} : start' = [start EXCEPT ![s].pc = pc]
        BY <2>6 DEF StartRoom, StartSave, StartAt
      <3>2. PICK v : v = [start[s] EXCEPT !.pc = pc]
        OBVIOUS
      <3>3. /\ v \in StartRec /\ v.epoch = start[s].epoch
            /\ start' = [start EXCEPT ![s] = v]
        BY <2>2, <3>1, <3>2 DEF StartRec
      <3>4. start[s].pc \notin Launcher
        BY <2>6 DEF StartRoom, StartSave, Launcher
      <3>5. room' \in {NoRoom} \cup Agents
        BY <2>6, RoomTyped DEF StartRoom, StartSave
      <3>6. \/ session' = session
            \/ \E r \in Tenures : session' = r /\ Begun(r.epoch)
        BY <2>2, <2>3, <2>6 DEF StartRoom, StartSave, files
      <3> QED
        BY <2>2, <2>4, <3>3, <3>4, <3>5, <3>6, StartMoves
    <2> QED
      BY <1>5, <2>5, <2>6
  <1> QED
    BY <1>2, <1>3, <1>4, <1>5

(***************************************************************************)
(* runStewardSupervisor.                                                   *)
(***************************************************************************)
Watchful == [pc : {"watch"}, rec : Tenures, agent : BOOLEAN, term : BOOLEAN,
             mail : {"prime", "tick", "idle", "say"}, primed : SUBSET Messages,
             seen : SUBSET Messages, batch : SUBSET Messages]
Asking == [pc : {"ask"}, rec : Tenures, agent : BOOLEAN, term : BOOLEAN,
           mail : {"prime", "tick", "idle", "say"}, primed : SUBSET Messages,
           seen : SUBSET Messages, batch : SUBSET Messages, since : Nat]
Wrapping == [pc : {"room", "release", "save", "clear"}, rec : Tenures,
             agent : {FALSE}, note : BOOLEAN, released : BOOLEAN]

\* The fields of a supervisor at each place.
LEMMA SupFields ==
    ASSUME IInv, NEW s \in Shells
    PROVE  /\ sup[s].pc \in {"brief", "launch"} =>
                 sup[s] \in [pc : {"brief", "launch"}, rec : Tenures, term : BOOLEAN]
           /\ sup[s].pc = "watch" => sup[s] \in Watchful
           /\ sup[s].pc = "ask" => sup[s] \in Asking
           /\ sup[s].pc \in {"room", "release", "save", "clear"} =>
                 sup[s] \in Wrapping
           /\ sup[s].pc \notin {"none", "load", "gone"} =>
                 /\ sup[s].rec \in Tenures /\ sup[s].rec.epoch \in Epochs
                 /\ Begun(sup[s].rec.epoch)
           /\ sup[s].pc \in {"none", "load", "brief", "launch", "watch", "ask", "room",
                             "release", "save", "clear", "gone"}
           /\ sup[s].pc # "none" => start[s].pc \in Launcher
           /\ sup[s].pc \in {"watch", "ask"} => sup[s].batch \subseteq inbox
  <1>1. SupOK(s)
    BY DEF IInv
  <1>2. sup[s] \in SupRec
    BY <1>1 DEF SupOK
  <1>3. /\ sup[s].pc \in {"brief", "launch"} =>
              sup[s] \in [pc : {"brief", "launch"}, rec : Tenures, term : BOOLEAN]
        /\ sup[s].pc = "watch" => sup[s] \in Watchful
        /\ sup[s].pc = "ask" => sup[s] \in Asking
        /\ sup[s].pc \in {"room", "release", "save", "clear"} => sup[s] \in Wrapping
        /\ sup[s].pc \in {"none", "load", "brief", "launch", "watch", "ask", "room",
                          "release", "save", "clear", "gone"}
    BY <1>2 DEF SupRec, Watchful, Asking, Wrapping
  <1>4. sup[s].pc \notin {"none", "load", "gone"} => sup[s].rec \in Tenures
    BY <1>3 DEF Watchful, Asking, Wrapping
  <1>5. \A r \in Tenures : r.epoch \in Epochs
    BY DEF Tenures
  <1> QED
    BY <1>1, <1>3, <1>4, <1>5 DEF SupOK

\* A step of one supervisor.
LEMMA SupMoves ==
    ASSUME IInv, NEW s \in Shells, NEW v, sup' = [sup EXCEPT ![s] = v],
           UNCHANGED <<start, stop>>, Onward, SupOK(s)',
           SessionOK', OutcomeOK', AuthorityOK', RestOK'
    PROVE  IInv'
  <1>1. /\ DOMAIN start' = Shells /\ DOMAIN sup' = Shells /\ DOMAIN stop' = Callers
        /\ \A t \in Shells : t # s => sup'[t] = sup[t]
    BY DEF IInv
  <1>2. \A t \in Shells : start'[t] = start[t] \/ StartOK(t)'
    OBVIOUS
  <1>3. \A t \in Shells : sup'[t] = sup[t] \/ SupOK(t)'
    BY <1>1
  <1>4. \A x \in Callers : stop'[x] = stop[x] \/ StopOK(x)'
    OBVIOUS
  <1> QED
    BY <1>1, <1>2, <1>3, <1>4, Together

\* A supervisor that leaves the seat and the outcome.
LEMMA SupMovesQuietly ==
    ASSUME IInv, NEW s \in Shells, NEW v, sup' = [sup EXCEPT ![s] = v],
           sup[s].pc \notin {"none", "gone"}, v \in SupRec, v.pc # "none",
           v.pc \notin {"load", "gone"} =>
               v.rec.epoch \in Epochs /\ Begun(v.rec.epoch),
           v.pc \in {"save", "clear"} /\ v.released => Over(v.rec.epoch),
           v.pc \in {"watch", "ask"} => v.batch \subseteq inbox,
           UNCHANGED <<start, stop, outcome, saves, authority, inbox>>,
           \/ session' = session
           \/ session' = None
           \/ \E r \in Tenures : session' = r /\ Begun(r.epoch),
           room' \in {NoRoom} \cup Agents, notes' \in Nat, told' \subseteq inbox
    PROVE  IInv'
  <1>1. /\ DOMAIN sup = Shells /\ sup'[s] = v
        /\ \A t \in Shells : t # s => sup'[t] = sup[t]
        /\ UNCHANGED <<seat, exported>>
    BY DEF IInv, authority
  <1>2. Onward
    BY <1>1, OnwardWhenQuiet
  <1>3. SupOK(s)'
    <2>1. start'[s].pc \in Launcher
      BY SupFields
    <2>2. v.pc \notin {"load", "gone"} => Begun(v.rec.epoch)'
      BY <1>2 DEF Onward
    <2>3. v.pc \in {"save", "clear"} /\ v.released => Over(v.rec.epoch)'
      BY <1>2 DEF Onward
    <2> QED
      BY <1>1, <2>1, <2>2, <2>3 DEF SupOK, Begun, Over, Holds
  <1>4. SessionOK' /\ OutcomeOK' /\ AuthorityOK'
    BY <1>1, <1>2, FilesStay
  <1>5. RestOK'
    BY DEF IInv, RestOK
  <1> QED
    BY <1>2, <1>3, <1>4, <1>5, SupMoves

\* The load of the record, the brief, the launch and the ends.
LEMMA SupLaunchKeeps ==
    ASSUME IInv, NEW s \in Shells,
           SupLoad(s) \/ SupBrief(s) \/ SupLaunch(s) \/ WrapClear(s) \/ SupCrashes(s)
    PROVE  IInv'
  <1>1. /\ UNCHANGED <<start, stop, outcome, saves, authority, inbox>>
        /\ UNCHANGED <<room, notes, told>>
    BY DEF SupLoad, SupBrief, SupLaunch, WrapClear, SupCrashes, files, mail
  <1>2. /\ room' \in {NoRoom} \cup Agents /\ notes' \in Nat /\ told' \subseteq inbox
    BY <1>1 DEF IInv, RestOK
  <1>3. Gone \in SupRec /\ Gone.pc = "gone"
    BY DEF Gone, SupRec
  <1>4. ASSUME sup' = [sup EXCEPT ![s] = Gone], sup[s].pc \notin {"none", "gone"},
               session' = session \/ session' = None
        PROVE  IInv'
    BY <1>1, <1>2, <1>3, <1>4, SupMovesQuietly
  <1>5. CASE WrapClear(s) \/ SupCrashes(s)
    BY <1>4, <1>5 DEF WrapClear, SupCrashes, SupGone, Alive, files
  <1>6. CASE SupLoad(s)
    <2>1. CASE session = None
      BY <1>4, <1>6, <2>1 DEF SupLoad, files
    <2>2. CASE session # None
      <3>1. PICK v : v = [pc |-> "brief", rec |-> session, term |-> FALSE]
        OBVIOUS
      <3>2. session \in Tenures /\ session.epoch \in Epochs /\ Begun(session.epoch)
        BY <2>2 DEF IInv, SessionOK, Tenures
      <3>3. /\ sup' = [sup EXCEPT ![s] = v] /\ sup[s].pc = "load"
            /\ session' = session
        BY <1>6, <2>2, <3>1 DEF SupLoad, files
      <3>4. v \in SupRec /\ v.pc = "brief" /\ v.rec = session
        BY <3>1, <3>2 DEF SupRec
      <3> QED
        BY <1>1, <1>2, <3>2, <3>3, <3>4, SupMovesQuietly
    <2> QED
      BY <2>1, <2>2
  <1>7. CASE SupBrief(s)
    <2>1. /\ sup[s].pc = "brief" /\ session' = sup[s].rec
          /\ sup' = [sup EXCEPT ![s].pc = "launch"]
      BY <1>7 DEF SupBrief, SupAt
    <2>2. /\ sup[s] \in [pc : {"brief", "launch"}, rec : Tenures, term : BOOLEAN]
          /\ sup[s].rec \in Tenures /\ sup[s].rec.epoch \in Epochs
          /\ Begun(sup[s].rec.epoch)
      BY <2>1, SupFields
    <2>3. PICK v : v = [sup[s] EXCEPT !.pc = "launch"]
      OBVIOUS
    <2>4. /\ v \in SupRec /\ v.pc = "launch" /\ v.rec = sup[s].rec
          /\ sup' = [sup EXCEPT ![s] = v]
      BY <2>1, <2>2, <2>3 DEF SupRec
    <2> QED
      BY <1>1, <1>2, <2>1, <2>2, <2>4, SupMovesQuietly
  <1>8. CASE SupLaunch(s)
    <2>1. sup[s].pc = "launch"
      BY <1>8 DEF SupLaunch
    <2>2. CASE session' = None /\ SupGone(s)
      BY <1>4, <2>1, <2>2 DEF SupGone
    <2>3. CASE ~(session' = None /\ SupGone(s))
      <3>1. PICK v : v = [pc |-> "watch", rec |-> sup[s].rec, agent |-> TRUE,
                          term |-> sup[s].term, mail |-> "prime", primed |-> {},
                          seen |-> {}, batch |-> {}]
        OBVIOUS
      <3>2. sup' = [sup EXCEPT ![s] = v] /\ session' = session
        BY <1>8, <2>3, <3>1 DEF SupLaunch
      <3>3. /\ sup[s] \in [pc : {"brief", "launch"}, rec : Tenures, term : BOOLEAN]
            /\ sup[s].rec \in Tenures /\ sup[s].rec.epoch \in Epochs
            /\ Begun(sup[s].rec.epoch)
        BY <2>1, SupFields
      <3>4. /\ v \in SupRec /\ v.pc = "watch" /\ v.rec = sup[s].rec /\ v.batch = {}
        BY <3>1, <3>3 DEF SupRec
      <3> QED
        BY <1>1, <1>2, <2>1, <3>2, <3>3, <3>4, SupMovesQuietly
    <2> QED
      BY <2>2, <2>3
  <1> QED
    BY <1>5, <1>6, <1>7, <1>8

\* The end of the agent, and of the watch.
LEMMA SupWatchKeeps ==
    ASSUME IInv, NEW s \in Shells, AgentEnds(s) \/ SupWrapsUp(s) \/ WrapNote(s)
    PROVE  IInv'
  <1>1. /\ UNCHANGED <<start, stop, outcome, saves, authority, inbox>>
        /\ UNCHANGED <<room, told, session>>
    BY DEF AgentEnds, SupWrapsUp, WrapNote, files, mail
  <1>2. room' \in {NoRoom} \cup Agents /\ told' \subseteq inbox /\ notes \in Nat
    BY <1>1 DEF IInv, RestOK
  <1>3. CASE AgentEnds(s)
    <2>1. /\ sup[s].pc \in {"watch", "ask", "room", "release", "save", "clear"}
          /\ sup' = [sup EXCEPT ![s].agent = FALSE] /\ notes' = notes
          /\ sup[s].agent
      BY <1>3 DEF AgentEnds, Launched
    <2>2. /\ sup[s].pc = "watch" => sup[s] \in Watchful
          /\ sup[s].pc = "ask" => sup[s] \in Asking
          /\ sup[s].pc \in {"room", "release", "save", "clear"} =>
                sup[s] \in Wrapping
          /\ sup[s].rec.epoch \in Epochs /\ Begun(sup[s].rec.epoch)
          /\ sup[s].pc \in {"watch", "ask"} => sup[s].batch \subseteq inbox
      BY <2>1, SupFields
    <2>3. sup[s].pc \in {"watch", "ask"}
      BY <2>1, <2>2 DEF Wrapping
    <2>4. PICK v : v = [sup[s] EXCEPT !.agent = FALSE]
      OBVIOUS
    <2>5. v \in Watchful \/ v \in Asking
      BY <2>2, <2>3, <2>4 DEF Watchful, Asking
    <2>6. /\ v.pc = sup[s].pc /\ v.rec = sup[s].rec /\ v.batch = sup[s].batch
          /\ sup' = [sup EXCEPT ![s] = v]
      BY <2>1, <2>2, <2>3, <2>4 DEF Watchful, Asking
    <2>7. v \in SupRec
      BY <2>5 DEF SupRec, Watchful, Asking
    <2> QED
      BY <1>1, <1>2, <2>1, <2>2, <2>3, <2>6, <2>7, SupMovesQuietly
  <1>4. CASE SupWrapsUp(s)
    <2>1. PICK v : v = [pc |-> "ask", rec |-> sup[s].rec, agent |-> sup[s].agent,
                        term |-> sup[s].term, mail |-> sup[s].mail,
                        primed |-> sup[s].primed, seen |-> sup[s].seen,
                        batch |-> sup[s].batch, since |-> notes]
      OBVIOUS
    <2>2. sup' = [sup EXCEPT ![s] = v] /\ sup[s].pc = "watch" /\ notes' = notes
      BY <1>4, <2>1 DEF SupWrapsUp
    <2>3. /\ sup[s] \in Watchful /\ sup[s].batch \subseteq inbox
          /\ sup[s].rec.epoch \in Epochs /\ Begun(sup[s].rec.epoch)
      BY <2>2, SupFields
    <2>4. v \in Asking /\ v.pc = "ask" /\ v.rec = sup[s].rec /\ v.batch = sup[s].batch
      BY <1>2, <2>1, <2>3 DEF Watchful, Asking
    <2>5. v \in SupRec
      BY <2>4 DEF SupRec, Asking
    <2> QED
      BY <1>1, <1>2, <2>2, <2>3, <2>4, <2>5, SupMovesQuietly
  <1>5. CASE WrapNote(s)
    <2>1. PICK written \in BOOLEAN :
             /\ notes' = notes + IF written THEN 1 ELSE 0
             /\ sup' = [sup EXCEPT ![s] =
                           [pc |-> "room", rec |-> sup[s].rec, agent |-> FALSE,
                            note |-> written \/ notes > sup[s].since,
                            released |-> FALSE]]
      BY <1>5 DEF WrapNote
    <2>2. PICK v : v = [pc |-> "room", rec |-> sup[s].rec, agent |-> FALSE,
                        note |-> written \/ notes > sup[s].since,
                        released |-> FALSE]
      OBVIOUS
    <2>3. sup[s].pc = "ask" /\ sup' = [sup EXCEPT ![s] = v]
      BY <1>5, <2>1, <2>2 DEF WrapNote
    <2>4. /\ sup[s].rec \in Tenures
          /\ sup[s].rec.epoch \in Epochs /\ Begun(sup[s].rec.epoch)
      BY <2>3, SupFields
    <2>5. (written \/ notes > sup[s].since) \in BOOLEAN
      OBVIOUS
    <2>6. v \in Wrapping /\ v.pc = "room" /\ v.rec = sup[s].rec
      BY <2>2, <2>4, <2>5 DEF Wrapping
    <2>7. v \in SupRec
      BY <2>6 DEF SupRec, Wrapping
    <2>8. notes' \in Nat
      BY <1>2, <2>1
    <2> QED
      BY <1>1, <1>2, <2>3, <2>4, <2>6, <2>7, <2>8, SupMovesQuietly
  <1> QED
    BY <1>3, <1>4, <1>5

\* Telling the agent of its messages: a batch is of the inbox.
LEMMA MailKeeps ==
    ASSUME IInv, NEW s \in Shells, Mail(s)
    PROVE  IInv'
  <1>1. /\ UNCHANGED <<start, stop, outcome, saves, authority, inbox>>
        /\ UNCHANGED <<room, notes, session>>
    BY DEF Mail, MailPrime, MailPoll, MailCommit, MailSay, MailUnchanged, files
  <1>2. /\ room' \in {NoRoom} \cup Agents /\ notes' \in Nat
        /\ inbox \subseteq Messages /\ told \subseteq inbox
    BY <1>1 DEF IInv, RestOK
  <1>3. Launched(s) /\ sup[s].agent
    BY DEF Mail, MailPrime, MailPoll, MailCommit, MailSay, Watching
  <1>4. /\ sup[s].pc = "watch" => sup[s] \in Watchful
        /\ sup[s].pc = "ask" => sup[s] \in Asking
        /\ sup[s].pc \in {"room", "release", "save", "clear"} => sup[s] \in Wrapping
        /\ sup[s].rec.epoch \in Epochs /\ Begun(sup[s].rec.epoch)
        /\ sup[s].pc \in {"watch", "ask"} => sup[s].batch \subseteq inbox
    BY <1>3, SupFields DEF Launched
  <1>5. sup[s].pc \in {"watch", "ask"} /\ (sup[s] \in Watchful \/ sup[s] \in Asking)
    BY <1>3, <1>4 DEF Launched, Wrapping
  <1>6. PICK v :
           /\ sup' = [sup EXCEPT ![s] = v]
           /\ \/ v = [sup[s] EXCEPT !.mail = "tick", !.seen = inbox, !.primed = inbox]
              \/ v = [sup[s] EXCEPT !.mail = "idle", !.batch = inbox \ sup[s].seen]
              \/ v = [sup[s] EXCEPT !.mail = "say", !.seen = @ \cup sup[s].batch]
              \/ v = [sup[s] EXCEPT !.mail = "tick", !.batch = {}]
    <2>1. CASE MailPrime(s)
      BY <2>1 DEF MailPrime
    <2>2. CASE MailPoll(s)
      BY <2>2 DEF MailPoll
    <2>3. CASE MailCommit(s)
      BY <2>3 DEF MailCommit
    <2>4. CASE MailSay(s)
      BY <2>4 DEF MailSay
    <2> QED
      BY <2>1, <2>2, <2>3, <2>4 DEF Mail
  <1>7. /\ v \in Watchful \/ v \in Asking
        /\ v.pc = sup[s].pc /\ v.rec = sup[s].rec /\ v.batch \subseteq inbox
    <2>0. /\ sup[s].batch \subseteq inbox /\ inbox \subseteq Messages
          /\ inbox \ sup[s].seen \subseteq inbox
      BY <1>2, <1>4, <1>5
    <2>1. CASE v = [sup[s] EXCEPT !.mail = "tick", !.seen = inbox, !.primed = inbox]
      <3>1. CASE sup[s] \in Watchful
        BY <2>0, <2>1, <3>1 DEF Watchful
      <3>2. CASE sup[s] \in Asking
        BY <2>0, <2>1, <3>2 DEF Asking
      <3> QED
        BY <1>5, <3>1, <3>2
    <2>2. CASE v = [sup[s] EXCEPT !.mail = "idle", !.batch = inbox \ sup[s].seen]
      <3>1. CASE sup[s] \in Watchful
        BY <2>0, <2>2, <3>1 DEF Watchful
      <3>2. CASE sup[s] \in Asking
        BY <2>0, <2>2, <3>2 DEF Asking
      <3> QED
        BY <1>5, <3>1, <3>2
    <2>3. CASE v = [sup[s] EXCEPT !.mail = "say", !.seen = @ \cup sup[s].batch]
      <3>1. CASE sup[s] \in Watchful
        BY <2>0, <2>3, <3>1 DEF Watchful
      <3>2. CASE sup[s] \in Asking
        BY <2>0, <2>3, <3>2 DEF Asking
      <3> QED
        BY <1>5, <3>1, <3>2
    <2>4. CASE v = [sup[s] EXCEPT !.mail = "tick", !.batch = {}]
      <3>1. CASE sup[s] \in Watchful
        BY <2>0, <2>4, <3>1 DEF Watchful
      <3>2. CASE sup[s] \in Asking
        BY <2>0, <2>4, <3>2 DEF Asking
      <3> QED
        BY <1>5, <3>1, <3>2
    <2> QED
      BY <1>6, <2>1, <2>2, <2>3, <2>4
  <1>8. v \in SupRec
    BY <1>7 DEF SupRec, Watchful, Asking
  <1>9. told' \subseteq inbox
    <2>1. told' = told \/ told' = told \cup sup[s].batch
      BY DEF Mail, MailPrime, MailPoll, MailCommit, MailSay
    <2> QED
      BY <1>2, <1>4, <1>5, <2>1
  <1> QED
    BY <1>1, <1>2, <1>4, <1>5, <1>6, <1>7, <1>8, <1>9, SupMovesQuietly

\* The room is closed, the seat given up, and the outcome saved.
LEMMA WrapKeeps ==
    ASSUME IInv, NEW s \in Shells, WrapRoom(s) \/ WrapRelease(s) \/ WrapSave(s)
    PROVE  IInv'
  <1>1. UNCHANGED <<start, stop, session, notes, inbox, told, exported>>
    BY DEF WrapRoom, WrapRelease, WrapSave, files, authority, mail
  <1>2. sup[s].pc \in {"room", "release", "save"}
    BY DEF WrapRoom, WrapRelease, WrapSave
  <1>3. /\ sup[s] \in Wrapping /\ sup[s].rec \in Tenures
        /\ sup[s].rec.epoch \in Epochs /\ Begun(sup[s].rec.epoch)
    BY <1>2, SupFields
  <1>4. PICK v : /\ \/ WrapRoom(s) /\ v = [sup[s] EXCEPT !.pc = "release"]
                    \/ \E released \in BOOLEAN :
                          /\ WrapRelease(s) /\ Release(sup[s].rec.epoch, released)
                          /\ v = [sup[s] EXCEPT !.pc = "save", !.released = released]
                    \/ WrapSave(s) /\ v = [sup[s] EXCEPT !.pc = "clear"]
                 /\ sup' = [sup EXCEPT ![s] = v]
    <2>1. CASE WrapRoom(s)
      BY <2>1 DEF WrapRoom, SupAt
    <2>2. CASE WrapRelease(s)
      <3>1. PICK released \in BOOLEAN :
               /\ Release(sup[s].rec.epoch, released)
               /\ sup' = [sup EXCEPT ![s].pc = "save", ![s].released = released]
        BY <2>2 DEF WrapRelease
      <3>2. sup' = [sup EXCEPT ![s] = [sup[s] EXCEPT !.pc = "save", !.released = released]]
        BY <3>1 DEF IInv
      <3> QED
        BY <2>2, <3>1, <3>2
    <2>3. CASE WrapSave(s)
      BY <2>3 DEF WrapSave, SupAt
    <2> QED
      BY <2>1, <2>2, <2>3
  <1>5. /\ v \in Wrapping /\ v.rec = sup[s].rec
        /\ \/ WrapRoom(s) /\ v.pc = "release"
           \/ /\ WrapRelease(s) /\ v.pc = "save"
              /\ Release(sup[s].rec.epoch, v.released)
           \/ /\ WrapSave(s) /\ v.pc = "clear"
              /\ v.released = sup[s].released
    BY <1>3, <1>4 DEF Wrapping
  <1>6. v \in SupRec
    BY <1>5 DEF SupRec, Wrapping
  <1>7. /\ DOMAIN sup = Shells /\ sup'[s] = v
        /\ \A t \in Shells : t # s => sup'[t] = sup[t]
    BY <1>4 DEF IInv
  <1>8. /\ \A t \in Shells : /\ sup[t].pc # "none" => sup'[t].pc # "none"
                             /\ sup[t].pc = "gone" => sup'[t].pc = "gone"
        /\ start'[s].pc \in Launcher
    BY <1>1, <1>2, <1>5, <1>7, SupFields
  <1>9. room' \in {NoRoom} \cup Agents /\ notes' \in Nat
    BY <1>1, RoomTyped DEF WrapRoom, WrapRelease, WrapSave, IInv, RestOK
  <1>10. CASE WrapRoom(s) /\ v.pc = "release"
    <2>1. UNCHANGED <<outcome, saves, seat>>
      BY <1>10 DEF WrapRoom, files, authority
    <2>2. Onward
      BY <1>1, <1>8, <2>1, OnwardWhenQuiet
    <2>3. SupOK(s)'
      BY <1>3, <1>5, <1>6, <1>7, <1>8, <1>10, <2>2 DEF SupOK, Onward
    <2>4. SessionOK' /\ OutcomeOK' /\ AuthorityOK' /\ RestOK'
      BY <1>1, <1>9, <2>1, <2>2, FilesStay
    <2> QED
      BY <1>1, <1>4, <2>2, <2>3, <2>4, SupMoves
  <1>11. CASE /\ WrapRelease(s) /\ v.pc = "save"
              /\ Release(sup[s].rec.epoch, v.released)
    <2>1. UNCHANGED <<outcome, saves>> /\ Release(sup[s].rec.epoch, v.released)
      BY <1>11 DEF WrapRelease, files
    <2>2. PICK epoch \in Epochs : epoch = sup[s].rec.epoch
      BY <1>3
    <2>3. /\ v.released => Over(epoch)'
          /\ seat' = seat \/ seat' = [seat EXCEPT !.held = FALSE]
      <3>1. PICK released \in BOOLEAN : released = v.released
        BY <1>5 DEF Wrapping
      <3> QED
        BY <1>3, <2>1, <2>2, <3>1, ReleasedIsOver DEF IInv
    <2>4. /\ seat' \in [epoch : Nat, held : BOOLEAN]
          /\ seat'.held => seat'.epoch > 0
          /\ seat.epoch <= seat'.epoch
          /\ \A e \in Epochs : Begun(e) => Begun(e)'
          /\ \A e \in Epochs : Over(e) => Over(e)'
      BY <2>3, SeatGoesOn DEF IInv
    <2>5. Onward
      BY <1>1, <1>8, <2>1, <2>4 DEF Onward, IInv, OutcomeOK
    <2>6. SupOK(s)'
      <3>1. /\ sup'[s].rec.epoch = epoch /\ sup'[s].pc = "save" /\ Begun(epoch)'
            /\ sup'[s].released = v.released
        BY <1>3, <1>5, <1>7, <1>11, <2>2, <2>4
      <3> QED
        BY <1>6, <1>7, <1>8, <2>3, <3>1 DEF SupOK, Over, Begun, Holds
    <2>7. SessionOK' /\ OutcomeOK' /\ RestOK'
      BY <1>1, <1>9, <2>1, <2>5, FilesStay
    <2>8. AuthorityOK'
      <3>1. seat.epoch \in Nat /\ seat'.epoch \in Nat
        BY <2>4 DEF IInv, AuthorityOK
      <3> QED
        BY <1>1, <2>4, <3>1 DEF IInv, AuthorityOK
    <2> QED
      BY <1>1, <1>4, <2>5, <2>6, <2>7, <2>8, SupMoves
  <1>12. CASE WrapSave(s) /\ v.pc = "clear" /\ v.released = sup[s].released
    <2>1. UNCHANGED seat /\ SaveOutcome(sup[s].rec, sup[s].note, v.released)
      BY <1>12 DEF WrapSave, authority
    <2>2. v.released => Over(sup[s].rec.epoch)
      BY <1>12 DEF WrapSave, IInv, SupOK
    <2>3. /\ outcome' \in Outcomes /\ outcome'.n = saves + 1 /\ saves' = saves + 1
          /\ outcome'.epoch = sup[s].rec.epoch /\ saves \in Nat
          /\ outcome'.released = v.released
      <3>1. saves \in Nat /\ saves + 1 \in Nat \ {0}
        BY DEF IInv, OutcomeOK
      <3>2. sup[s].rec.agent \in Agents /\ sup[s].note \in BOOLEAN
            /\ v.released \in BOOLEAN
        BY <1>3, <1>12 DEF Tenures, Wrapping
      <3> QED
        BY <1>3, <2>1, <3>1, <3>2 DEF SaveOutcome, Outcomes
    <2>4. /\ \A e \in Epochs : Begun(e) => Begun(e)'
          /\ \A e \in Epochs : Over(e) => Over(e)'
      BY <2>1, SeatGoesOn DEF IInv
    <2>5. Onward
      BY <1>1, <1>8, <2>3, <2>4 DEF Onward
    <2>6. PICK epoch \in Epochs : epoch = sup[s].rec.epoch
      BY <1>3
    <2>7. (v.released => Over(epoch)') /\ Begun(epoch)'
      BY <1>3, <2>2, <2>4, <2>6
    <2>8. SupOK(s)'
      <3>1. /\ sup'[s].rec.epoch = epoch /\ sup'[s].pc = "clear"
            /\ sup'[s].released = v.released
        BY <1>5, <1>7, <1>12, <2>6
      <3> QED
        BY <1>6, <1>7, <1>8, <2>7, <3>1 DEF SupOK, Over, Begun, Holds
    <2>9. OutcomeOK'
      <3>1. outcome'.epoch = epoch /\ outcome'.n <= saves' /\ saves' \in Nat
        BY <2>3, <2>6
      <3> QED
        BY <2>3, <2>7, <3>1 DEF OutcomeOK, Over, Begun, Holds
    <2>10. SessionOK' /\ AuthorityOK' /\ RestOK'
      BY <1>1, <1>9, <2>1, <2>5, FilesStay
    <2> QED
      BY <1>1, <1>4, <2>5, <2>8, <2>9, <2>10, SupMoves
  <1> QED
    BY <1>5, <1>10, <1>11, <1>12

\* A stop that has seen the record of a supervisor that is there.
LEMMA ResetOK ==
    ASSUME IInv, Live, NEW x \in Callers,
           stop'[x] = [pc |-> "reset", rec |-> session, since |-> saves],
           UNCHANGED <<seat, saves, sup>>
    PROVE  StopOK(x)'
  <1>1. /\ session \in Tenures /\ session.pid \in Shells /\ Begun(session.epoch)
        /\ sup[session.pid].pc # "none"
    BY DEF IInv, SessionOK, Live, Alive
  <1>2. session \in Spawned
    BY <1>1 DEF Tenures, Spawned
  <1>3. saves \in Nat
    BY DEF IInv, OutcomeOK
  <1>4. PICK v : v = [pc |-> "reset", rec |-> session, since |-> saves]
    OBVIOUS
  <1>5. v \in StopRec
    BY <1>2, <1>3, <1>4 DEF StopRec
  <1>6. v.pc = "reset" /\ v.rec = session /\ v.since = saves /\ stop'[x] = v
    BY <1>4
  <1> QED
    BY <1>1, <1>3, <1>5, <1>6
    DEF StopOK, Begun, Waited, AfterReset, Reporting

\* A start that asks for a stop, or ends with the one it asked for.
LEMMA StartStops ==
    ASSUME IInv, NEW s \in Shells, NEW v, start' = [start EXCEPT ![s] = v],
           v \in StartRec, v.pc \notin Tenured,
           v.pc \in Launcher \/ start[s].pc \notin Launcher,
           UNCHANGED <<files, authority, room, notes, sup, mail>>,
           \/ stop' = stop
           \/ \E w : stop' = [stop EXCEPT ![s] = w] /\ StopOK(s)'
    PROVE  IInv'
  <1>1. /\ UNCHANGED <<session, outcome, saves, seat, exported, room, notes, sup>>
        /\ UNCHANGED <<inbox, told>>
    BY DEF files, authority, mail
  <1>2. /\ DOMAIN start = Shells /\ DOMAIN start' = Shells
        /\ start'[s] = v /\ \A t \in Shells : t # s => start'[t] = start[t]
    BY DEF IInv
  <1>3. Onward
    BY <1>1, <1>2, OnwardWhenQuiet
  <1>4. StartOK(s)'
    BY <1>2 DEF StartOK
  <1>5. SessionOK' /\ OutcomeOK' /\ AuthorityOK' /\ RestOK'
    BY <1>1, <1>3, FilesStay
  <1>6. DOMAIN stop' = Callers /\ \A x \in Callers : stop'[x] = stop[x] \/ StopOK(x)'
    BY DEF IInv
  <1>7. /\ \A t \in Shells : start'[t] = start[t] \/ StartOK(t)'
        /\ \A t \in Shells : sup'[t] = sup[t] \/ SupOK(t)'
        /\ DOMAIN sup' = Shells
    BY <1>1, <1>2, <1>4 DEF IInv
  <1> QED
    BY <1>2, <1>3, <1>5, <1>6, <1>7, Together

\* The look at the record, and a start that is interrupted.
LEMMA StartLookKeeps ==
    ASSUME IInv, NEW s \in Shells, StartLook(s) \/ StartDies(s)
    PROVE  IInv'
  <1>1. UNCHANGED <<files, authority, room, notes, sup, mail>>
    BY DEF StartLook, StartDies
  <1>2. s \in Callers /\ DOMAIN stop = Callers
    BY DEF Callers, IInv
  <1>3. CASE StartDies(s)
    <2>1. PICK v : v = [pc |-> "done"]
      OBVIOUS
    <2>2. PICK w : w = [pc |-> "failed"]
      OBVIOUS
    <2>3. start' = [start EXCEPT ![s] = v] /\ stop' = [stop EXCEPT ![s] = w]
      BY <1>3, <2>1, <2>2 DEF StartDies, StartDone
    <2>4. v \in StartRec /\ v.pc = "done"
      BY <2>1 DEF StartRec
    <2>5. StopOK(s)'
      <3>1. w \in StopRec /\ w.pc = "failed" /\ stop'[s] = w
        BY <1>2, <2>2, <2>3 DEF StopRec
      <3> QED
        BY <3>1 DEF StopOK, Addressing, Waited, AfterReset, Reporting
    <2> QED
      BY <1>1, <2>3, <2>4, <2>5, StartStops DEF Tenured, Launcher
  <1>4. CASE StartLook(s)
    <2>1. start[s].pc = "look" /\ start[s].pc \notin Launcher
      BY <1>4 DEF StartLook, Launcher
    <2>2. PICK v :
             /\ start' = [start EXCEPT ![s] = v]
             /\ \/ v = [start[s] EXCEPT !.pc = "seat"]
                \/ v = [start[s] EXCEPT !.pc = "clear"]
                \/ v = [start[s] EXCEPT !.pc = "force"]
                \/ Live /\ v = [pc |-> "rebind", agent |-> session.agent]
                \/ v = [pc |-> "done"]
             /\ \/ stop' = stop
                \/ /\ Live
                   /\ stop' = [stop EXCEPT ![s] = [pc |-> "reset", rec |-> session,
                                                   since |-> saves]]
      BY <1>4 DEF StartLook, StartAt, StartDone
    <2>3. v \in StartRec /\ v.pc \in {"seat", "clear", "force", "rebind", "done"}
      <3>1. start[s] \in [pc : {"look", "clear", "force", "seat", "done"}]
        BY <2>1, StartFields
      <3>2. CASE Live /\ v = [pc |-> "rebind", agent |-> session.agent]
        <4>1. session.agent \in Agents
          BY <3>2 DEF Live, IInv, SessionOK, Tenures
        <4> QED
          BY <3>2, <4>1 DEF StartRec
      <3>3. CASE ~(Live /\ v = [pc |-> "rebind", agent |-> session.agent])
        BY <2>2, <3>1, <3>3 DEF StartRec
      <3> QED
        BY <3>2, <3>3
    <2>4. \/ stop' = stop
          \/ \E w : stop' = [stop EXCEPT ![s] = w] /\ StopOK(s)'
      <3>1. CASE stop' = stop
        BY <3>1
      <3>2. CASE stop' # stop
        <4>1. /\ stop' = [stop EXCEPT ![s] = [pc |-> "reset", rec |-> session,
                                              since |-> saves]]
              /\ Live
          BY <2>2, <3>2
        <4>2. stop'[s] = [pc |-> "reset", rec |-> session, since |-> saves]
          BY <1>2, <4>1
        <4>3. UNCHANGED <<seat, saves, sup>>
          BY <1>1 DEF files, authority
        <4> QED
          BY <1>2, <4>1, <4>2, <4>3, ResetOK
      <3> QED
        BY <3>1, <3>2
    <2> QED
      BY <1>1, <2>1, <2>2, <2>3, <2>4, StartStops DEF Tenured
  <1> QED
    BY <1>3, <1>4

\* The supervisor is spawned, or what the start did is undone.
LEMMA StartSpawnKeeps ==
    ASSUME IInv, NEW s \in Shells, StartSpawn(s)
    PROVE  IInv'
  <1>1. start[s].pc = "spawn" /\ start[s].pc \notin Launcher
    BY DEF StartSpawn, Launcher
  <1>2. UNCHANGED <<outcome, saves, authority, notes, stop, mail>>
    BY DEF StartSpawn
  <1>3. CASE session' = None /\ CloseRoom(AgentOf[s]) /\ StartDone(s) /\ UNCHANGED sup
    <2>1. PICK v : v = [pc |-> "done"]
      OBVIOUS
    <2>2. v \in StartRec /\ v.pc = "done" /\ start' = [start EXCEPT ![s] = v]
      BY <1>3, <2>1 DEF StartRec, StartDone
    <2>3. room' \in {NoRoom} \cup Agents
      BY <1>3, RoomTyped
    <2> QED
      BY <1>1, <1>2, <1>3, <2>2, <2>3, StartMoves DEF Tenured
  <1>4. CASE /\ sup' = [sup EXCEPT ![s] = [pc |-> "load"]]
             /\ StartAt(s, "record") /\ UNCHANGED <<session, room>>
    <2>1. /\ UNCHANGED <<session, outcome, saves, seat, exported, room, notes, stop>>
          /\ UNCHANGED <<inbox, told>>
      BY <1>2, <1>4 DEF authority, mail
    <2>2. /\ start[s] \in [pc : {"room", "save", "spawn", "record"}, epoch : Epochs]
          /\ start[s].epoch \in Epochs /\ Begun(start[s].epoch)
      BY <1>1, StartFields DEF Tenured
    <2>3. /\ DOMAIN start' = Shells /\ DOMAIN sup' = Shells /\ DOMAIN stop' = Callers
          /\ \A t \in Shells : t # s => start'[t] = start[t] /\ sup'[t] = sup[t]
          /\ start'[s] = [start[s] EXCEPT !.pc = "record"]
          /\ sup'[s] = [pc |-> "load"]
      BY <1>4, <2>1 DEF IInv, StartAt
    <2>4. /\ start'[s] \in StartRec /\ start'[s].pc = "record"
          /\ start'[s].epoch = start[s].epoch
      BY <2>2, <2>3 DEF StartRec
    <2>5. sup[s].pc = "none"
      BY <1>1, SupFields
    <2>6. Onward
      <3>1. \A t \in Shells :
               /\ sup[t].pc # "none" => sup'[t].pc # "none"
               /\ sup[t].pc = "gone" => sup'[t].pc = "gone"
               /\ start[t].pc \in Launcher => start'[t].pc \in Launcher
        BY <1>1, <2>3, <2>5
      <3> QED
        BY <2>1, <3>1, OnwardWhenQuiet
    <2>7. StartOK(s)'
      BY <2>1, <2>2, <2>4 DEF StartOK, Begun
    <2>8. SupOK(s)'
      <3>1. sup'[s] \in SupRec /\ sup'[s].pc = "load"
        BY <2>3 DEF SupRec
      <3> QED
        BY <2>4, <3>1 DEF SupOK, Launcher
    <2>9. SessionOK' /\ OutcomeOK' /\ AuthorityOK' /\ RestOK'
      BY <2>1, <2>6, FilesStay
    <2>10. /\ \A t \in Shells : start'[t] = start[t] \/ StartOK(t)'
           /\ \A t \in Shells : sup'[t] = sup[t] \/ SupOK(t)'
           /\ \A x \in Callers : stop'[x] = stop[x] \/ StopOK(x)'
      BY <2>1, <2>3, <2>7, <2>8
    <2> QED
      BY <2>3, <2>6, <2>9, <2>10, Together
  <1> QED
    BY <1>3, <1>4 DEF StartSpawn

(***************************************************************************)
(* `steward stop`.                                                         *)
(***************************************************************************)
Looking == [pc : {"none", "look", "stale", "failed"}]
Pursuing == [pc : {"reset", "signal", "wait", "read", "room", "failed"},
             rec : Spawned, since : Nat]
Closing == [pc : {"release", "save"}, rec : Spawned, since : Nat, note : BOOLEAN,
            released : BOOLEAN]
Answering == [pc : {"clear", "returned"}, rec : Spawned, since : Nat, got : Outcomes]

\* The fields of a stop at each place.
LEMMA StopFields ==
    ASSUME IInv, NEW x \in Callers
    PROVE  /\ stop[x].pc \in {"none", "look", "stale"} => stop[x] \in Looking
           /\ stop[x].pc \in {"reset", "signal", "wait", "read", "room"} =>
                 stop[x] \in Pursuing
           /\ stop[x].pc \in {"release", "save"} => stop[x] \in Closing
           /\ stop[x].pc \in {"clear", "returned"} => stop[x] \in Answering
           /\ stop[x].pc \in Addressing =>
                 /\ stop[x].rec \in Spawned /\ stop[x].rec.pid \in Shells
                 /\ stop[x].rec.epoch \in Epochs /\ stop[x].rec.agent \in Agents
                 /\ stop[x].since \in Nat /\ stop[x].since <= saves
                 /\ Begun(stop[x].rec.epoch) /\ sup[stop[x].rec.pid].pc # "none"
           /\ stop[x].pc \in {"none", "look", "stale", "reset", "signal", "wait",
                              "read", "room", "release", "save", "clear",
                              "returned", "failed"}
  <1>1. StopOK(x)
    BY DEF IInv
  <1>2. stop[x] \in StopRec
    BY <1>1 DEF StopOK
  <1>3. /\ stop[x].pc \in {"none", "look", "stale"} => stop[x] \in Looking
        /\ stop[x].pc \in {"reset", "signal", "wait", "read", "room"} =>
              stop[x] \in Pursuing
        /\ stop[x].pc \in {"release", "save"} => stop[x] \in Closing
        /\ stop[x].pc \in {"clear", "returned"} => stop[x] \in Answering
        /\ stop[x].pc \in {"none", "look", "stale", "reset", "signal", "wait",
                           "read", "room", "release", "save", "clear",
                           "returned", "failed"}
    BY <1>2 DEF StopRec, Looking, Pursuing, Closing, Answering
  <1>4. stop[x].pc \in Addressing => stop[x].rec \in Spawned /\ stop[x].since \in Nat
    BY <1>3 DEF Addressing, Pursuing, Closing, Answering
  <1>5. \A r \in Spawned : r.pid \in Shells /\ r.epoch \in Epochs /\ r.agent \in Agents
    BY DEF Spawned
  <1> QED
    BY <1>1, <1>3, <1>4, <1>5 DEF StopOK

\* A step of one stop.
LEMMA StopMoves ==
    ASSUME IInv, NEW x \in Callers, NEW w, stop' = [stop EXCEPT ![x] = w],
           start' = start, Onward, StopOK(x)',
           DOMAIN sup' = Shells, \A s \in Shells : sup'[s] = sup[s] \/ SupOK(s)',
           SessionOK', OutcomeOK', AuthorityOK', RestOK'
    PROVE  IInv'
  <1>1. /\ DOMAIN start' = Shells /\ DOMAIN stop' = Callers
        /\ \A y \in Callers : y # x => stop'[y] = stop[y]
    BY DEF IInv
  <1>2. \A s \in Shells : start'[s] = start[s] \/ StartOK(s)'
    OBVIOUS
  <1>3. \A y \in Callers : stop'[y] = stop[y] \/ StopOK(y)'
    BY <1>1
  <1> QED
    BY <1>1, <1>2, <1>3, Together

\* A stop that leaves the seat, the supervisors and the outcomes.
LEMMA StopMovesQuietly ==
    ASSUME IInv, NEW x \in Callers, NEW w, stop' = [stop EXCEPT ![x] = w],
           UNCHANGED <<start, sup, saves, authority, mail>>,
           outcome' \in {outcome, None}, session' \in {session, None},
           room' \in {NoRoom} \cup Agents, notes' \in Nat, w \in StopRec,
           w.pc \in Addressing =>
               /\ stop[x].pc \in Addressing
               /\ w.rec = stop[x].rec /\ w.since = stop[x].since,
           w.pc \in Waited => stop[x].pc \in Waited,
           w.pc \in AfterReset => stop[x].pc \in AfterReset \/ outcome' = None,
           w.pc # "save",
           w.pc \in Reporting =>
               /\ w.got.epoch \in Epochs
               /\ w.got.released => Over(w.got.epoch)
               /\ w.got.n > w.since
    PROVE  IInv'
  <1>1. UNCHANGED <<seat, exported, inbox, told>>
    BY DEF authority, mail
  <1>2. stop'[x] = w /\ DOMAIN sup' = Shells
    BY DEF IInv
  <1>3. Onward
    BY <1>1, OnwardWhenQuiet
  <1>4. StopOK(x)'
    <2>1. StopOK(x)
      BY DEF IInv
    <2>2. w.pc \in Addressing =>
             /\ w.rec.epoch \in Epochs /\ w.rec.pid \in Shells
             /\ w.since \in Nat /\ w.since <= saves
             /\ Begun(w.rec.epoch) /\ sup[w.rec.pid].pc # "none"
      BY StopFields
    <2>3. /\ Waited \subseteq Addressing /\ AfterReset \subseteq Addressing
      BY DEF Waited, AfterReset, Addressing
    <2>4. (stop[x].pc \in Addressing =>
              /\ Begun(stop[x].rec.epoch) /\ stop[x].since <= saves
              /\ sup[stop[x].rec.pid].pc # "none")'
      BY <1>1, <1>2, <2>2 DEF Begun
    <2>5. (stop[x].pc \in Waited => sup[stop[x].rec.pid].pc = "gone")'
      BY <1>2, <2>1, <2>3 DEF StopOK
    <2>6. (stop[x].pc \in AfterReset /\ outcome # None => outcome.n > stop[x].since)'
      BY <1>2, <2>1, <2>3 DEF StopOK
    <2>7. (stop[x].pc \in Reporting =>
              /\ stop[x].got.released => Over(stop[x].got.epoch)
              /\ stop[x].got.n > stop[x].since)'
      BY <1>1, <1>2 DEF Over, Begun, Holds
    <2> QED
      BY <1>2, <2>4, <2>5, <2>6, <2>7 DEF StopOK
  <1>5. SessionOK' /\ OutcomeOK' /\ AuthorityOK' /\ RestOK'
    BY <1>1, <1>3, FilesStay
  <1> QED
    BY <1>2, <1>3, <1>4, <1>5, StopMoves

\* The look, and what is done about a record whose process is gone.
LEMMA StopLookKeeps ==
    ASSUME IInv, NEW x \in Callers, StopLook(x) \/ StopStale(x)
    PROVE  IInv'
  <1>1. /\ UNCHANGED <<start, sup, saves, authority, mail, outcome, room, notes>>
        /\ session' \in {session, None}
    BY DEF StopLook, StopStale, StopUnchanged, files, authority
  <1>2. room' \in {NoRoom} \cup Agents /\ notes' \in Nat
    BY <1>1 DEF IInv, RestOK
  <1>3. stop[x].pc \in {"look", "stale"} /\ stop[x] \in Looking
    BY StopFields DEF StopLook, StopStale
  <1>4. CASE \E pc \in {"failed", "stale"} : StopAt(x, pc)
    <2>1. PICK pc \in {"failed", "stale"} : StopAt(x, pc)
      BY <1>4
    <2>2. PICK w : w = [stop[x] EXCEPT !.pc = pc]
      OBVIOUS
    <2>3. w \in Looking /\ w.pc = pc /\ stop' = [stop EXCEPT ![x] = w]
      BY <1>3, <2>1, <2>2 DEF StopAt, Looking
    <2>4. w \in StopRec
      BY <2>3 DEF StopRec, Looking
    <2> QED
      BY <1>1, <1>2, <2>3, <2>4, StopMovesQuietly
      DEF Addressing, Waited, AfterReset, Reporting
  <1>5. CASE ~\E pc \in {"failed", "stale"} : StopAt(x, pc)
    <2>1. /\ stop' = [stop EXCEPT ![x] = [pc |-> "reset", rec |-> session,
                                          since |-> saves]]
          /\ Live /\ session' = session
      BY <1>5 DEF StopLook, StopStale, files
    <2>2. UNCHANGED <<seat, exported, inbox, told>>
      BY <1>1 DEF authority, mail
    <2>3. stop'[x] = [pc |-> "reset", rec |-> session, since |-> saves]
          /\ DOMAIN sup' = Shells
      BY <1>1, <2>1 DEF IInv
    <2>4. StopOK(x)'
      BY <1>1, <2>1, <2>2, <2>3, ResetOK
    <2>5. Onward
      BY <1>1, <2>2, OnwardWhenQuiet
    <2>6. SessionOK' /\ OutcomeOK' /\ AuthorityOK' /\ RestOK'
      BY <1>1, <2>1, <2>2, <2>5, FilesStay
    <2> QED
      BY <1>1, <2>1, <2>3, <2>4, <2>5, <2>6, StopMoves
  <1> QED
    BY <1>4, <1>5

\* The reset, the outcome that is read, the room and the record.
LEMMA StopFilesKeep ==
    ASSUME IInv, NEW x \in Callers,
           StopReset(x) \/ StopRead(x) \/ StopRoom(x) \/ StopClear(x)
    PROVE  IInv'
  <1>1. /\ UNCHANGED <<start, sup, saves, authority, mail>>
        /\ session' \in {session, None} /\ outcome' \in {outcome, None}
    BY DEF StopReset, StopRead, StopRoom, StopClear, StopUnchanged, files,
           authority, Reset
  <1>2. room' \in {NoRoom} \cup Agents /\ notes' \in Nat
    <2>1. notes \in Nat /\ room \in {NoRoom} \cup Agents
      BY DEF IInv, RestOK
    <2> QED
      BY <2>1, RoomTyped DEF StopReset, StopRead, StopRoom, StopClear
  <1>3. CASE StopReset(x)
    <2>1. stop[x].pc = "reset" /\ outcome' = None /\ stop[x] \in Pursuing
      BY <1>3, StopFields DEF StopReset, Reset
    <2>2. PICK w : w = [stop[x] EXCEPT !.pc = "signal"]
      OBVIOUS
    <2>3. /\ w \in Pursuing /\ w.pc = "signal" /\ stop' = [stop EXCEPT ![x] = w]
          /\ w.rec = stop[x].rec /\ w.since = stop[x].since
      BY <1>3, <2>1, <2>2 DEF StopReset, StopAt, Pursuing
    <2>4. w \in StopRec
      BY <2>3 DEF StopRec, Pursuing
    <2> QED
      BY <1>1, <1>2, <2>1, <2>3, <2>4, StopMovesQuietly
      DEF Addressing, Waited, AfterReset, Reporting
  <1>4. CASE StopRead(x)
    <2>1. stop[x].pc = "read" /\ stop[x] \in Pursuing /\ stop[x].rec \in Spawned
          /\ stop[x].since \in Nat
      BY <1>4, StopFields DEF StopRead, Pursuing
    <2>2. CASE outcome # None
      <3>1. PICK w : w = [pc |-> "returned", rec |-> stop[x].rec,
                          since |-> stop[x].since, got |-> outcome]
        OBVIOUS
      <3>2. stop' = [stop EXCEPT ![x] = w]
        BY <1>4, <2>2, <3>1 DEF StopRead
      <3>3. /\ outcome \in Outcomes /\ outcome.epoch \in Epochs
            /\ outcome.released => Over(outcome.epoch)
        BY <2>2 DEF IInv, OutcomeOK, Outcomes
      <3>4. outcome.n > stop[x].since
        BY <2>1, <2>2 DEF IInv, StopOK, AfterReset
      <3>5. /\ w \in Answering /\ w.pc = "returned" /\ w.rec = stop[x].rec
            /\ w.since = stop[x].since /\ w.got = outcome
        BY <2>1, <3>1, <3>3 DEF Answering
      <3>6. w \in StopRec
        BY <3>5 DEF StopRec, Answering
      <3> QED
        BY <1>1, <1>2, <2>1, <3>2, <3>3, <3>4, <3>5, <3>6, StopMovesQuietly
        DEF Addressing, Waited, AfterReset, Reporting
    <2>3. CASE outcome = None
      <3>1. PICK w : w = [stop[x] EXCEPT !.pc = "room"]
        OBVIOUS
      <3>2. /\ w \in Pursuing /\ w.pc = "room" /\ stop' = [stop EXCEPT ![x] = w]
            /\ w.rec = stop[x].rec /\ w.since = stop[x].since
        BY <1>4, <2>1, <2>3, <3>1 DEF StopRead, Pursuing
      <3>3. w \in StopRec
        BY <3>2 DEF StopRec, Pursuing
      <3> QED
        BY <1>1, <1>2, <2>1, <3>2, <3>3, StopMovesQuietly
        DEF Addressing, Waited, AfterReset, Reporting
    <2> QED
      BY <2>2, <2>3
  <1>5. CASE StopRoom(x)
    <2>1. stop[x].pc = "room" /\ stop[x] \in Pursuing /\ stop[x].rec \in Spawned
          /\ stop[x].since \in Nat
      BY <1>5, StopFields DEF StopRoom, Pursuing
    <2>2. PICK written \in BOOLEAN :
             stop' = [stop EXCEPT ![x] = [pc |-> "release", rec |-> stop[x].rec,
                                          since |-> stop[x].since, note |-> written,
                                          released |-> FALSE]]
      BY <1>5 DEF StopRoom
    <2>3. PICK w : w = [pc |-> "release", rec |-> stop[x].rec,
                        since |-> stop[x].since, note |-> written,
                        released |-> FALSE]
      OBVIOUS
    <2>4. /\ w \in Closing /\ w.pc = "release" /\ stop' = [stop EXCEPT ![x] = w]
          /\ w.rec = stop[x].rec /\ w.since = stop[x].since
      BY <2>1, <2>2, <2>3 DEF Closing
    <2>5. w \in StopRec
      BY <2>4 DEF StopRec, Closing
    <2> QED
      BY <1>1, <1>2, <2>1, <2>4, <2>5, StopMovesQuietly
      DEF Addressing, Waited, AfterReset, Reporting
  <1>6. CASE StopClear(x)
    <2>1. stop[x].pc = "clear" /\ stop[x] \in Answering
      BY <1>6, StopFields DEF StopClear
    <2>2. PICK w : w = [stop[x] EXCEPT !.pc = "returned"]
      OBVIOUS
    <2>3. /\ w \in Answering /\ w.pc = "returned" /\ stop' = [stop EXCEPT ![x] = w]
          /\ w.rec = stop[x].rec /\ w.since = stop[x].since /\ w.got = stop[x].got
      BY <1>6, <2>1, <2>2 DEF StopClear, StopAt, Answering
    <2>4. w \in StopRec
      BY <2>3 DEF StopRec, Answering
    <2>5. /\ stop[x].got.epoch \in Epochs
          /\ stop[x].got.released => Over(stop[x].got.epoch)
          /\ stop[x].got.n > stop[x].since
      BY <2>1 DEF Answering, Outcomes, IInv, StopOK, Reporting
    <2> QED
      BY <1>1, <1>2, <2>1, <2>3, <2>4, <2>5, StopMovesQuietly
      DEF Addressing, Waited, AfterReset, Reporting
  <1> QED
    BY <1>3, <1>4, <1>5, <1>6

\* A stop that ends the supervisor it addresses, or signals it.
LEMMA StopReaches ==
    ASSUME IInv, NEW x \in Callers, stop[x].pc \in {"signal", "wait"},
           NEW pc \in {"wait", "read"}, StopAt(x, pc),
           NEW p \in Shells, p = stop[x].rec.pid,
           NEW r, sup'[p] = r, DOMAIN sup' = Shells,
           \A s \in Shells : s # p => sup'[s] = sup[s],
           r \in SupRec, pc = "read" \/ sup[p].pc = "gone" => r.pc = "gone",
           \/ r.pc = "gone"
           \/ r = sup[p]
           \/ /\ r.pc = sup[p].pc /\ r.pc \in {"brief", "launch", "watch", "ask"}
              /\ r.rec = sup[p].rec
              /\ r.pc \in {"watch", "ask"} => r.batch = sup[p].batch,
           UNCHANGED <<files, seat, room, notes>>, StopUnchanged
    PROVE  IInv'
  <1>1. /\ UNCHANGED <<session, outcome, saves, seat, exported, room, notes, start>>
        /\ UNCHANGED <<inbox, told>>
    BY DEF files, StopUnchanged, mail
  <1>2. /\ stop[x] \in Pursuing /\ stop[x].pc \in Addressing
        /\ sup[p].pc # "none"
    BY StopFields DEF Addressing
  <1>3. PICK w : w = [stop[x] EXCEPT !.pc = pc]
    OBVIOUS
  <1>4. /\ w \in Pursuing /\ w.pc = pc /\ stop' = [stop EXCEPT ![x] = w]
        /\ w.rec = stop[x].rec /\ w.since = stop[x].since
    BY <1>2, <1>3 DEF StopAt, Pursuing
  <1>5. w \in StopRec
    BY <1>4 DEF StopRec, Pursuing
  <1>6. stop'[x] = w
    BY <1>4 DEF IInv
  <1>7. r.pc # "none"
    BY <1>2
  <1>8. Onward
    <2>1. \A s \in Shells : /\ sup[s].pc # "none" => sup'[s].pc # "none"
                            /\ sup[s].pc = "gone" => sup'[s].pc = "gone"
                            /\ start[s].pc \in Launcher => start'[s].pc \in Launcher
      BY <1>1, <1>7
    <2> QED
      BY <1>1, <2>1, OnwardWhenQuiet
  <1>9. \A s \in Shells : sup'[s] = sup[s] \/ SupOK(s)'
    <2>1. CASE r = sup[p]
      BY <2>1
    <2>2. CASE r # sup[p]
      <3>1. SupOK(p)
        BY DEF IInv
      <3>2. r.pc # "gone" => sup[p].rec.epoch \in Epochs /\ Begun(sup[p].rec.epoch)
        BY <2>2, SupFields
      <3>3. (sup[p].pc # "none" => start[p].pc \in Launcher)'
        BY <1>1, <1>2, SupFields
      <3>4. (sup[p].pc \notin {"none", "load", "gone"} => Begun(sup[p].rec.epoch))'
        BY <1>1, <2>2, <3>2 DEF Begun
      <3>5. (/\ sup[p].pc \in {"save", "clear"} /\ sup[p].released =>
                   Over(sup[p].rec.epoch)
             /\ sup[p].pc \in {"watch", "ask"} => sup[p].batch \subseteq inbox)'
        BY <1>1, <2>2, <3>1 DEF SupOK
      <3>6. SupOK(p)'
        BY <3>3, <3>4, <3>5 DEF SupOK
      <3> QED
        BY <3>6
    <2> QED
      BY <2>1, <2>2
  <1>10. StopOK(x)'
    <2>1. StopOK(x)
      BY DEF IInv
    <2>2. (/\ Begun(stop[x].rec.epoch) /\ stop[x].since <= saves
           /\ sup[stop[x].rec.pid].pc # "none")'
      BY <1>1, <1>2, <1>4, <1>6, <1>7, <2>1 DEF StopOK, Begun
    <2>3. (stop[x].pc \in Waited => sup[stop[x].rec.pid].pc = "gone")'
      BY <1>4, <1>6 DEF Waited
    <2>4. (stop[x].pc \in AfterReset /\ outcome # None => outcome.n > stop[x].since)'
      BY <1>1, <1>4, <1>6, <2>1 DEF StopOK, AfterReset
    <2> QED
      BY <1>4, <1>5, <1>6, <2>2, <2>3, <2>4 DEF StopOK, Reporting
  <1>11. SessionOK' /\ OutcomeOK' /\ AuthorityOK' /\ RestOK'
    BY <1>1, <1>8, FilesStay
  <1> QED
    BY <1>1, <1>4, <1>8, <1>9, <1>10, <1>11, StopMoves

\* What a signal does to a supervisor that is there.
LEMMA SignalledOK ==
    ASSUME IInv, NEW p \in Shells, Alive(p), NEW r \in Signalled(sup[p])
    PROVE  /\ r \in SupRec
           /\ \/ r.pc = "gone"
              \/ r = sup[p]
              \/ /\ r.pc = sup[p].pc /\ r.pc \in {"brief", "launch", "watch", "ask"}
                 /\ r.rec = sup[p].rec
                 /\ r.pc \in {"watch", "ask"} => r.batch = sup[p].batch
  <1>1. sup[p] \in SupRec
    BY DEF IInv, SupOK
  <1>2. CASE sup[p].pc = "load"
    <2>1. r = Gone
      BY <1>2 DEF Signalled
    <2> QED
      BY <2>1 DEF Gone, SupRec
  <1>3. CASE sup[p].pc \in {"brief", "launch"}
    <2>1. sup[p] \in [pc : {"brief", "launch"}, rec : Tenures, term : BOOLEAN]
      BY <1>3, SupFields
    <2>2. r = [sup[p] EXCEPT !.term = TRUE]
      BY <1>3 DEF Signalled
    <2>3. /\ r \in [pc : {"brief", "launch"}, rec : Tenures, term : BOOLEAN]
          /\ r.pc = sup[p].pc /\ r.rec = sup[p].rec
      BY <2>1, <2>2
    <2>4. r \in SupRec
      BY <2>3 DEF SupRec
    <2> QED
      BY <1>3, <2>3, <2>4
  <1>4. CASE sup[p].pc \in {"watch", "ask"}
    <2>1. sup[p] \in Watchful \/ sup[p] \in Asking
      BY <1>4, SupFields
    <2>2. PICK a \in {FALSE, sup[p].agent} :
             r = [sup[p] EXCEPT !.term = TRUE, !.agent = a]
      BY <1>4 DEF Signalled
    <2>3. a \in BOOLEAN
      BY <2>1 DEF Watchful, Asking
    <2>4. /\ r \in Watchful \/ r \in Asking
          /\ r.pc = sup[p].pc /\ r.rec = sup[p].rec /\ r.batch = sup[p].batch
      BY <2>1, <2>2, <2>3 DEF Watchful, Asking
    <2>5. r \in SupRec
      BY <2>4 DEF SupRec, Watchful, Asking
    <2> QED
      BY <1>4, <2>4, <2>5
  <1>5. CASE sup[p].pc \notin {"load", "brief", "launch", "watch", "ask"}
    <2>1. r = sup[p]
      BY <1>5 DEF Signalled
    <2> QED
      BY <1>1, <2>1
  <1> QED
    BY <1>2, <1>3, <1>4, <1>5

\* The signal, the kill and the wait.
LEMMA StopReachesKeep ==
    ASSUME IInv, NEW x \in Callers, StopSignal(x) \/ StopKill(x) \/ StopWait(x)
    PROVE  IInv'
  <1>1. UNCHANGED <<files, seat, room, notes>> /\ StopUnchanged
    BY DEF StopSignal, StopKill, StopWait
  <1>2. stop[x].pc \in {"signal", "wait"} /\ stop[x].pc \in Addressing
    BY DEF StopSignal, StopKill, StopWait, Addressing
  <1>3. PICK p \in Shells : p = stop[x].rec.pid
    BY <1>2, StopFields
  <1>4. Gone \in SupRec /\ Gone.pc = "gone" /\ DOMAIN sup = Shells
    BY DEF Gone, SupRec, IInv
  <1>5. sup[p].pc # "none" /\ sup[p] \in SupRec
    BY <1>2, <1>3, StopFields DEF IInv, SupOK
  <1>6. ASSUME NEW pc \in {"wait", "read"}, StopAt(x, pc), sup' = [sup EXCEPT ![p] = Gone]
        PROVE  IInv'
    <2>1. /\ sup'[p] = Gone /\ DOMAIN sup' = Shells
          /\ \A s \in Shells : s # p => sup'[s] = sup[s]
      BY <1>4, <1>6
    <2> QED
      BY <1>1, <1>2, <1>3, <1>4, <1>6, <2>1, StopReaches
  <1>7. CASE StopKill(x)
    BY <1>3, <1>6, <1>7 DEF StopKill
  <1>8. CASE StopWait(x)
    <2>1. CASE Alive(p)
      BY <1>3, <1>6, <1>8, <2>1 DEF StopWait, TimedOut
    <2>2. CASE ~Alive(p)
      <3>1. sup' = sup /\ sup[p].pc = "gone" /\ StopAt(x, "read")
        BY <1>3, <1>5, <1>8, <2>2 DEF StopWait, Alive
      <3>2. /\ sup'[p] = sup[p] /\ DOMAIN sup' = Shells
            /\ \A s \in Shells : s # p => sup'[s] = sup[s]
        BY <1>4, <3>1
      <3> QED
        BY <1>1, <1>2, <1>3, <1>5, <3>1, <3>2, StopReaches
    <2> QED
      BY <2>1, <2>2
  <1>9. CASE StopSignal(x)
    <2>1. CASE Alive(p)
      <3>1. PICK r \in Signalled(sup[p]) : sup' = [sup EXCEPT ![p] = r]
        BY <1>3, <1>9, <2>1 DEF StopSignal
      <3>2. StopAt(x, "wait")
        BY <1>3, <1>9, <2>1 DEF StopSignal
      <3>3. /\ sup'[p] = r /\ DOMAIN sup' = Shells
            /\ \A s \in Shells : s # p => sup'[s] = sup[s]
        BY <1>4, <3>1
      <3>4. /\ r \in SupRec
            /\ \/ r.pc = "gone"
               \/ r = sup[p]
               \/ /\ r.pc = sup[p].pc /\ r.pc \in {"brief", "launch", "watch", "ask"}
                  /\ r.rec = sup[p].rec
                  /\ r.pc \in {"watch", "ask"} => r.batch = sup[p].batch
        BY <2>1, <3>1, SignalledOK
      <3>5. sup[p].pc # "gone"
        BY <2>1 DEF Alive
      <3> QED
        BY <1>1, <1>2, <1>3, <3>2, <3>3, <3>4, <3>5, StopReaches
    <2>2. CASE ~Alive(p)
      <3>1. StopAt(x, "failed") /\ sup' = sup /\ stop[x].pc = "signal"
        BY <1>3, <1>9, <2>2 DEF StopSignal
      <3>2. stop[x] \in Pursuing
        BY <3>1, StopFields
      <3>3. PICK w : w = [stop[x] EXCEPT !.pc = "failed"]
        OBVIOUS
      <3>4. w \in Pursuing /\ w.pc = "failed" /\ stop' = [stop EXCEPT ![x] = w]
        BY <3>1, <3>2, <3>3 DEF StopAt, Pursuing
      <3>5. w \in StopRec
        BY <3>4 DEF StopRec, Pursuing
      <3>6. /\ UNCHANGED <<start, sup, saves, authority, mail>>
            /\ outcome' = outcome /\ session' = session /\ room' = room /\ notes' = notes
        BY <1>1, <3>1 DEF StopUnchanged, files, authority
      <3>7. room' \in {NoRoom} \cup Agents /\ notes' \in Nat
        BY <3>6 DEF IInv, RestOK
      <3> QED
        BY <3>4, <3>5, <3>6, <3>7, StopMovesQuietly
        DEF Addressing, Waited, AfterReset, Reporting
    <2> QED
      BY <2>1, <2>2
  <1> QED
    BY <1>7, <1>8, <1>9

\* What the supervisor did not do: the seat is given up, then the outcome saved.
LEMMA StopFinishesKeep ==
    ASSUME IInv, NEW x \in Callers, StopRelease(x) \/ StopSave(x)
    PROVE  IInv'
  <1>1. UNCHANGED <<session, exported, room, notes, start, sup, inbox, told>>
    BY DEF StopRelease, StopSave, StopUnchanged, files, mail
  <1>2. /\ stop[x].pc \in {"release", "save"} /\ stop[x].pc \in Addressing
        /\ stop[x] \in Closing
    BY StopFields DEF StopRelease, StopSave, Addressing
  <1>3. PICK epoch \in Epochs : epoch = stop[x].rec.epoch /\ Begun(epoch)
    BY <1>2, StopFields
  <1>4. /\ stop[x].rec.pid \in Shells /\ stop[x].rec.agent \in Agents
        /\ stop[x].rec \in Spawned /\ stop[x].since \in Nat /\ stop[x].since <= saves
        /\ sup[stop[x].rec.pid].pc = "gone" /\ stop[x].note \in BOOLEAN
    BY <1>2, StopFields DEF IInv, StopOK, Waited, Closing
  <1>5. /\ \A s \in Shells : /\ sup[s].pc # "none" => sup'[s].pc # "none"
                             /\ sup[s].pc = "gone" => sup'[s].pc = "gone"
                             /\ start[s].pc \in Launcher => start'[s].pc \in Launcher
        /\ DOMAIN sup' = Shells /\ \A s \in Shells : sup'[s] = sup[s]
    BY <1>1 DEF IInv
  <1>6. CASE StopRelease(x)
    <2>1. /\ UNCHANGED <<outcome, saves>> /\ stop[x].pc = "release"
      BY <1>6 DEF StopRelease, files
    <2>0. PICK released \in BOOLEAN :
             /\ Release(epoch, released)
             /\ stop' = [stop EXCEPT ![x].pc = "save", ![x].released = released]
      BY <1>3, <1>6 DEF StopRelease
    <2>2. /\ released => Over(epoch)'
          /\ seat' = seat \/ seat' = [seat EXCEPT !.held = FALSE]
      BY <1>3, <2>0, ReleasedIsOver DEF IInv
    <2>3. /\ seat' \in [epoch : Nat, held : BOOLEAN]
          /\ seat'.held => seat'.epoch > 0
          /\ seat.epoch <= seat'.epoch
          /\ \A e \in Epochs : Begun(e) => Begun(e)'
          /\ \A e \in Epochs : Over(e) => Over(e)'
      BY <2>2, SeatGoesOn DEF IInv
    <2>4. Onward
      BY <1>1, <1>5, <2>1, <2>3 DEF Onward, IInv, OutcomeOK
    <2>5. PICK w : w = [stop[x] EXCEPT !.pc = "save", !.released = released]
      OBVIOUS
    <2>6. /\ w \in Closing /\ w.pc = "save" /\ stop' = [stop EXCEPT ![x] = w]
          /\ w.rec = stop[x].rec /\ w.since = stop[x].since /\ w.released = released
      BY <1>2, <2>0, <2>5 DEF Closing, IInv
    <2>7. w \in StopRec /\ stop'[x] = w
      BY <2>6 DEF StopRec, Closing, IInv
    <2>8. StopOK(x)'
      <3>1. outcome # None => outcome.n > stop[x].since
        BY <2>1 DEF IInv, StopOK, AfterReset
      <3>2. (/\ stop[x].rec.epoch = epoch /\ stop[x].pc = "save"
             /\ stop[x].since <= saves /\ sup[stop[x].rec.pid].pc = "gone"
             /\ outcome # None => outcome.n > stop[x].since)'
        BY <1>1, <1>3, <1>4, <2>1, <2>6, <2>7, <3>1
      <3>3. (/\ stop[x].released => Over(stop[x].rec.epoch)
             /\ Begun(stop[x].rec.epoch))'
        BY <1>3, <2>2, <2>3, <2>6, <2>7, <3>2 DEF Over, Begun, Holds
      <3> QED
        BY <2>7, <3>2, <3>3 DEF StopOK, Reporting
    <2>9. SessionOK' /\ OutcomeOK' /\ RestOK'
      BY <1>1, <2>1, <2>4, FilesStay
    <2>10. AuthorityOK'
      <3>1. seat.epoch \in Nat /\ seat'.epoch \in Nat
        BY <2>3 DEF IInv, AuthorityOK
      <3> QED
        BY <1>1, <2>3, <3>1 DEF IInv, AuthorityOK
    <2> QED
      BY <1>1, <1>5, <2>4, <2>6, <2>8, <2>9, <2>10, StopMoves
  <1>7. CASE StopSave(x)
    <2>1. /\ UNCHANGED seat
          /\ SaveOutcome(stop[x].rec, stop[x].note, stop[x].released)
          /\ stop[x].pc = "save"
          /\ stop' = [stop EXCEPT ![x] = [pc |-> "clear", rec |-> stop[x].rec,
                                          since |-> stop[x].since, got |-> outcome']]
      BY <1>7 DEF StopSave
    <2>2. stop[x].released => Over(epoch)
      BY <1>3, <2>1 DEF IInv, StopOK
    <2>3. /\ outcome' \in Outcomes /\ outcome'.n = saves + 1 /\ saves' = saves + 1
          /\ outcome'.epoch = epoch /\ outcome'.released = stop[x].released
          /\ saves \in Nat
      <3>1. saves \in Nat /\ saves + 1 \in Nat \ {0}
        BY DEF IInv, OutcomeOK
      <3> QED
        BY <1>2, <1>3, <1>4, <2>1, <3>1 DEF SaveOutcome, Outcomes, Closing
    <2>4. /\ \A e \in Epochs : Begun(e) => Begun(e)'
          /\ \A e \in Epochs : Over(e) => Over(e)'
      BY <2>1, SeatGoesOn DEF IInv
    <2>5. Onward
      BY <1>1, <1>5, <2>3, <2>4 DEF Onward
    <2>6. (stop[x].released => Over(epoch)') /\ Begun(epoch)'
      BY <1>3, <2>2, <2>4
    <2>7. OutcomeOK'
      <3>1. outcome'.epoch = epoch /\ outcome'.n <= saves' /\ saves' \in Nat
        BY <2>3
      <3> QED
        BY <2>3, <2>6, <3>1 DEF OutcomeOK, Over, Begun, Holds
    <2>8. PICK g \in Outcomes : g = outcome'
      BY <2>3
    <2>9. PICK w : w = [pc |-> "clear", rec |-> stop[x].rec,
                        since |-> stop[x].since, got |-> g]
      OBVIOUS
    <2>10. /\ w \in Answering /\ w.pc = "clear" /\ stop' = [stop EXCEPT ![x] = w]
           /\ w.rec = stop[x].rec /\ w.since = stop[x].since /\ w.got = g
      BY <1>4, <2>1, <2>8, <2>9 DEF Answering
    <2>11. w \in StopRec /\ stop'[x] = w
      BY <2>10 DEF StopRec, Answering, IInv
    <2>12. StopOK(x)'
      <3>1. (/\ stop[x].rec.epoch = epoch /\ stop[x].pc = "clear"
             /\ stop[x].got.epoch = epoch /\ stop[x].got.n > stop[x].since
             /\ stop[x].got.released = outcome.released
             /\ stop[x].since <= saves /\ sup[stop[x].rec.pid].pc = "gone")'
        BY <1>1, <1>3, <1>4, <2>3, <2>8, <2>10, <2>11
      <3>2. (/\ Begun(stop[x].rec.epoch)
             /\ stop[x].got.released => Over(stop[x].got.epoch))'
        BY <2>3, <2>6, <3>1 DEF Over, Begun, Holds
      <3> QED
        BY <2>11, <3>1, <3>2 DEF StopOK, AfterReset
    <2>13. SessionOK' /\ AuthorityOK' /\ RestOK'
      BY <1>1, <2>1, <2>5, FilesStay
    <2> QED
      BY <1>1, <1>5, <2>5, <2>7, <2>10, <2>12, <2>13, StopMoves
  <1> QED
    BY <1>6, <1>7

(***************************************************************************)
(* The operator, the messages and the notes.                               *)
(***************************************************************************)
\* A step that leaves the calls and the supervisors.
LEMMA AroundKeeps ==
    ASSUME IInv, UNCHANGED <<files, room, start, sup, stop>>,
           inbox \subseteq inbox', inbox' \subseteq Messages, told' = told,
           notes' \in Nat,
           \/ seat' = seat
           \/ seat' = [epoch |-> seat.epoch + 1, held |-> TRUE],
           DOMAIN exported' = Shells,
           \A s \in Shells : exported'[s] \in {exported[s], seat'.epoch}
    PROVE  IInv'
  <1>1. UNCHANGED <<session, outcome, saves>>
    BY DEF files
  <1>2. /\ seat' \in [epoch : Nat, held : BOOLEAN]
        /\ seat'.held => seat'.epoch > 0
        /\ seat.epoch <= seat'.epoch
        /\ \A e \in Epochs : Begun(e) => Begun(e)'
        /\ \A e \in Epochs : Over(e) => Over(e)'
    BY SeatGoesOn DEF IInv
  <1>3. Onward
    BY <1>1, <1>2 DEF Onward, IInv, OutcomeOK
  <1>4. SessionOK' /\ OutcomeOK'
    BY <1>1, <1>3, FilesStay
  <1>5. RestOK'
    BY DEF IInv, RestOK
  <1>6. AuthorityOK'
    <2>1. /\ seat.epoch \in Nat /\ seat'.epoch \in Nat
          /\ \A s \in Shells : exported[s] \in 0 .. seat.epoch
      BY <1>2 DEF IInv, AuthorityOK
    <2>2. \A s \in Shells : exported'[s] \in 0 .. seat'.epoch
      BY <1>2, <2>1
    <2> QED
      BY <1>2, <2>2 DEF AuthorityOK
  <1>7. /\ DOMAIN start' = Shells /\ DOMAIN sup' = Shells /\ DOMAIN stop' = Callers
        /\ \A s \in Shells : start'[s] = start[s] \/ StartOK(s)'
        /\ \A s \in Shells : sup'[s] = sup[s] \/ SupOK(s)'
        /\ \A x \in Callers : stop'[x] = stop[x] \/ StopOK(x)'
    BY DEF IInv
  <1> QED
    BY <1>3, <1>4, <1>5, <1>6, <1>7, Together

\* A claim, an export, a message and a note.
LEMMA OutsideKeeps ==
    ASSUME IInv,
           \/ \E s \in Shells : Claim(s) \/ Export(s)
           \/ \E m \in Messages : Arrive(m)
           \/ NoteWritten
           \/ UNCHANGED vars
    PROVE  IInv'
  <1>1. /\ notes \in Nat /\ inbox \subseteq Messages /\ DOMAIN exported = Shells
    BY DEF IInv, RestOK, AuthorityOK
  <1>2. CASE \E s \in Shells : Claim(s) \/ Export(s)
    <2>1. PICK s \in Shells : Claim(s) \/ Export(s)
      BY <1>2
    <2>2. /\ UNCHANGED <<files, room, start, sup, stop, inbox, told, notes>>
          /\ seat' = seat \/ seat' = [epoch |-> seat.epoch + 1, held |-> TRUE]
          /\ exported' = [exported EXCEPT ![s] = seat'.epoch]
      BY <2>1 DEF Claim, Export, mail
    <2>3. /\ DOMAIN exported' = Shells
          /\ \A t \in Shells : exported'[t] \in {exported[t], seat'.epoch}
      BY <1>1, <2>2
    <2> QED
      BY <1>1, <2>2, <2>3, AroundKeeps
  <1>3. CASE (\E m \in Messages : Arrive(m)) \/ NoteWritten \/ UNCHANGED vars
    <2>1. /\ UNCHANGED <<files, room, start, sup, stop, told, seat, exported>>
          /\ inbox \subseteq inbox' /\ inbox' \subseteq Messages /\ notes' \in Nat
      BY <1>1, <1>3 DEF Arrive, NoteWritten, vars, mail, authority
    <2> QED
      BY <1>1, <2>1, AroundKeeps
  <1> QED
    BY <1>2, <1>3

(***************************************************************************)
(* The theorems.                                                           *)
(***************************************************************************)
\* It holds in the beginning, when nothing was claimed, started or stopped.
LEMMA InitIInv == Init => IInv
  <1> SUFFICES ASSUME Init PROVE IInv
    OBVIOUS
  <1>1. SessionOK /\ OutcomeOK /\ AuthorityOK /\ RestOK
    BY DEF Init, SessionOK, OutcomeOK, AuthorityOK, RestOK
  <1>2. ASSUME NEW s \in Shells PROVE StartOK(s) /\ SupOK(s)
    <2>1. start[s] = [pc |-> "look"] /\ sup[s] = [pc |-> "none"]
      BY DEF Init
    <2>2. start[s] \in StartRec /\ start[s].pc = "look"
      BY <2>1 DEF StartRec
    <2>3. sup[s] \in SupRec /\ sup[s].pc = "none"
      BY <2>1 DEF SupRec
    <2> QED
      BY <2>2, <2>3 DEF StartOK, SupOK, Tenured
  <1>3. ASSUME NEW x \in Callers PROVE StopOK(x)
    <2>1. stop[x] = [pc |-> "look"] \/ stop[x] = [pc |-> "none"]
      BY DEF Init
    <2>2. stop[x] \in StopRec /\ stop[x].pc \in {"look", "none"}
      BY <2>1 DEF StopRec
    <2> QED
      BY <2>2 DEF StopOK, Addressing, Waited, AfterReset, Reporting
  <1> QED
    BY <1>1, <1>2, <1>3 DEF Init, IInv

\* Every step keeps it.
LEMMA NextKeeps == IInv /\ [Next]_vars => IInv'
  <1> SUFFICES ASSUME IInv, [Next]_vars PROVE IInv'
    OBVIOUS
  <1>1. CASE \E s \in Shells : \/ Start(s) \/ Sup(s) \/ Mail(s)
                               \/ StartDies(s) \/ AgentEnds(s) \/ SupCrashes(s)
    <2>1. PICK s \in Shells : \/ Start(s) \/ Sup(s) \/ Mail(s)
                              \/ StartDies(s) \/ AgentEnds(s) \/ SupCrashes(s)
      BY <1>1
    <2>2. CASE Start(s) \/ StartDies(s)
      BY <2>2, StartFilesKeep, StartLookKeeps, StartSpawnKeeps DEF Start
    <2>3. CASE Sup(s) \/ AgentEnds(s) \/ SupCrashes(s)
      BY <2>3, SupLaunchKeeps, SupWatchKeeps, WrapKeeps DEF Sup
    <2>4. CASE Mail(s)
      BY <2>4, MailKeeps
    <2> QED
      BY <2>1, <2>2, <2>3, <2>4
  <1>2. CASE \E x \in Callers : Stop(x)
    BY <1>2, StopLookKeeps, StopFilesKeep, StopReachesKeep, StopFinishesKeep DEF Stop
  <1>3. CASE \/ \E s \in Shells : Claim(s) \/ Export(s)
             \/ \E m \in Messages : Arrive(m)
             \/ NoteWritten
             \/ UNCHANGED vars
    BY <1>3, OutsideKeeps
  <1> QED
    BY <1>1, <1>2, <1>3 DEF Next

\* What every call knows at its place, in every reachable state: a record names
\* a tenure that began, an outcome that reports a release one that is over, and a
\* stop that has waited a supervisor that is gone.
THEOREM TenuresEnd == Spec => []IInv
  BY InitIInv, NextKeeps, PTL DEF Spec

\* The shape of the state, of the files, of the seat and of every call.
THEOREM StewardTyped == Spec => []TypeOK
  <1>1. ASSUME IInv PROVE TypeOK
    <2>1. session = None \/ (/\ session.agent \in {AgentOf[s] : s \in Shells}
                             /\ session.pid \in Shells \cup {NoPid}
                             /\ session.epoch \in 1 .. seat.epoch)
      <3>1. seat.epoch \in Nat
        BY <1>1 DEF IInv, AuthorityOK
      <3> QED
        BY <1>1, <3>1 DEF IInv, SessionOK, Tenures, Agents, Epochs, Begun
    <2>2. outcome = None \/ (/\ outcome.n \in 1 .. saves
                             /\ outcome.epoch \in 1 .. seat.epoch)
      <3>1. seat.epoch \in Nat /\ saves \in Nat
        BY <1>1 DEF IInv, AuthorityOK, OutcomeOK
      <3>2. outcome # None => /\ outcome \in Outcomes /\ outcome.n <= saves
                              /\ outcome.epoch <= seat.epoch
        BY <1>1 DEF IInv, OutcomeOK, Begun
      <3>3. \A o \in Outcomes : o.n \in Nat \ {0} /\ o.epoch \in Nat \ {0}
        BY DEF Outcomes, Epochs
      <3> QED
        BY <3>1, <3>2, <3>3
    <2>3. {notes, saves, seat.epoch} \subseteq Nat /\ seat.held \in BOOLEAN
      BY <1>1 DEF IInv, AuthorityOK, OutcomeOK, RestOK
    <2>4. ASSUME NEW s \in Shells
          PROVE  /\ exported[s] \in 0 .. seat.epoch
                 /\ start[s].pc \in {"look", "clear", "rebind", "force", "seat", "room",
                                     "save", "spawn", "record", "done"}
                 /\ sup[s].pc \in {"none", "load", "brief", "launch", "watch", "ask",
                                   "room", "release", "save", "clear", "gone"}
                 /\ sup[s].pc # "none" => start[s].pc \in {"record", "done"}
      BY <1>1, StartFields, SupFields DEF IInv, AuthorityOK, Launcher
    <2>5. \A x \in Callers :
             stop[x].pc \in {"none", "look", "stale", "reset", "signal", "wait", "read",
                             "room", "release", "save", "clear", "returned", "failed"}
      BY <1>1, StopFields
    <2>6. /\ room \in {NoRoom} \cup {AgentOf[s] : s \in Shells}
          /\ inbox \subseteq Messages /\ told \subseteq inbox
      BY <1>1 DEF IInv, RestOK, Agents
    <2> QED
      BY <2>1, <2>2, <2>3, <2>4, <2>5, <2>6 DEF TypeOK
  <1> QED
    BY <1>1, TenuresEnd, PTL

\* The outcome that a stop reports was saved after that stop looked, whoever
\* saved it: the reset comes between, and outcomes are numbered.
THEOREM ReportsAreFresh == Spec => []ReportIsFresh
  <1>1. ASSUME IInv PROVE ReportIsFresh
    BY <1>1 DEF IInv, StopOK, Reporting, Returned, ReportIsFresh
  <1> QED
    BY <1>1, TenuresEnd, PTL

\* When a stop has returned, its supervisor is gone, and if its report says that
\* the seat was released, nobody holds the seat under the epoch it reports on:
\* neither comes back.
THEOREM StopsAreFinal == Spec => []StoppedIsOver
  <1>1. ASSUME IInv PROVE StoppedIsOver
    <2> SUFFICES ASSUME NEW x \in Callers, Returned(x)
                 PROVE  /\ ~Alive(stop[x].rec.pid)
                        /\ stop[x].got.released => ~Holds(stop[x].got.epoch)
      BY DEF StoppedIsOver
    <2>1. StopOK(x) /\ stop[x].pc = "returned"
      BY <1>1 DEF IInv, Returned
    <2> QED
      BY <2>1 DEF StopOK, Waited, Reporting, Alive, Over
  <1> QED
    BY <1>1, TenuresEnd, PTL
=============================================================================
