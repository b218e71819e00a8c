----------------------------- MODULE InboxWatch -----------------------------
(***************************************************************************)
(* The unified inbox of one registered identity: the watch that consumes   *)
(* it (internal/agentos/inbox.go, inbox_poll.go, inbox_owner.go), the      *)
(* per-record delivery at a turn of a managed session (inbox_turn.go), the *)
(* change notifier, and the lease and room card that make one process the  *)
(* reader.                                                                 *)
(*                                                                         *)
(* Two sources stand for all: the message board, and a Meet room in which  *)
(* posts of the reader itself and copies seeded from the board occur.  The *)
(* stores (bus, meet, room, coord; outside this repository) are modelled   *)
(* by what the calls here rely on: a cursor per source that only moves     *)
(* forward, a mark per acknowledged record, a kernel lease that ends with  *)
(* its process, and a card that is live as long as the session it names,   *)
(* or, filed by a --peek, as long as the process that holds it.            *)
(*                                                                         *)
(* Left out: reads that consume nothing (--peek but for its card, --wait,  *)
(* filters), relay mail, role and bus buffers (they are acknowledged like  *)
(* the board), the seat heartbeat, and hosts whose process tree cannot be  *)
(* read.                                                                   *)
(***************************************************************************)
EXTENDS Integers, Sequences, FiniteSets, FiniteSetsExt

CONSTANTS
    Sessions,  \* agent sessions that can start a watch for the identity
    Limit      \* --limit: records shown per source, 0 for no cap

ASSUME InboxConstants == Limit \in Nat

Sources == {"mb", "meet"}

VARIABLES
    log,       \* per source, the sequence of its records
    cursor,    \* per source, the high-water mark of the reader
    marks,     \* mailbox state: the records acknowledged one by one
    epoch,     \* the generation the notifier counts
    queued,    \* a native event is on its way to the notifier
    armed,     \* the notifier watches every store
    gate,      \* inboxPollGate
    rescan,    \* fullRescan has passed since the last full read
    alive,     \* the sessions that live
    card,      \* the room card of the identity
    watch,     \* the watch process, which holds the lease
    turn,      \* the delivery at a turn boundary
    rendered,  \* history: the records written to some reader
    missed,    \* history: an event was lost since the gate sampled the epoch
    orphaned   \* history: batches written since the watch's session ended

stores == <<log, cursor, marks>>
notifier == <<epoch, queued, armed>>
polling == <<gate, rescan, missed>>
identity == <<alive, card>>
vars == <<stores, notifier, polling, identity, watch, turn, rendered, orphaned>>

NoWatch == [pc |-> "off"]
NoTurn == [pc |-> "none"]
NoCard == [mode |-> "none"]
Unsampled == [sampled |-> FALSE, sum |-> 0]

(***************************************************************************)
(* Records.  A record is named by its source and sequence number; it is    *)
(* addressed to the reader or to all, it may be the reader's own, and a    *)
(* seeded copy carries the sequence number of its original.                *)
(***************************************************************************)
Records == [directed : BOOLEAN, own : BOOLEAN, origin : Nat]
At(r) == log[r[1]][r[2]]
InLog(src) == {src} \X DOMAIN log[src]

\* What the source lists as unread: its own posts are left out.
Unread(src) == {r \in InLog(src) : r[2] > cursor[src] /\ ~At(r).own}

\* Records acknowledged one by one are passed over, and so is a copy of one.
Pending(src, acked) ==
    {r \in Unread(src) : /\ r \notin acked
                         /\ At(r).origin > 0 => <<"mb", At(r).origin>> \notin acked}

\* The order of a source: directed records first, each group by sequence.
Ahead(r, s) == \/ At(r).directed /\ ~At(s).directed
               \/ At(r).directed = At(s).directed /\ r[2] < s[2]

Capped(src, acked) == Limit > 0 /\ Cardinality(Pending(src, acked)) > Limit

Shown(src, acked) ==
    {r \in Pending(src, acked) :
        Capped(src, acked) =>
            Cardinality({s \in Pending(src, acked) : Ahead(s, r)}) < Limit}

Highest(rs) == Max({0} \cup {r[2] : r \in rs})

\* Mutant: the watermark is the next sequence number, not the last one read.
ThroughNext(src) == Len(log[src]) + 1

\* How far the acknowledgement of the whole source goes.
Through(src) == IF src = "mb" THEN Highest(Unread(src)) ELSE Len(log[src])

\* The acknowledgements a source adds to a batch: its watermark, or one for
\* each record that is shown; for a room that holds nothing but posts of the
\* reader, their watermark, silently.
AcksOf(src, acked) ==
    LET shown == Shown(src, acked)
        whole == [kind |-> "whole", src |-> src, through |-> Through(src)]
    IN IF shown # {}
       THEN IF Capped(src, acked)
            THEN {[kind |-> "item", event |-> r] : r \in shown}
            ELSE {whole}
       ELSE IF /\ src = "meet"
               /\ Unread(src) = {} /\ Through(src) > cursor[src]
            THEN {whole} ELSE {}

IsCopyOf(s, r) == s[1] = "meet" /\ r[1] = "mb" /\ At(s).origin = r[2]

\* collapseProvenanceDuplicates: a copy is dropped when its original is shown.
Collapsed(raw) == {s \in raw : ~\E r \in raw : IsCopyOf(s, r)}

\* MarkSeen and MarkSeenThrough never move back.
Forward(src, n) == cursor' = [cursor EXCEPT ![src] = Max({@, n})]

\* acknowledgeTurnInboxItem marks the record and its copies in the batch ...
MarkedWith(r, raw) == {r} \cup {s \in raw : IsCopyOf(s, r)}

\* ... and advances each source over the acknowledged prefix of the batch.
Prefix(src, raw) ==
    LET events == {r \in raw : r[1] = src}
        done == {r \in events : \A s \in events : s[2] <= r[2] => s \in marks}
    IN Highest(done)

AdvanceOver(r, raw) ==
    LET touched == {s[1] : s \in MarkedWith(r, raw)}
    IN cursor' = [src \in Sources |->
                     IF src \in touched THEN Max({cursor[src], Prefix(src, raw)})
                     ELSE cursor[src]]

(***************************************************************************)
(* Writers.  A record is on file before its native event, which may be     *)
(* lost.                                                                   *)
(***************************************************************************)
Write(src, record, isLost) ==
    /\ log' = [log EXCEPT ![src] = Append(@, record)]
    /\ queued' = (queued \/ (armed /\ ~isLost))
    /\ missed' = (missed \/ (armed /\ isLost))
    /\ UNCHANGED <<cursor, marks, epoch, armed, gate, rescan, identity, watch,
                   turn, rendered, orphaned>>

Post(isLost) ==
    \/ \E directed \in BOOLEAN :
          Write("mb", [directed |-> directed, own |-> FALSE, origin |-> 0], isLost)
    \/ \E own \in BOOLEAN :
          Write("meet", [directed |-> FALSE, own |-> own, origin |-> 0], isLost)
    \/ \E n \in DOMAIN log["mb"] :
          Write("meet", [directed |-> FALSE, own |-> FALSE, origin |-> n], isLost)

\* inboxChangeNotifier.run
Notify ==
    /\ queued
    /\ queued' = FALSE /\ epoch' = epoch + 1
    /\ UNCHANGED <<stores, armed, polling, identity, watch, turn, rendered,
                   orphaned>>

RescanDue ==
    /\ watch.pc \notin {"off", "join"}
    /\ ~rescan /\ rescan' = TRUE
    /\ UNCHANGED <<stores, notifier, gate, missed, identity, watch, turn,
                   rendered, orphaned>>

(***************************************************************************)
(* registerInboxWatcher: the lease, then the card.                         *)
(***************************************************************************)
CardLive == card.mode = "peek" \/ (card # NoCard /\ card.session \in alive)

\* recordInboxPeekClaim: a --peek of session s files a card of its own, unless
\* a card of somebody else is live.  A managed session's is never of s: that
\* it would carry the digest of s is not in this repository.
Peek(s) ==
    /\ s \in alive
    /\ CardLive => card.mode # "foreman" /\ card.session = s
    /\ card' = [mode |-> "peek", session |-> s]
    /\ UNCHANGED <<stores, notifier, polling, alive, watch, turn, rendered,
                   orphaned>>

\* The process that holds it is a `sleep 300`, and ends with or without s.
PeekLapses ==
    /\ card.mode = "peek" /\ card' = NoCard
    /\ UNCHANGED <<stores, notifier, polling, alive, watch, turn, rendered,
                   orphaned>>

Claim(s) ==
    /\ watch = NoWatch /\ s \in alive
    /\ watch' = [pc |-> "join", session |-> s]
    /\ UNCHANGED <<stores, notifier, polling, identity, turn, rendered, orphaned>>

Attend(adopted) ==
    /\ watch' = [pc |-> "check", session |-> watch.session, adopted |-> adopted]
    /\ armed' \in BOOLEAN
    /\ UNCHANGED <<epoch, queued, polling, orphaned>>

\* A card that is not live is replaced.
Join ==
    /\ watch.pc = "join" /\ ~CardLive
    /\ card' = [mode |-> "watch", session |-> watch.session]
    /\ Attend("no")
    /\ UNCHANGED <<stores, alive, turn, rendered>>

\* The card of the session the watch runs in is shared: that of a managed
\* session, whose holder must be an ancestor of the watch, or one filed by a
\* --peek with the digest of the session.
Shared ==
    card.mode \in {"foreman", "peek"} /\ card.session = watch.session

Adopt ==
    /\ watch.pc = "join" /\ CardLive /\ Shared
    /\ Attend(card.mode)
    /\ UNCHANGED <<stores, identity, turn, rendered>>

Refused ==
    /\ watch.pc = "join" /\ CardLive /\ ~Shared
    /\ watch' = NoWatch
    /\ UNCHANGED <<stores, notifier, polling, identity, turn, rendered, orphaned>>

\* The card is retired as its holder, unless it was adopted.
Retired == NoCard

\* The notifier and the gate end with their process.
Gone ==
    /\ watch' = NoWatch
    /\ epoch' = 1 /\ queued' = FALSE /\ armed' = FALSE
    /\ gate' = Unsampled /\ rescan' = FALSE /\ missed' = FALSE
    /\ orphaned' = 0

Leave ==
    /\ Gone
    /\ card' = IF watch.adopted # "no" \/ card.mode # "watch" THEN card ELSE Retired

(***************************************************************************)
(* runUnifiedInboxWithPoll, one turn of its loop.                          *)
(***************************************************************************)
\* Mutant: the owner is looked at before the first read only.
OwnerLiveAtFirst ==
    watch.adopted = "peek" \/ watch.session \in alive \/ gate.sampled

\* ownerLive: a watch that adopted a --peek's card looks at nothing.
OwnerLive == watch.adopted = "peek" \/ watch.session \in alive

Check ==
    /\ watch.pc = "check"
    /\ IF OwnerLive
       THEN /\ watch' = [watch EXCEPT !.pc = "sample"]
            /\ UNCHANGED <<notifier, polling, card, orphaned>>
       ELSE Leave
    /\ UNCHANGED <<stores, alive, turn, rendered>>

\* Mutant: there is no periodic rescan.
DueOnChange(ok) == ~ok \/ ~gate.sampled \/ epoch # gate.sum

Due(ok) == ~ok \/ ~gate.sampled \/ epoch # gate.sum \/ rescan

\* fingerprint arms what is not armed yet; gate.due samples before the read.
Sample ==
    /\ watch.pc = "sample"
    /\ armed' \in {TRUE, armed}
    /\ IF Due(armed')
       THEN /\ watch' = [pc |-> "board", session |-> watch.session,
                         adopted |-> watch.adopted, sum |-> epoch, ok |-> armed']
            /\ missed' = FALSE
       ELSE watch' = [watch EXCEPT !.pc = "wait"] /\ UNCHANGED missed
    /\ UNCHANGED <<stores, epoch, queued, gate, rescan, identity, turn, rendered,
                   orphaned>>

\* The snapshot reads the marks and the board first, then the rooms.
ReadBoard ==
    /\ watch.pc = "board"
    /\ watch' = [pc |-> "meet", session |-> watch.session,
                 adopted |-> watch.adopted, sum |-> watch.sum, ok |-> watch.ok,
                 acked |-> marks, raw |-> Shown("mb", marks),
                 acks |-> AcksOf("mb", marks)]
    /\ UNCHANGED <<stores, notifier, polling, identity, turn, rendered, orphaned>>

\* Mutant: the gate is committed with what the notifier says after the read.
CommittedAfresh == [sampled |-> watch.ok, sum |-> epoch]

Committed == [sampled |-> watch.ok, sum |-> watch.sum]

ReadMeet ==
    /\ watch.pc = "meet"
    /\ LET raw == watch.raw \cup Shown("meet", watch.acked)
       IN watch' = [pc |-> IF Collapsed(raw) # {} THEN "render" ELSE "ack",
                    session |-> watch.session, adopted |-> watch.adopted,
                    raw |-> raw, acks |-> watch.acks \cup AcksOf("meet", watch.acked)]
    /\ gate' = Committed /\ rescan' = FALSE
    /\ UNCHANGED <<stores, notifier, missed, identity, turn, rendered, orphaned>>

Render ==
    /\ watch.pc = "render"
    /\ rendered' = rendered \cup Collapsed(watch.raw)
    /\ orphaned' = orphaned + IF watch.session \in alive THEN 0 ELSE 1
    /\ watch' = [watch EXCEPT !.pc = "ack"]
    /\ UNCHANGED <<stores, notifier, polling, identity, turn>>

\* Mutant: the watermark is where the source ends when it is acknowledged.
WatermarkNow(ack) == Len(log[ack.src])

Watermark(ack) == ack.through

\* The acknowledgements, the board's before the room's.  That of a record
\* marks it and its copies, then advances their sources.
OnBoard(ack) == (IF ack.kind = "whole" THEN ack.src ELSE ack.event[1]) = "mb"

FirstOf(acks) == CHOOSE a \in acks : OnBoard(a) \/ ~\E b \in acks : OnBoard(b)

Ack ==
    /\ watch.pc = "ack" /\ watch.acks # {}
    /\ LET a == FirstOf(watch.acks)
       IN IF a.kind = "whole"
          THEN /\ Forward(a.src, Watermark(a))
               /\ watch' = [watch EXCEPT !.acks = @ \ {a}]
               /\ UNCHANGED marks
          ELSE IF a.event \notin marks
          THEN /\ marks' = marks \cup MarkedWith(a.event, watch.raw)
               /\ UNCHANGED <<cursor, watch>>
          ELSE /\ AdvanceOver(a.event, watch.raw)
               /\ watch' = [watch EXCEPT !.acks = @ \ {a}]
               /\ UNCHANGED marks
    /\ UNCHANGED <<log, notifier, polling, identity, turn, rendered, orphaned>>

\* The pause before the next turn of the loop, which a change cuts short.
Pause ==
    /\ \/ watch.pc = "wait"
       \/ watch.pc = "ack" /\ watch.acks = {}
    /\ watch' = [pc |-> "check", session |-> watch.session,
                 adopted |-> watch.adopted]
    /\ UNCHANGED <<stores, notifier, polling, identity, turn, rendered, orphaned>>

\* Interrupted or out of time while it pauses; a store or a write failed.
Ends ==
    /\ watch.pc \in {"wait", "board", "meet", "render", "ack"}
    /\ Leave
    /\ UNCHANGED <<stores, alive, turn, rendered>>

\* The process is killed: the kernel frees the lease, nobody the card.
Killed ==
    /\ watch # NoWatch /\ Gone
    /\ card' = IF card.mode = "watch" /\ watch.pc # "join"
               THEN [card EXCEPT !.mode = "left"] ELSE card
    /\ UNCHANGED <<stores, alive, turn, rendered>>

SessionEnds(s) ==
    /\ s \in alive /\ alive' = alive \ {s}
    /\ UNCHANGED <<stores, notifier, polling, card, watch, turn, rendered,
                   orphaned>>

(***************************************************************************)
(* unifiedTurnItems: at a turn boundary records are admitted and delivered *)
(* one by one, in any order, and acknowledged each.                        *)
(***************************************************************************)
Everything == UNION {Pending(src, marks) : src \in Sources}

TurnStart ==
    /\ turn = NoTurn /\ Everything # {}
    /\ turn' = [pc |-> "admit", raw |-> Everything]
    /\ UNCHANGED <<stores, notifier, polling, identity, watch, rendered, orphaned>>

TurnDeliver(r) ==
    /\ turn.pc = "admit" /\ r \in Collapsed(turn.raw)
    /\ rendered' = rendered \cup {r}
    /\ turn' = [pc |-> "mark", raw |-> turn.raw, event |-> r]
    /\ UNCHANGED <<stores, notifier, polling, identity, watch, orphaned>>

TurnMark ==
    /\ turn.pc = "mark"
    /\ marks' = marks \cup MarkedWith(turn.event, turn.raw)
    /\ turn' = [turn EXCEPT !.pc = "advance"]
    /\ UNCHANGED <<log, cursor, notifier, polling, identity, watch, rendered,
                   orphaned>>

TurnAdvance ==
    /\ turn.pc = "advance"
    /\ AdvanceOver(turn.event, turn.raw)
    /\ turn' = [pc |-> "admit", raw |-> turn.raw]
    /\ UNCHANGED <<log, marks, notifier, polling, identity, watch, rendered,
                   orphaned>>

\* The turn is over, or its process ends anywhere.
TurnEnds ==
    /\ turn # NoTurn /\ turn' = NoTurn
    /\ UNCHANGED <<stores, notifier, polling, identity, watch, rendered, orphaned>>

(***************************************************************************)
(* The specification.                                                      *)
(***************************************************************************)
Init ==
    /\ log = [src \in Sources |-> <<>>]
    /\ cursor = [src \in Sources |-> 0]
    /\ marks = {}
    /\ epoch = 1 /\ queued = FALSE /\ armed = FALSE
    /\ gate = Unsampled /\ rescan = FALSE
    /\ alive = Sessions
    /\ card \in {NoCard} \cup [mode : {"foreman", "peek"},
                                session : Sessions \cup {"gone"}]
    /\ watch = NoWatch /\ turn = NoTurn
    /\ rendered = {} /\ missed = FALSE /\ orphaned = 0

Loop == \/ Join \/ Adopt \/ Refused
        \/ Check \/ Sample \/ ReadBoard \/ ReadMeet \/ Render \/ Ack \/ Pause

Turn == \/ TurnStart \/ TurnMark \/ TurnAdvance \/ TurnEnds
        \/ \E src \in Sources : \E r \in InLog(src) : TurnDeliver(r)

Disturbance == \/ \E s \in Sessions : SessionEnds(s) \/ Peek(s)
               \/ Ends \/ Killed

Next == \/ Loop \/ Turn \/ Notify \/ RescanDue \/ Disturbance \/ PeekLapses
        \/ \E s \in Sessions : Claim(s)
        \/ \E isLost \in BOOLEAN : Post(isLost)

Spec == Init /\ [][Next]_vars

\* The watch goes on, its timers run out, and an event that is not lost is
\* delivered.  Turns are taken or not.
Fairness == WF_vars(Loop) /\ WF_vars(Notify) /\ WF_vars(RescanDue)

(***************************************************************************)
(* Correctness.                                                            *)
(***************************************************************************)
AllRecords == UNION {InLog(src) : src \in Sources}

\* The shape of the state.  A card that names a watch is that of the watch
\* under way: whoever leaves retires it, and only a kill leaves it behind.
TypeOK ==
    /\ log \in [Sources -> Seq(Records)]
    /\ cursor \in [Sources -> Nat]
    /\ \A src \in Sources : cursor[src] <= Len(log[src])
    /\ marks \subseteq AllRecords /\ rendered \subseteq AllRecords
    /\ epoch \in Nat \ {0} /\ orphaned \in Nat
    /\ {queued, armed, rescan, missed} \subseteq BOOLEAN
    /\ gate \in [sampled : BOOLEAN, sum : Nat]
    /\ alive \subseteq Sessions
    /\ watch.pc \in {"off", "join", "check", "sample", "board", "meet", "render",
                     "ack", "wait"}
    /\ turn.pc \in {"none", "admit", "mark", "advance"}
    /\ card.mode \in {"none", "foreman", "peek", "watch", "left"}

\* A record that was acknowledged, by a cursor or by a mark, was written to
\* some reader, or is a copy of one that was, or is the reader's own.
ConsumedWasShown ==
    \A r \in AllRecords :
        r[2] <= cursor[r[1]] \/ r \in marks =>
            \/ r \in rendered
            \/ At(r).own
            \/ At(r).origin > 0 /\ <<"mb", At(r).origin>> \in rendered

\* A watch that pauses with its gate up to date has nothing left to show,
\* unless a native event was lost.
QuietMeansNothingNew ==
    /\ watch.pc = "wait" /\ gate.sampled
    /\ gate.sum = epoch /\ ~queued /\ ~missed
    => \A src \in Sources : Pending(src, marks) = {}

\* The watch shares the card of a --peek: its owner is not looked at.
Unguarded == watch.pc \notin {"off", "join"} /\ watch.adopted = "peek"

\* A watch whose session has ended drains at most the batch it was reading, when
\* it has an owner to look at: a card of its own, or a managed session's.
OrphanStops == Unguarded \/ orphaned <= 1

\* "A watch registered to NAME stops itself once the agent session that started
\* it is no longer its parent or ancestor": whatever card it goes by.
EveryOrphanStops == orphaned <= 1

\* Every record reaches a reader as long as a watch goes on, even when the
\* native event was lost.
EveryRecordIsShown ==
    \A src \in Sources : \A n \in 1 .. 2 :
        (n \in DOMAIN log[src] /\ watch # NoWatch)
            ~> (\/ <<src, n>> \notin Pending(src, marks)
                \/ watch = NoWatch)
=============================================================================
