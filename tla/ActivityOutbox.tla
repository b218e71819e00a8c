--------------------------- MODULE ActivityOutbox ---------------------------
(***************************************************************************)
(* The activity outbox (internal/agentos/activity: store.go, deliver.go).  *)
(*                                                                         *)
(* Emit and Recover hold the kernel lock activity.lock from their first    *)
(* read to their last write, so at most one operation is under way; it     *)
(* runs in a process that can be killed between any two steps, and within  *)
(* an append.  The journal is kept as the fold that load makes of its lines *)
(* (by event id, the latest line winning), and the bus (pkg/bus, outside   *)
(* this repository) is the count of copies it holds.                       *)
(*                                                                         *)
(* Abstractions.  An event id is the identity that computeID hashes:       *)
(* envelopes with the same id differ only in their routing inputs.  Wake   *)
(* outcomes other than "steered" are reporting.  A lock that is not        *)
(* obtained within lockWait changes nothing and is left out, and so are    *)
(* the readers (Tail, Since, Show), which take no lock and write nothing.  *)
(* Two records of one source and number would be sorted by their first     *)
(* lines; here either may come first, and SequencesDiffer says that there  *)
(* are no two.                                                             *)
(***************************************************************************)
EXTENDS ActivityRouting

CONSTANTS
    Envelopes,       \* the events callers may announce
    Declarations,    \* the interests subscribers may declare
    SourceOrder,     \* the alphabetical order of the sources
    MaxRecords,      \* MaxJournalRecords
    CoalesceWindow,  \* one wake per object in this time
    WakeWindow,      \* the minute of the rate limit
    MaxWakes,        \* DefaultMaxWakePerMin
    Cuts             \* what an append that does not complete can leave

Ids == {e.id : e \in Envelopes}

ASSUME OutboxConstants ==
    /\ IsFiniteSet(Envelopes) /\ IsFiniteSet(Subscribers)
    /\ \A e \in Envelopes :
          /\ e.mentions \subseteq Subscribers /\ e.assignees \subseteq Subscribers
          /\ e.owner \subseteq Subscribers /\ e.members \subseteq Subscribers
          /\ e.source \in DOMAIN SourceOrder
    /\ \A d, e \in Envelopes :
          d.id = e.id => /\ d.source = e.source /\ d.object = e.object
                         /\ d.action = e.action /\ d.actor = e.actor
    /\ MaxHop \in Nat
    /\ MaxRecords \in Nat \ {0}
    /\ CoalesceWindow \in Nat /\ WakeWindow \in Nat /\ MaxWakes \in Nat
    /\ Cuts \subseteq {"nothing", "fragment", "unended"}

VARIABLES
    interests,  \* interests.json: a function from the declared subscribers
    journal,    \* the fold of the ended lines of outbox.jsonl, by id
    tail,       \* the same of a last line without its newline: one id at most
    torn,       \* the last line has no newline
    whole,      \* history: no append has ever been cut inside its line
    op,         \* the Emit or Recover under way
    now,        \* the clock
    copies,     \* the bus: durable copies per event and subscriber
    steered,    \* history: the frames pushed into live sessions
    lapses      \* history, per event: deliveries cut short, lines lost, prunings

file == <<journal, tail, torn, whole>>
bus == <<copies, steered>>
vars == <<interests, file, op, now, bus, lapses>>

Idle == [kind |-> "idle"]
NoLine == [i \in {} |-> {}]

Lapse(ids) == lapses' = [i \in Ids |-> lapses[i] + IF i \in ids THEN 1 ELSE 0]

(***************************************************************************)
(* load: the journal folded by id, the latest line winning, and sorted by  *)
(* source and sequence.                                                    *)
(***************************************************************************)
OnFile == DOMAIN journal \cup DOMAIN tail
Load == [i \in OnFile |-> IF i \in DOMAIN tail THEN tail[i] ELSE journal[i]]

Before(r, s) ==
    LET ro == SourceOrder[r.env.source]
        so == SourceOrder[s.env.source]
    IN ro < so \/ (ro = so /\ r.seq < s.seq)

\* Mutant: the sequence continues from the number of records of the source.
NextSeqCounted(records, source) ==
    1 + Cardinality({i \in DOMAIN records : records[i].env.source = source})

NextSeq(records, source) ==
    LET seqs == {records[i].seq :
                    i \in {j \in DOMAIN records : records[j].env.source = source}}
    IN IF seqs = {} THEN 1 ELSE 1 + CHOOSE h \in seqs : \A n \in seqs : n <= h

(***************************************************************************)
(* append: O_APPEND of one line.  A line that is not ended takes the next  *)
(* append into itself, and neither can be read again.                      *)
(***************************************************************************)
Line(rec) == [i \in {rec.id} |-> rec]
Put(lines, rec) ==
    [i \in DOMAIN lines \cup {rec.id} |-> IF i = rec.id THEN rec ELSE lines[i]]

AppendRecord(rec) ==
    /\ journal' = IF torn THEN journal ELSE Put(journal, rec)
    /\ tail' = NoLine /\ torn' = FALSE /\ UNCHANGED whole
    /\ Lapse(IF torn THEN DOMAIN tail \cup {rec.id} ELSE {})

\* What the file can hold after an append that failed.
AppendCut(rec, cut) ==
    /\ UNCHANGED journal
    /\ CASE cut = "nothing" -> UNCHANGED <<tail, torn>>
         [] cut = "fragment" -> tail' = NoLine /\ torn' = TRUE
         [] cut = "unended" -> /\ tail' = IF torn THEN NoLine ELSE Line(rec)
                               /\ torn' = TRUE
    /\ whole' = (whole /\ ~torn')
    /\ Lapse({rec.id} \cup (DOMAIN tail \ DOMAIN tail'))

(***************************************************************************)
(* Emit.                                                                   *)
(***************************************************************************)
NewRecord(e) ==
    [id |-> e.id, env |-> e, seq |-> NextSeq(Load, e.source), at |-> now,
     to |-> Route(e, interests), served |-> {}, woken |-> {},
     published |-> FALSE]

\* The record being delivered, the history loaded at the start, the
\* recipients tried, the one to wake, and the events Recover still has to do.
Operation(kind, pc, rec, rest) ==
    [kind |-> kind, pc |-> pc, rec |-> rec, records |-> Load, tried |-> {},
     last |-> {}, rest |-> rest]

Announceable(e) == e.source # "activity" /\ e.hop < MaxHop

\* A new event gets its sequence and its recipients, to be journalled.
EmitNew(e) ==
    /\ op = Idle /\ Announceable(e)
    /\ e.id \notin OnFile
    /\ op' = Operation("emit", "journal", NewRecord(e), {})
    /\ UNCHANGED <<interests, file, now, bus, lapses>>

\* Mutant: an event resumed is routed again.
EmitResumedAfresh(e) ==
    /\ op = Idle /\ Announceable(e)
    /\ e.id \in OnFile /\ ~Load[e.id].published
    /\ op' = Operation("emit", "fan", [Load[e.id] EXCEPT
                                          !.to = Route(e, interests)], {})
    /\ UNCHANGED <<interests, file, now, bus, lapses>>

\* An event on file and not published is resumed with its own sequence and
\* recipients.  One that is published is a duplicate and changes nothing.
EmitResumed(e) ==
    /\ op = Idle /\ Announceable(e)
    /\ e.id \in OnFile /\ ~Load[e.id].published
    /\ op' = Operation("emit", "fan", Load[e.id], {})
    /\ UNCHANGED <<interests, file, now, bus, lapses>>

\* The record is on disk, unpublished, before the first copy is handed over.
JournalFirst ==
    /\ op # Idle /\ op.pc = "journal"
    /\ AppendRecord(op.rec)
    /\ op' = [op EXCEPT !.pc = "fan"]
    /\ UNCHANGED <<interests, now, bus>>

(***************************************************************************)
(* deliver: the recipients not served yet, the strongest reason first.     *)
(***************************************************************************)

\* Mutant: a resumed fan-out starts over from the first recipient.
WaitingAll == DOMAIN op.rec.to \ op.tried

Waiting == DOMAIN op.rec.to \ (op.rec.served \cup op.tried)
Up(s) == /\ s \in Waiting
         /\ \A t \in Waiting :
               Rank[op.rec.to[s].reason] <= Rank[op.rec.to[t].reason]

\* The inbox exists and the bus took the copy; a wake is decided after it.
Publish(s) ==
    /\ op # Idle /\ op.pc = "fan" /\ Up(s)
    /\ copies' = [copies EXCEPT ![op.rec.id][s] = @ + 1]
    /\ op' = [op EXCEPT !.rec.served = @ \cup {s}, !.tried = @ \cup {s},
                        !.pc = IF op.rec.to[s].wake THEN "wake" ELSE "fan",
                        !.last = IF op.rec.to[s].wake THEN {s} ELSE {}]
    /\ UNCHANGED <<interests, file, now, steered, lapses>>

\* Mutant: a recipient whose copy failed is woken all the same.
PublishFailsYetWakes(s) ==
    /\ op # Idle /\ op.pc = "fan" /\ Up(s)
    /\ op' = [op EXCEPT !.tried = @ \cup {s},
                        !.pc = IF op.rec.to[s].wake THEN "wake" ELSE "fan",
                        !.last = IF op.rec.to[s].wake THEN {s} ELSE {}]
    /\ UNCHANGED <<interests, file, now, bus, lapses>>

\* EnsureInbox or PublishDurable failed: the next recipient all the same.
PublishFails(s) ==
    /\ op # Idle /\ op.pc = "fan" /\ Up(s)
    /\ op' = [op EXCEPT !.tried = @ \cup {s}]
    /\ UNCHANGED <<interests, file, now, bus, lapses>>

(***************************************************************************)
(* wakeOutcome: both limits read the history loaded at the start.          *)
(***************************************************************************)
WokenBefore(s) == {i \in DOMAIN op.records : s \in op.records[i].woken}

Coalesced(s) ==
    \E i \in WokenBefore(s) :
        /\ op.records[i].env.source = op.rec.env.source
        /\ op.records[i].env.object = op.rec.env.object
        /\ now - op.records[i].at < CoalesceWindow

RateLimited(s) ==
    Cardinality({i \in WokenBefore(s) : now - op.records[i].at < WakeWindow})
        >= MaxWakes

\* A record that had outcomes on file shares its maps with the history, so a
\* later wake of the same operation counts this one; one that had none does not.
WithWake(records, s) ==
    [i \in DOMAIN records |->
        IF i = op.rec.id /\ records[i].served # {}
        THEN [records[i] EXCEPT !.served = @ \cup {s}, !.woken = @ \cup {s}]
        ELSE records[i]]

\* Steered, or unreachable, or demoted by one of the limits.
Wake(s) ==
    /\ op # Idle /\ op.pc = "wake" /\ s \in op.last
    /\ \/ /\ ~Coalesced(s) /\ ~RateLimited(s)
          /\ steered' = steered \cup {[id |-> op.rec.id, to |-> s, at |-> now]}
          /\ op' = [op EXCEPT !.rec.woken = @ \cup {s}, !.pc = "fan", !.last = {},
                              !.records = WithWake(op.records, s)]
       \/ /\ op' = [op EXCEPT !.pc = "fan", !.last = {}]
          /\ UNCHANGED steered
    /\ UNCHANGED <<interests, file, now, copies, lapses>>

Decided == [op.rec EXCEPT !.published = DOMAIN op.rec.to \subseteq op.rec.served]

AllTried == op # Idle /\ op.pc = "fan" /\ Waiting = {}

\* The event that comes first in the order of the fold.
First(i, ids, records) ==
    i \in ids /\ \A j \in ids : ~Before(records[j], records[i])

\* What Recover turns to next.
Onward ==
    \/ op.rest = {} /\ op' = Idle
    \/ \E i \in op.rest :
          /\ First(i, op.rest, op.records)
          /\ op' = [op EXCEPT !.rec = op.records[i], !.rest = @ \ {i},
                              !.tried = {}]

\* The second line: what was delivered, and whether that was everything.
Conclude ==
    /\ AllTried
    /\ AppendRecord(Decided)
    /\ \/ op.kind = "emit" /\ op' = [op EXCEPT !.pc = "prune", !.rec = Decided]
       \/ op.kind = "recover" /\ Onward
    /\ UNCHANGED <<interests, now, bus>>

(***************************************************************************)
(* prune: the first records of the sorted fold go, but never an            *)
(* unpublished one.  The record of this Emit comes after the fold.  The    *)
(* new file replaces the old in one rename.                                *)
(***************************************************************************)
Excess == Cardinality(DOMAIN op.records) + 1 - MaxRecords

Oldest(ids) ==
    /\ Cardinality(ids) = Excess
    /\ \A i \in ids, j \in DOMAIN op.records \ ids :
          ~Before(op.records[j], op.records[i])

Rewrite(gone) ==
    /\ journal' = Put([i \in DOMAIN op.records \ gone |-> op.records[i]], op.rec)
    /\ tail' = NoLine /\ torn' = FALSE /\ UNCHANGED whole
    /\ Lapse(gone)

Prune ==
    /\ op # Idle /\ op.pc = "prune"
    /\ op' = Idle
    /\ IF Excess > 0
       THEN \E ids \in SUBSET DOMAIN op.records :
                Oldest(ids) /\ Rewrite({i \in ids : op.records[i].published})
       ELSE UNCHANGED <<file, lapses>>
    /\ UNCHANGED <<interests, now, bus>>

\* Recover re-drives the records of these events.
Redrive(owing) ==
    /\ op = Idle
    /\ \E i \in owing :
          /\ First(i, owing, Load)
          /\ op' = Operation("recover", "fan", Load[i], owing \ {i})
    /\ UNCHANGED <<interests, file, now, bus, lapses>>

\* Mutant: only a delivery that reached nobody is taken for owed.
RecoverUnstarted ==
    Redrive({i \in OnFile : ~Load[i].published /\ Load[i].served = {}})

\* Every record the journal shows as owed.
Recover == Redrive({i \in OnFile : ~Load[i].published})

(***************************************************************************)
(* The process is killed, or a write fails and the operation returns.      *)
(***************************************************************************)
Killed ==
    /\ op # Idle /\ op' = Idle
    /\ Lapse(IF op.pc = "prune" THEN {} ELSE {op.rec.id})
    /\ UNCHANGED <<interests, file, now, bus>>

AppendFails(cut) ==
    /\ op # Idle /\ op' = Idle
    /\ \/ op.pc = "journal" /\ AppendCut(op.rec, cut)
       \/ AllTried /\ AppendCut(Decided, cut)
    /\ UNCHANGED <<interests, now, bus>>

(***************************************************************************)
(* Interests: a declaration replaces the former one, under the same lock.  *)
(***************************************************************************)
Subscribe(s, d) ==
    /\ op = Idle
    /\ interests' = [t \in DOMAIN interests \cup {s} |->
                        IF t = s THEN d ELSE interests[t]]
    /\ UNCHANGED <<file, op, now, bus, lapses>>

Unsubscribe(s) ==
    /\ op = Idle /\ s \in DOMAIN interests
    /\ interests' = [t \in DOMAIN interests \ {s} |-> interests[t]]
    /\ UNCHANGED <<file, op, now, bus, lapses>>

Tick == /\ now' = now + 1
        /\ UNCHANGED <<interests, file, op, bus, lapses>>

(***************************************************************************)
(* The specification.                                                      *)
(***************************************************************************)
Init ==
    /\ interests = [s \in {} |-> {}]
    /\ journal = NoLine /\ tail = NoLine /\ torn = FALSE /\ whole = TRUE
    /\ op = Idle
    /\ now = 0
    /\ copies = [i \in Ids |-> [s \in Subscribers |-> 0]]
    /\ steered = {}
    /\ lapses = [i \in Ids |-> 0]

Emit == \E e \in Envelopes : EmitNew(e) \/ EmitResumed(e)
Delivery == \/ JournalFirst \/ Conclude \/ Prune
            \/ \E s \in Subscribers : Publish(s) \/ Wake(s)
Interests == \E s \in Subscribers :
                 Unsubscribe(s) \/ \E d \in Declarations : Subscribe(s, d)
Faults == \/ Killed
          \/ \E cut \in Cuts : AppendFails(cut)
          \/ \E s \in Subscribers : PublishFails(s)

Next == Emit \/ Delivery \/ Recover \/ Interests \/ Faults \/ Tick

Spec == Init /\ [][Next]_vars

\* A process that holds the lock goes on, and `bashy activity recover`, which
\* nothing here runs by itself, is run again and again until it gets the lock.
Fairness == WF_vars(Delivery) /\ SF_vars(Recover)

(***************************************************************************)
(* Correctness.                                                            *)
(***************************************************************************)
RecordOK(r) ==
    /\ r.id \in Ids /\ r.env \in Envelopes /\ r.env.id = r.id
    /\ r.seq \in Nat \ {0} /\ r.at \in Nat
    /\ DOMAIN r.to \subseteq Subscribers
    /\ r.served \subseteq DOMAIN r.to /\ r.woken \subseteq r.served
    /\ r.published \in BOOLEAN

FoldOK(records) ==
    \A i \in DOMAIN records : RecordOK(records[i]) /\ records[i].id = i

\* The shape of the state: every line that can be read is a record, and an
\* operation under way works on one.
TypeOK ==
    /\ DOMAIN interests \subseteq Subscribers
    /\ FoldOK(journal) /\ FoldOK(tail)
    /\ torn \in BOOLEAN /\ (DOMAIN tail # {} => torn)
    /\ whole \in BOOLEAN /\ (whole => ~torn)
    /\ op # Idle =>
          /\ op.kind \in {"emit", "recover"}
          /\ op.pc \in {"journal", "fan", "wake", "prune"}
          /\ RecordOK(op.rec)
          /\ FoldOK(op.records)
          /\ op.tried \cup op.last \subseteq Subscribers
          /\ op.rest \subseteq DOMAIN op.records
    /\ now \in Nat
    /\ copies \in [Ids -> [Subscribers -> Nat]]
    /\ lapses \in [Ids -> Nat]

\* No two records on file of one source share a sequence number, whatever was
\* pruned between them (nextSeq reads only what the fold still holds).
SequencesDiffer ==
    \A i, j \in OnFile :
        i # j /\ Load[i].env.source = Load[j].env.source
        => Load[i].seq # Load[j].seq

\* A recipient holds a second copy of an event only where an operation on it
\* was cut short before its second line, a torn line took its record along, or
\* the record was pruned away.
CopiesAreExcused ==
    \A i \in Ids, s \in Subscribers : copies[i][s] <= 1 + lapses[i]

\* What Emit says of itself: called again after a crash, a retry or a replay it
\* "delivers nothing twice", and Recover does not publish again to those served.
DeliversNothingTwice == \A i \in Ids, s \in Subscribers : copies[i][s] <= 1

\* Nobody is interrupted about an event that is not in the inbox yet: the
\* wake is strictly downstream of the durable append.
WakeFollowsCopy == \A f \in steered : copies[f.id][f.to] > 0

\* What a recipient is left with, across retries, failures and kills: no copy
\* too many, and no frame pushed at it before its copy (deliver).
DeliveredRight == CopiesAreExcused /\ WakeFollowsCopy

\* However many relationships compete, one that justifies a wake is not lost
\* to one that does not (reasonPrecedence against wakeReasons).
WakeIsNotOutranked ==
    \A e \in Envelopes :
        LET routed == Route(e, interests)
        IN \A s \in DOMAIN routed :
              (\E r \in WakeReasons : /\ <<s, r>> \in Claims(e, interests)
                                      /\ Offered(s, r, e, interests)
                                      /\ MayWake(s, r, interests))
              => routed[s].wake

\* The journal and the bus implement the at-least-once channel: what is owed
\* is what the fold shows unpublished, with the recipients on file.
Channel == INSTANCE AtLeastOnceDelivery WITH
    owed <- [i \in {j \in OnFile : ~Load[j].published} |-> DOMAIN Load[i].to],
    settled <- {j \in OnFile : Load[j].published}

\* Refinement, until an append is first cut inside its line: a debt is taken
\* on once, kept with its recipients through every kill and every failure,
\* settled only when all of them are served, and only settled events are
\* pruned.
OutboxIsAChannel ==
    Channel!ChannelInit /\ [][whole' => Channel!ChannelNext]_(Channel!channel)

\* As long as Recover is run again and again, no event stays on file unserved,
\* past whatever failed, was killed or was torn before.
EveryDebtIsSettled == Channel!EveryDebtIsSettled

\* What store.go says of the crash window: a copy that was handed over left
\* evidence on file, until its record is pruned.
CopiesLeaveEvidence ==
    \A i \in Ids : (\E s \in Subscribers : copies[i][s] > 0) => i \in OnFile
=============================================================================
