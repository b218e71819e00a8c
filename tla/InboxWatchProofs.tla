--------------------------- MODULE InboxWatchProofs ---------------------------
(***************************************************************************)
(* Proofs about InboxWatch, for any number of sessions, records and watches *)
(* one after the other, whatever events are lost and whoever is killed:     *)
(* without a limit on the records shown (--limit 0), nothing is             *)
(* acknowledged that no reader was shown, a watch that pauses with its gate *)
(* up to date has nothing left to show, and one whose session is gone       *)
(* leaves.                                                                  *)
(***************************************************************************)
EXTENDS InboxWatch, WellFoundedInduction, TLAPS

(***************************************************************************)
(* The invariant.  It says of the processes at work how their state relates *)
(* to the stores: nothing a reader goes on to acknowledge is news to all.  *)
(***************************************************************************)
Events == Sources \X Nat
Adoptions == {"no", "foreman", "peek"}
Whole == [kind : {"whole"}, src : Sources, through : Nat]

\* The watch has the fields of its place in the loop, and so has the turn.
WatchOK ==
    \/ watch = NoWatch
    \/ watch \in [pc : {"join"}, session : Sessions]
    \/ watch \in [pc : {"check", "sample", "wait"}, session : Sessions,
                  adopted : Adoptions]
    \/ watch \in [pc : {"board"}, session : Sessions, adopted : Adoptions,
                  sum : Nat, ok : BOOLEAN]
    \/ watch \in [pc : {"meet"}, session : Sessions, adopted : Adoptions,
                  sum : Nat, ok : BOOLEAN, acked : SUBSET Events,
                  raw : SUBSET Events, acks : SUBSET Whole]
    \/ watch \in [pc : {"render", "ack"}, session : Sessions, adopted : Adoptions,
                  raw : SUBSET Events, acks : SUBSET Whole]

TurnOK ==
    \/ turn = NoTurn
    \/ turn \in [pc : {"admit"}, raw : SUBSET Events]
    \/ turn \in [pc : {"mark", "advance"}, raw : SUBSET Events, event : Events]

CardOK ==
    card \in {NoCard} \cup [mode : {"foreman", "peek", "watch", "left"},
                            session : Sessions \cup {"gone"}]

\* The board holds neither posts of the reader nor copies.
BoardOK == \A n \in DOMAIN log["mb"] : ~log["mb"][n].own /\ log["mb"][n].origin = 0

Reading == {"meet", "render"}
Holding == {"meet", "render", "ack"}

\* A record that some reader was shown, itself or its original, or its own.
Seen(r) == \/ r \in rendered
           \/ At(r).own
           \/ At(r).origin > 0 /\ <<"mb", At(r).origin>> \in rendered

\* What the watch is to acknowledge is in its batch, until that is written, or
\* was seen before.
BatchIsAll ==
    /\ watch.pc \in Reading => watch.raw \subseteq AllRecords
    /\ watch.pc = "meet" => /\ watch.acked \subseteq marks
                            /\ \A r \in watch.raw : r[1] = "mb"
                            /\ \A a \in watch.acks : a.src = "mb"
    /\ watch.pc \in Holding =>
          \A a \in watch.acks :
             /\ a.through <= Len(log[a.src])
             /\ \A r \in InLog(a.src) : r[2] <= a.through =>
                   \/ watch.pc \in Reading /\ r \in watch.raw
                   \/ Seen(r)

\* The turn has every record up to the last of a source that it has any of,
\* but for those that were seen before, and delivers before it marks.
TurnIsAll ==
    turn.pc # "none" =>
       /\ turn.raw \subseteq AllRecords
       /\ \A s \in turn.raw : \A r \in InLog(s[1]) :
             r[2] <= s[2] => r \in turn.raw \/ Seen(r)
       /\ turn.pc \in {"mark", "advance"} => turn.event \in rendered

\* What was sampled is not ahead of the notifier, which watches every store.
SampleIsPast ==
    /\ watch.pc \in {"off", "join"} => ~gate.sampled
    /\ gate.sampled => armed /\ gate.sum <= epoch
    /\ watch.pc \in {"board", "meet"} => (watch.ok => armed) /\ watch.sum <= epoch

\* Nothing was written since the generation was sampled.
StillSince(sampled, sum) == sampled /\ sum = epoch /\ ~queued /\ ~missed

\* The acknowledgements under way cover what is pending in a source.
Covered(src) ==
    \A r \in Pending(src, marks) :
        \E a \in watch.acks : a.src = src /\ r[2] <= a.through

\* If nothing was written since then, what is pending is being read.
PendingIsRead ==
    /\ watch.pc \in {"check", "sample", "wait"} /\ StillSince(gate.sampled, gate.sum)
          => \A src \in Sources : Pending(src, marks) = {}
    /\ watch.pc = "meet" /\ StillSince(watch.ok, watch.sum) => Covered("mb")
    /\ watch.pc \in {"render", "ack"} /\ StillSince(gate.sampled, gate.sum)
          => \A src \in Sources : Covered(src)

IInv ==
    /\ TypeOK /\ WatchOK /\ TurnOK /\ CardOK /\ BoardOK
    /\ ConsumedWasShown /\ BatchIsAll /\ TurnIsAll
    /\ SampleIsPast /\ PendingIsRead

(***************************************************************************)
(* Maxima.                                                                 *)
(***************************************************************************)
\* A set of numbers with an upper bound has a largest one.
LEMMA MaxIsLargest ==
    ASSUME NEW S \in SUBSET Nat, S # {}, NEW b \in Nat, \A x \in S : x <= b
    PROVE  Max(S) \in S /\ \A x \in S : x <= Max(S)
  <1> DEFINE Bounds == {n \in Nat : \A x \in S : x <= n}
             Less == {ss \in Nat \X Nat : ss[1] < ss[2]}
  <1>1. IsWellFoundedOn(Less, Nat)
    BY NatLessThanWellFounded DEF OpToRel
  <1>2. Bounds \subseteq Nat /\ Bounds # {}
    OBVIOUS
  <1>3. PICK m \in Bounds : \A k \in Bounds : ~(<<k, m>> \in Less)
    <2> HIDE DEF Bounds, Less
    <2> QED
      BY <1>1, <1>2, WFMin
  <1>4. m \in S
    <2>1. SUFFICES ASSUME m \notin S PROVE FALSE
      OBVIOUS
    <2>2. PICK x \in S : TRUE
      OBVIOUS
    <2>3. x <= m /\ x # m
      BY <2>1, <2>2
    <2>4. m - 1 \in Nat
      BY <2>3
    <2>5. \A y \in S : y <= m - 1
      BY <2>1
    <2>6. m - 1 \in Bounds /\ <<m - 1, m>> \in Less
      BY <2>4, <2>5
    <2> QED
      BY <1>3, <2>6
  <1>5. \E z \in S : \A y \in S : z >= y
    BY <1>3, <1>4
  <1> QED
    BY <1>5 DEF Max

\* The larger of two numbers.
LEMMA MaxOfTwo ==
    ASSUME NEW m \in Nat, NEW n \in Nat
    PROVE  Max({m, n}) = IF m >= n THEN m ELSE n
  BY DEF Max

\* The highest of a source's records is that of one of them, or 0.
LEMMA HighestIsReached ==
    ASSUME NEW rs, \A r \in rs : r[2] \in Nat,
           NEW b \in Nat, \A r \in rs : r[2] <= b
    PROVE  /\ Highest(rs) \in 0 .. b
           /\ Highest(rs) = 0 \/ \E r \in rs : r[2] = Highest(rs)
           /\ \A r \in rs : r[2] <= Highest(rs)
  <1> DEFINE S == {0} \cup {r[2] : r \in rs}
  <1>1. S \in SUBSET Nat /\ S # {} /\ \A x \in S : x <= b
    OBVIOUS
  <1>2. Max(S) \in S /\ \A x \in S : x <= Max(S)
    <2> HIDE DEF S
    <2> QED
      BY <1>1, MaxIsLargest
  <1>3. Highest(rs) = Max(S)
    BY DEF Highest
  <1>4. Max(S) = 0 \/ \E r \in rs : r[2] = Max(S)
    BY <1>2
  <1>5. \A r \in rs : r[2] <= Max(S)
    BY <1>2
  <1>6. Max(S) \in Nat /\ Max(S) <= b
    BY <1>1, <1>2
  <1> HIDE DEF S
  <1> QED
    BY <1>3, <1>4, <1>5, <1>6

(***************************************************************************)
(* Records, and what is known of them.                                     *)
(***************************************************************************)
\* A record is named by its source and its number.
LEMMA RecordsNamed ==
    ASSUME TypeOK
    PROVE  /\ \A r : r \in AllRecords <=> \E src \in Sources : r \in InLog(src)
           /\ \A src \in Sources : \A r \in InLog(src) :
                 /\ r[1] = src /\ r[2] \in 1 .. Len(log[src]) /\ r[2] \in Nat
                 /\ r = <<src, r[2]>> /\ r \in Events /\ At(r) = log[src][r[2]]
           /\ \A src \in Sources : \A n \in 1 .. Len(log[src]) :
                 <<src, n>> \in InLog(src)
           /\ \A src \in Sources : Len(log[src]) \in Nat
  <1>1. \A src \in Sources : /\ log[src] \in Seq(Records)
                             /\ DOMAIN log[src] = 1 .. Len(log[src])
                             /\ Len(log[src]) \in Nat
    BY DEF TypeOK
  <1>2. \A r : r \in AllRecords <=> \E src \in Sources : r \in InLog(src)
    BY DEF AllRecords
  <1>3. ASSUME NEW src \in Sources, NEW r \in InLog(src)
        PROVE  /\ r[1] = src /\ r[2] \in 1 .. Len(log[src]) /\ r[2] \in Nat
               /\ r = <<src, r[2]>> /\ r \in Events /\ At(r) = log[src][r[2]]
    BY <1>1, <1>3 DEF InLog, Events, At
  <1>4. ASSUME NEW src \in Sources, NEW n \in 1 .. Len(log[src])
        PROVE  <<src, n>> \in InLog(src)
    BY <1>1 DEF InLog
  <1> QED
    BY <1>1, <1>2, <1>3, <1>4

\* What is pending, unread and the reader's.
LEMMA PendingMembers ==
    ASSUME NEW src, NEW acked
    PROVE  \A r : r \in Pending(src, acked) <=>
               /\ r \in InLog(src) /\ r[2] > cursor[src] /\ ~At(r).own
               /\ r \notin acked
               /\ At(r).origin > 0 => <<"mb", At(r).origin>> \notin acked
  BY DEF Pending, Unread

\* While no record is added and nothing is acknowledged back, no more is
\* pending.
LEMMA PendingShrinks ==
    ASSUME TypeOK, TypeOK', log' = log, marks \subseteq marks',
           \A src \in Sources : cursor[src] <= cursor'[src]
    PROVE  \A src \in Sources : Pending(src, marks)' \subseteq Pending(src, marks)
  <1> SUFFICES ASSUME NEW src \in Sources, NEW r \in Pending(src, marks)'
               PROVE  r \in Pending(src, marks)
    OBVIOUS
  <1>1. /\ r \in InLog(src) /\ r[2] > cursor'[src] /\ ~At(r).own
        /\ r \notin marks'
        /\ At(r).origin > 0 => <<"mb", At(r).origin>> \notin marks'
    BY DEF Pending, Unread, InLog, At
  <1>2. r[2] \in Nat /\ cursor[src] \in Nat /\ cursor'[src] \in Nat
    BY <1>1, RecordsNamed DEF TypeOK
  <1>3. r[2] > cursor[src]
    BY <1>1, <1>2
  <1> QED
    BY <1>1, <1>3, PendingMembers

\* What was seen stays seen.
LEMMA SeenKept ==
    ASSUME log' = log, rendered \subseteq rendered'
    PROVE  \A r : Seen(r) => Seen(r)'
  BY DEF Seen, At

\* A record that was passed over, by its cursor or its mark, or because its
\* original was marked, was seen.
LEMMA PassedWasSeen ==
    ASSUME TypeOK, BoardOK, ConsumedWasShown,
           NEW src \in Sources, NEW r \in InLog(src), NEW acked,
           acked \subseteq marks, r \notin Pending(src, acked)
    PROVE  Seen(r)
  <1>1. r \in AllRecords /\ r[1] = src /\ r[2] \in Nat /\ cursor[src] \in Nat
    BY RecordsNamed DEF TypeOK
  <1>2. CASE r[2] <= cursor[src] \/ r \in marks
    BY <1>1, <1>2 DEF ConsumedWasShown, Seen
  <1>3. CASE At(r).own
    BY <1>3 DEF Seen
  <1>4. CASE At(r).origin > 0 /\ <<"mb", At(r).origin>> \in acked
    <2> DEFINE o == <<"mb", At(r).origin>>
    <2>1. o \in marks /\ o \in AllRecords
      BY <1>4 DEF TypeOK
    <2>2. PICK s \in Sources : o \in InLog(s)
      BY <2>1, RecordsNamed
    <2>3. o[1] = s /\ o[1] = "mb"
      BY <2>2, RecordsNamed
    <2>4. o[2] \in DOMAIN log["mb"] /\ At(o) = log["mb"][o[2]]
      BY <2>2, <2>3 DEF InLog, At
    <2>5. ~At(o).own /\ ~(At(o).origin > 0)
      BY <2>4 DEF BoardOK
    <2>6. o \in rendered
      BY <2>1, <2>5 DEF ConsumedWasShown
    <2> QED
      BY <1>4, <2>6 DEF Seen
  <1>5. CASE r[2] > cursor[src]
    BY <1>2, <1>3, <1>4, <1>5, PendingMembers
  <1> QED
    BY <1>1, <1>2, <1>5

(***************************************************************************)
(* Steps that leave the stores and what was shown as they are.             *)
(***************************************************************************)
Quiet == UNCHANGED <<stores, turn, rendered>>

\* What is known of the readers' work stays known.
LEMMA ReadersStay ==
    ASSUME IInv, Quiet
    PROVE  TurnOK' /\ BoardOK' /\ ConsumedWasShown' /\ TurnIsAll'
  <1> USE DEF IInv, Quiet, stores
  <1>1. TurnOK' /\ BoardOK'
    BY DEF TurnOK, BoardOK
  <1>2. ConsumedWasShown'
    BY DEF ConsumedWasShown, AllRecords, InLog, At
  <1>3. TurnIsAll'
    BY DEF TurnIsAll, AllRecords, InLog, Seen, At
  <1> QED
    BY <1>1, <1>2, <1>3

\* The types of the stores stay.
LEMMA StoresTyped ==
    ASSUME TypeOK, Quiet
    PROVE  /\ log' \in [Sources -> Seq(Records)]
           /\ cursor' \in [Sources -> Nat]
           /\ \A src \in Sources : cursor'[src] <= Len(log'[src])
           /\ marks' \subseteq AllRecords' /\ rendered' \subseteq AllRecords'
           /\ turn'.pc \in {"none", "admit", "mark", "advance"}
  BY DEF TypeOK, Quiet, stores, AllRecords, InLog

\* The fields of the watch at each place.
LEMMA WatchFields ==
    ASSUME WatchOK
    PROVE  /\ watch.pc \in {"off", "join", "check", "sample", "board", "meet",
                            "render", "ack", "wait"}
           /\ watch.pc = "off" => watch = NoWatch
           /\ watch.pc = "join" => watch \in [pc : {"join"}, session : Sessions]
           /\ watch.pc \in {"check", "sample", "wait"} =>
                 watch \in [pc : {"check", "sample", "wait"}, session : Sessions,
                           adopted : Adoptions]
           /\ watch.pc = "board" =>
                 watch \in [pc : {"board"}, session : Sessions,
                           adopted : Adoptions, sum : Nat, ok : BOOLEAN]
           /\ watch.pc = "meet" =>
                 watch \in [pc : {"meet"}, session : Sessions,
                           adopted : Adoptions, sum : Nat, ok : BOOLEAN,
                           acked : SUBSET Events, raw : SUBSET Events,
                           acks : SUBSET Whole]
           /\ watch.pc \in {"render", "ack"} =>
                 watch \in [pc : {"render", "ack"}, session : Sessions,
                           adopted : Adoptions, raw : SUBSET Events,
                           acks : SUBSET Whole]
  <1>1. CASE watch = NoWatch
    BY <1>1 DEF NoWatch
  <1>2. CASE watch # NoWatch
    BY <1>2 DEF WatchOK
  <1> QED
    BY <1>1, <1>2

\* What is pending stays pending.
LEMMA PendingStays ==
    ASSUME Quiet
    PROVE  \A src \in Sources : Pending(src, marks)' = Pending(src, marks)
  BY DEF Quiet, stores, Pending, Unread, InLog, At

\* A batch that goes on as it is stays a whole one.
LEMMA BatchStays ==
    ASSUME IInv, Quiet, watch' = watch
    PROVE  WatchOK' /\ BatchIsAll'
  <1>1. WatchOK'
    BY DEF IInv, WatchOK
  <1>2. BatchIsAll'
    BY DEF IInv, Quiet, stores, BatchIsAll, AllRecords, InLog, Seen, At
  <1> QED
    BY <1>1, <1>2

\* A place in the loop where there is no batch.
LEMMA NoBatch ==
    ASSUME watch'.pc \notin Holding
    PROVE  BatchIsAll'
  BY DEF BatchIsAll, Holding, Reading

\* A watch that is over takes its notifier and its gate along.
LEMMA GoneKeeps ==
    ASSUME IInv, Gone, Quiet, UNCHANGED alive, CardOK'
    PROVE  IInv'
  <1>1. /\ watch' = NoWatch /\ watch'.pc = "off"
        /\ gate' = Unsampled /\ ~gate'.sampled
    BY DEF Gone, NoWatch, Unsampled
  <1>2. card'.mode \in {"none", "foreman", "peek", "watch", "left"}
    BY DEF CardOK, NoCard
  <1>3. TypeOK'
    <2>1. {queued', armed', rescan', missed'} \subseteq BOOLEAN
      BY DEF Gone
    <2>2. epoch' \in Nat \ {0} /\ orphaned' \in Nat
      BY DEF Gone
    <2>3. gate' \in [sampled : BOOLEAN, sum : Nat]
      BY <1>1 DEF Unsampled
    <2> QED
      BY <1>1, <1>2, <2>1, <2>2, <2>3, StoresTyped DEF IInv, TypeOK
  <1>4. WatchOK' /\ BatchIsAll'
    BY <1>1, NoBatch DEF WatchOK, Holding
  <1>5. SampleIsPast' /\ PendingIsRead'
    BY <1>1 DEF SampleIsPast, PendingIsRead, Gone
  <1> QED
    BY <1>3, <1>4, <1>5, ReadersStay DEF IInv

\* The watch leaves of itself and retires its card.
LEMMA LeaveKeeps ==
    ASSUME IInv, Leave, Quiet, UNCHANGED alive
    PROVE  IInv'
  <1>1. CardOK'
    BY DEF Leave, Retired, IInv, CardOK, NoCard
  <1> QED
    BY <1>1, GoneKeeps DEF Leave

\* The watch is interrupted, fails or is killed.
LEMMA EndsKeeps ==
    ASSUME IInv, Ends \/ Killed
    PROVE  IInv'
  <1>1. CASE Ends
    BY <1>1, LeaveKeeps DEF Ends, Quiet
  <1>2. CASE Killed
    <2>1. CardOK'
      <3>1. CASE card = NoCard
        BY <1>2, <3>1 DEF Killed, NoCard, CardOK
      <3>2. CASE card \in [mode : {"foreman", "peek", "watch", "left"},
                           session : Sessions \cup {"gone"}]
        BY <1>2, <3>2 DEF Killed, CardOK
      <3> QED
        BY <3>1, <3>2 DEF IInv, CardOK
    <2> QED
      BY <1>2, <2>1, GoneKeeps DEF Killed, Quiet
  <1> QED
    BY <1>1, <1>2

\* The steps that come before the first look: no gate, and nothing read.
LEMMA JoinKeeps ==
    ASSUME IInv, (\E s \in Sessions : Claim(s)) \/ Join \/ Adopt \/ Refused
    PROVE  IInv'
  <1>1. Quiet /\ UNCHANGED <<epoch, queued, polling, alive, orphaned>>
    BY DEF Claim, Join, Adopt, Refused, Attend, Quiet, notifier, identity
  <1>2. watch.pc \in {"off", "join"}
    <2>1. NoWatch.pc = "off"
      BY DEF NoWatch
    <2> QED
      BY <2>1 DEF Claim, Join, Adopt, Refused
  <1>3. ~gate.sampled
    BY <1>2 DEF IInv, SampleIsPast
  <1>4. armed' \in BOOLEAN
    BY DEF Claim, Join, Adopt, Refused, Attend, notifier, IInv, TypeOK
  <1>5. WatchOK' /\ watch'.pc \in {"off", "join", "check"}
    <2>1. CASE \E s \in Sessions : Claim(s)
      BY <2>1 DEF Claim, WatchOK
    <2>2. CASE Join \/ Adopt
      <3>1. watch \in [pc : {"join"}, session : Sessions]
        BY <2>2, WatchFields DEF Join, Adopt, IInv
      <3>2. \E adopted \in Adoptions :
              watch' = [pc |-> "check", session |-> watch.session,
                        adopted |-> adopted]
        <4>1. CASE Join
          BY <4>1 DEF Join, Attend, Adoptions
        <4>2. CASE Adopt
          BY <4>2 DEF Adopt, Shared, Attend, Adoptions
        <4> QED
          BY <2>2, <4>1, <4>2
      <3> QED
        BY <3>1, <3>2 DEF WatchOK
    <2>3. CASE Refused
      BY <2>3 DEF Refused, WatchOK, NoWatch
    <2> QED
      BY <2>1, <2>2, <2>3
  <1>6. CardOK'
    <2>1. CASE Join
      <3>1. watch.session \in Sessions
        BY <2>1, WatchFields DEF Join, IInv
      <3> QED
        BY <2>1, <3>1 DEF Join, CardOK
    <2>2. CASE ~Join
      BY <2>2 DEF Claim, Adopt, Refused, identity, IInv, CardOK
    <2> QED
      BY <2>1, <2>2
  <1>7. card'.mode \in {"none", "foreman", "peek", "watch", "left"}
    BY <1>6 DEF CardOK, NoCard
  <1>8. TypeOK'
    BY <1>1, <1>4, <1>5, <1>7, StoresTyped DEF IInv, TypeOK, polling
  <1>9. BatchIsAll' /\ SampleIsPast' /\ PendingIsRead'
    BY <1>1, <1>3, <1>5, NoBatch DEF Holding, SampleIsPast, PendingIsRead,
           StillSince, polling
  <1> QED
    BY <1>1, <1>5, <1>6, <1>8, <1>9, ReadersStay DEF IInv

\* The notifier counts one more generation, beyond every sample.
LEMMA NotifyKeeps ==
    ASSUME IInv, Notify
    PROVE  IInv'
  <1>1. Quiet /\ UNCHANGED <<armed, polling, identity, watch, orphaned>>
        /\ epoch' = epoch + 1 /\ queued' = FALSE
    BY DEF Notify, Quiet
  <1>2. TypeOK'
    <2>1. /\ epoch' \in Nat \ {0} /\ gate' = gate /\ orphaned' = orphaned
          /\ watch' = watch /\ alive' = alive /\ card' = card
      BY <1>1 DEF IInv, TypeOK, polling, identity
    <2>2. {queued', armed', rescan', missed'} \subseteq BOOLEAN
      BY <1>1 DEF IInv, TypeOK, polling
    <2> QED
      BY <1>1, <2>1, <2>2, StoresTyped DEF IInv, TypeOK
  <1>3. CardOK'
    BY <1>1 DEF IInv, CardOK, identity
  <1>4. epoch \in Nat /\ gate.sum \in Nat
    BY DEF IInv, TypeOK
  <1>5. watch.pc \in {"board", "meet"} => watch.sum \in Nat
    BY WatchFields DEF IInv
  <1>6. SampleIsPast'
    BY <1>1, <1>4, <1>5 DEF IInv, SampleIsPast, polling
  <1>7. PendingIsRead'
    BY <1>1, <1>4, <1>5 DEF IInv, SampleIsPast, PendingIsRead, StillSince, polling
  <1> QED
    BY <1>1, <1>2, <1>3, <1>6, <1>7, BatchStays, ReadersStay DEF IInv

\* A card is filed by a --peek, or its holder ends.
LEMMA PeekKeeps ==
    ASSUME IInv, PeekLapses \/ \E s \in Sessions : Peek(s)
    PROVE  IInv'
  <1>1. Quiet /\ UNCHANGED <<notifier, polling, alive, watch, orphaned>>
    BY DEF Peek, PeekLapses, Quiet
  <1>2. CardOK' /\ card'.mode \in {"none", "foreman", "peek", "watch", "left"}
    BY DEF Peek, PeekLapses, CardOK, NoCard
  <1>3. TypeOK'
    BY <1>1, <1>2, StoresTyped DEF IInv, TypeOK, notifier, polling
  <1>4. SampleIsPast'
    BY <1>1 DEF IInv, SampleIsPast, notifier, polling
  <1>5. PendingIsRead'
    BY <1>1, PendingStays DEF IInv, PendingIsRead, StillSince, Covered, Sources,
           notifier, polling
  <1> QED
    BY <1>1, <1>2, <1>3, <1>4, <1>5, BatchStays, ReadersStay DEF IInv

\* The rescan timer runs out, or a session ends.
LEMMA EnvironmentKeeps ==
    ASSUME IInv, RescanDue \/ \E s \in Sessions : SessionEnds(s)
    PROVE  IInv'
  <1>1. Quiet /\ UNCHANGED <<notifier, gate, missed, card, watch, orphaned>>
        /\ alive' \subseteq alive /\ rescan' \in BOOLEAN
    BY DEF RescanDue, SessionEnds, Quiet, identity, polling, IInv, TypeOK
  <1>2. TypeOK'
    BY <1>1, StoresTyped DEF IInv, TypeOK, notifier
  <1>3. CardOK' /\ SampleIsPast'
    BY <1>1 DEF IInv, CardOK, SampleIsPast, notifier
  <1>4. PendingIsRead'
    BY <1>1, PendingStays DEF IInv, PendingIsRead, StillSince, Covered, Sources,
           notifier
  <1> QED
    BY <1>1, <1>2, <1>3, <1>4, BatchStays, ReadersStay DEF IInv

(***************************************************************************)
(* The loop of the watch.                                                  *)
(***************************************************************************)
\* The owner is gone and the watch leaves, or it lives and nothing is written.
LEMMA CheckKeeps ==
    ASSUME IInv, Check
    PROVE  IInv'
  <1>1. Quiet /\ alive' = alive /\ watch.pc = "check"
    BY DEF Check, Quiet, Leave
  <1>2. CASE ~OwnerLive
    BY <1>1, <1>2, LeaveKeeps DEF Check
  <1>3. CASE OwnerLive
    <2>1. /\ UNCHANGED <<notifier, polling, card, orphaned>>
          /\ watch' = [watch EXCEPT !.pc = "sample"]
      BY <1>3 DEF Check
    <2>2. watch \in [pc : {"check", "sample", "wait"}, session : Sessions,
                     adopted : Adoptions]
      BY <1>1, WatchFields DEF IInv
    <2>3. WatchOK' /\ watch'.pc = "sample" /\ watch'.session = watch.session
      BY <2>1, <2>2 DEF WatchOK
    <2>5. TypeOK' /\ CardOK'
      BY <1>1, <2>1, <2>3, StoresTyped DEF IInv, TypeOK, CardOK, notifier, polling
    <2>6. SampleIsPast' /\ BatchIsAll'
      BY <1>1, <2>1, <2>3, NoBatch DEF IInv, SampleIsPast,
             notifier, polling, Holding
    <2>7. PendingIsRead'
      BY <1>1, <2>1, <2>3, PendingStays DEF IInv, PendingIsRead, StillSince,
             notifier, polling
    <2> QED
      BY <1>1, <2>3, <2>5, <2>6, <2>7, ReadersStay DEF IInv
  <1> QED
    BY <1>2, <1>3

\* The gate is due, or the watch waits with a gate that was.
LEMMA SampleKeeps ==
    ASSUME IInv, Sample
    PROVE  IInv'
  <1>0. armed' \in BOOLEAN /\ (armed => armed')
    <2>1. armed \in BOOLEAN
      BY DEF IInv, TypeOK
    <2>2. armed' = TRUE \/ armed' = armed
      BY DEF Sample
    <2> QED
      BY <2>1, <2>2
  <1>1. /\ Quiet /\ watch.pc = "sample"
        /\ UNCHANGED <<epoch, queued, gate, rescan, identity, orphaned>>
    BY DEF Sample, Quiet
  <1>2. watch \in [pc : {"check", "sample", "wait"}, session : Sessions,
                   adopted : Adoptions]
    BY <1>1, WatchFields DEF IInv
  <1>4. gate'.sampled => armed' /\ gate'.sum <= epoch'
    BY <1>0, <1>1 DEF IInv, SampleIsPast
  <1>5. epoch \in Nat /\ epoch' = epoch
    BY <1>1 DEF IInv, TypeOK
  <1>6. CardOK'
    BY <1>1 DEF IInv, CardOK, identity
  <1>7. ASSUME watch'.pc \in {"board", "wait"}, missed' \in BOOLEAN
        PROVE  TypeOK' /\ BatchIsAll'
    <2>1. {queued, rescan} \subseteq BOOLEAN
      BY DEF IInv, TypeOK
    <2>2. {queued', armed', rescan', missed'} \subseteq BOOLEAN
      BY <1>0, <1>1, <1>7, <2>1
    <2> QED
      BY <1>1, <1>7, <2>2, StoresTyped, NoBatch DEF IInv, TypeOK, identity, Holding
  <1>8. CASE Due(armed')
    <2>1. /\ watch' = [pc |-> "board", session |-> watch.session,
                       adopted |-> watch.adopted, sum |-> epoch, ok |-> armed']
          /\ missed' = FALSE
      BY <1>8 DEF Sample
    <2>2. WatchOK' /\ watch'.pc = "board"
      BY <1>0, <1>1, <1>2, <1>5, <2>1 DEF WatchOK
    <2>3. SampleIsPast' /\ PendingIsRead'
      BY <1>4, <1>5, <2>1 DEF SampleIsPast, PendingIsRead
    <2> QED
      BY <1>1, <1>6, <1>7, <2>1, <2>2, <2>3, ReadersStay DEF IInv
  <1>9. CASE ~Due(armed')
    <2>1. watch' = [watch EXCEPT !.pc = "wait"] /\ missed' = missed
      BY <1>9 DEF Sample
    <2>2. WatchOK' /\ watch'.pc = "wait"
      BY <1>2, <2>1 DEF WatchOK
    <2>3. SampleIsPast'
      BY <1>4, <2>2 DEF SampleIsPast
    <2>4. PendingIsRead'
      BY <1>1, <2>1, <2>2, PendingStays DEF IInv, PendingIsRead, StillSince
    <2>5. missed' \in BOOLEAN
      BY <2>1 DEF IInv, TypeOK
    <2> QED
      BY <1>1, <1>6, <1>7, <2>2, <2>3, <2>4, <2>5, ReadersStay DEF IInv
  <1> QED
    BY <1>8, <1>9

\* All that was read is acknowledged when the watch pauses.
LEMMA PauseKeeps ==
    ASSUME IInv, Pause
    PROVE  IInv'
  <1>1. /\ Quiet /\ UNCHANGED <<notifier, polling, identity, orphaned>>
        /\ watch' = [pc |-> "check", session |-> watch.session,
                     adopted |-> watch.adopted]
        /\ watch.pc = "wait" \/ (watch.pc = "ack" /\ watch.acks = {})
    BY DEF Pause, Quiet
  <1>2. watch.session \in Sessions /\ watch.adopted \in Adoptions
    BY <1>1, WatchFields DEF IInv
  <1>3. WatchOK' /\ watch'.pc = "check" /\ watch'.session = watch.session
    BY <1>1, <1>2 DEF WatchOK
  <1>4. TypeOK' /\ CardOK'
    BY <1>1, <1>3, StoresTyped DEF IInv, TypeOK, CardOK, notifier, polling, identity
  <1>5. SampleIsPast' /\ BatchIsAll'
    BY <1>1, <1>3, NoBatch DEF IInv, SampleIsPast, notifier, polling, Holding
  <1>7. StillSince(gate.sampled, gate.sum) =>
           \A src \in Sources : Pending(src, marks) = {}
    <2>1. CASE watch.pc = "wait"
      BY <2>1 DEF IInv, PendingIsRead
    <2>2. CASE watch.pc = "ack" /\ watch.acks = {}
      BY <2>2 DEF IInv, PendingIsRead, Covered
    <2> QED
      BY <1>1, <2>1, <2>2
  <1>8. PendingIsRead'
    BY <1>1, <1>3, <1>7, PendingStays DEF PendingIsRead, StillSince, notifier,
           polling
  <1> QED
    BY <1>1, <1>3, <1>4, <1>5, <1>8, ReadersStay DEF IInv

(***************************************************************************)
(* A record is written.                                                    *)
(***************************************************************************)
\* The logs grow at their ends.
LEMMA LogGrows ==
    ASSUME TypeOK, NEW src \in Sources, NEW record \in Records, NEW isLost,
           Write(src, record, isLost)
    PROVE  /\ log' \in [Sources -> Seq(Records)]
           /\ \A s \in Sources :
                 /\ Len(log'[s]) \in Nat /\ Len(log[s]) <= Len(log'[s])
                 /\ DOMAIN log'[s] = 1 .. Len(log'[s])
                 /\ \A n \in 1 .. Len(log[s]) : log'[s][n] = log[s][n]
                 /\ \A n \in 1 .. Len(log'[s]) :
                       n \in 1 .. Len(log[s]) \/ (s = src /\ log'[s][n] = record)
           /\ \A s \in Sources :
                 /\ InLog(s) \subseteq InLog(s)'
                 /\ \A r \in InLog(s)' :
                       /\ r \in InLog(s) \/ r[2] > Len(log[s])
                       /\ r[1] = s /\ r[2] \in Nat
           /\ AllRecords \subseteq AllRecords'
           /\ \A r \in AllRecords : At(r)' = At(r)
  <1>1. /\ log' = [log EXCEPT ![src] = Append(log[src], record)]
        /\ log \in [Sources -> Seq(Records)]
    BY DEF Write, TypeOK
  <1>2. log' \in [Sources -> Seq(Records)]
    BY <1>1
  <1>3. ASSUME NEW s \in Sources
        PROVE  /\ Len(log'[s]) \in Nat /\ Len(log[s]) <= Len(log'[s])
               /\ DOMAIN log'[s] = 1 .. Len(log'[s])
               /\ DOMAIN log[s] = 1 .. Len(log[s]) /\ Len(log[s]) \in Nat
               /\ \A n \in 1 .. Len(log[s]) : log'[s][n] = log[s][n]
               /\ \A n \in 1 .. Len(log'[s]) :
                     n \in 1 .. Len(log[s]) \/ (s = src /\ log'[s][n] = record)
    <2>1. CASE s = src
      <3>1. log'[s] = Append(log[s], record) /\ log[s] \in Seq(Records)
        BY <1>1, <2>1
      <3> QED
        BY <2>1, <3>1
    <2>2. CASE s # src
      <3>1. log'[s] = log[s] /\ log[s] \in Seq(Records)
        BY <1>1, <2>2
      <3> QED
        BY <3>1
    <2> QED
      BY <2>1, <2>2
  <1>4. ASSUME NEW s \in Sources
        PROVE  /\ InLog(s) \subseteq InLog(s)'
               /\ \A r \in InLog(s)' :
                     /\ r \in InLog(s) \/ r[2] > Len(log[s])
                     /\ r[1] = s /\ r[2] \in Nat
    BY <1>3 DEF InLog
  <1>5. AllRecords \subseteq AllRecords'
    BY <1>4 DEF AllRecords
  <1>6. ASSUME NEW r \in AllRecords
        PROVE  At(r)' = At(r)
    <2>1. PICK s \in Sources : r \in InLog(s)
      BY RecordsNamed
    <2>2. r[1] = s /\ r[2] \in 1 .. Len(log[s])
      BY <2>1, RecordsNamed
    <2> QED
      BY <1>3, <2>2 DEF At
  <1> QED
    BY <1>2, <1>3, <1>4, <1>5, <1>6

\* The new record is beyond every cursor, mark, batch and turn; and what was
\* read is up to date no more, for its event is on its way or was lost.
LEMMA WriteKeeps ==
    ASSUME IInv, NEW src \in Sources, NEW record \in Records,
           NEW isLost \in BOOLEAN, Write(src, record, isLost),
           src = "mb" => ~record.own /\ record.origin = 0
    PROVE  IInv'
  <1>1. UNCHANGED <<cursor, marks, epoch, armed, gate, rescan, identity, watch,
                    turn, rendered, orphaned>>
    BY DEF Write
  <1>2. TypeOK /\ BoardOK /\ ConsumedWasShown /\ BatchIsAll /\ TurnIsAll
    BY DEF IInv
  <1>3. /\ log' \in [Sources -> Seq(Records)]
        /\ \A s \in Sources :
              /\ Len(log'[s]) \in Nat /\ Len(log[s]) <= Len(log'[s])
              /\ DOMAIN log'[s] = 1 .. Len(log'[s])
              /\ \A n \in 1 .. Len(log[s]) : log'[s][n] = log[s][n]
              /\ \A n \in 1 .. Len(log'[s]) :
                    n \in 1 .. Len(log[s]) \/ (s = src /\ log'[s][n] = record)
        /\ \A s \in Sources :
              /\ InLog(s) \subseteq InLog(s)'
              /\ \A r \in InLog(s)' :
                    /\ r \in InLog(s) \/ r[2] > Len(log[s])
                    /\ r[1] = s /\ r[2] \in Nat
        /\ AllRecords \subseteq AllRecords'
        /\ \A r \in AllRecords : At(r)' = At(r)
    BY <1>2, LogGrows
  <1>4. \A r \in AllRecords : Seen(r) => Seen(r)'
    BY <1>1, <1>3 DEF Seen
  <1>5. \A s \in Sources : Len(log[s]) \in Nat /\ cursor[s] \in 0 .. Len(log[s])
    BY <1>2, RecordsNamed DEF TypeOK
  <1>6. /\ queued \in BOOLEAN /\ armed \in BOOLEAN /\ missed \in BOOLEAN
        /\ rescan \in BOOLEAN
        /\ queued' = (queued \/ (armed /\ ~isLost))
        /\ missed' = (missed \/ (armed /\ isLost))
    BY <1>2 DEF TypeOK, Write
  <1>7. TypeOK'
    <2>1. {queued', armed', rescan', missed'} \subseteq BOOLEAN
      BY <1>1, <1>6
    <2>2. cursor' \in [Sources -> Nat] /\ \A s \in Sources : cursor'[s] <= Len(log'[s])
      BY <1>1, <1>2, <1>3, <1>5 DEF TypeOK
    <2> QED
      BY <1>1, <1>2, <1>3, <2>1, <2>2 DEF TypeOK, identity
  <1>8. WatchOK' /\ TurnOK' /\ CardOK' /\ SampleIsPast'
    BY <1>1 DEF IInv, WatchOK, TurnOK, CardOK, SampleIsPast, identity
  <1>9. BoardOK'
    <2>1. "mb" \in Sources
      BY DEF Sources
    <2>2. DOMAIN log["mb"] = 1 .. Len(log["mb"])
      BY <1>2, <2>1 DEF TypeOK
    <2> QED
      BY <1>2, <1>3, <2>1, <2>2 DEF BoardOK
  <1>10. ConsumedWasShown'
    <2>1. ASSUME NEW r \in AllRecords', r[2] <= cursor'[r[1]] \/ r \in marks'
          PROVE  Seen(r)'
      <3>1. PICK s \in Sources : r \in InLog(s)'
        BY <2>1 DEF AllRecords
      <3>2. r[1] = s /\ r[2] \in Nat
        BY <1>3, <3>1
      <3>3. r \in InLog(s)
        <4>1. CASE r[2] <= cursor'[r[1]]
          BY <1>1, <1>3, <1>5, <3>1, <3>2, <4>1
        <4>2. CASE r \in marks
          <5>1. PICK t \in Sources : r \in InLog(t)
            BY <1>2, <4>2, RecordsNamed DEF TypeOK
          <5>2. r[1] = t
            BY <1>2, <5>1, RecordsNamed
          <5> QED
            BY <3>2, <5>1, <5>2
        <4> QED
          BY <1>1, <2>1, <4>1, <4>2
      <3>4. r \in AllRecords
        BY <3>3 DEF AllRecords
      <3>5. Seen(r)
        BY <1>1, <1>2, <2>1, <3>4 DEF ConsumedWasShown, Seen
      <3> QED
        BY <1>4, <3>4, <3>5
    <2> QED
      BY <2>1 DEF ConsumedWasShown, Seen
  <1>11. BatchIsAll'
    <2>1. ASSUME watch.pc \in Holding, NEW a \in watch.acks
          PROVE  /\ a.through <= Len(log'[a.src])
                 /\ \A r \in InLog(a.src)' : r[2] <= a.through =>
                       \/ watch.pc \in Reading /\ r \in watch.raw
                       \/ Seen(r)'
      <3>1. a.src \in Sources /\ a.through \in Nat
        BY <2>1, WatchFields DEF IInv, Holding, Whole
      <3>2. a.through <= Len(log[a.src])
        BY <1>2, <2>1 DEF BatchIsAll
      <3>3. ASSUME NEW r \in InLog(a.src)', r[2] <= a.through
            PROVE  r \in InLog(a.src) /\ r \in AllRecords
        <4>1. r[2] \in Nat
          BY <1>3, <3>1
        <4>2. ~(r[2] > Len(log[a.src]))
          BY <1>5, <3>1, <3>2, <3>3, <4>1
        <4>3. r \in InLog(a.src)
          BY <1>3, <3>1, <4>2
        <4> QED
          BY <3>1, <4>3 DEF AllRecords
      <3> QED
        BY <1>2, <1>3, <1>4, <1>5, <2>1, <3>1, <3>2, <3>3 DEF BatchIsAll
    <2>2. watch' = watch /\ marks' = marks
      BY <1>1
    <2>3. watch.pc \in Reading => watch.raw \subseteq AllRecords'
      BY <1>2, <1>3 DEF BatchIsAll
    <2> QED
      BY <1>2, <2>1, <2>2, <2>3 DEF BatchIsAll
  <1>12. TurnIsAll'
    <2>1. ASSUME turn.pc # "none", NEW s \in turn.raw,
                 NEW r \in InLog(s[1])', r[2] <= s[2]
          PROVE  r \in turn.raw \/ Seen(r)'
      <3>1. PICK t \in Sources : s \in InLog(t)
        BY <1>2, <2>1, RecordsNamed DEF TurnIsAll
      <3>2. s[1] = t /\ s[2] \in 1 .. Len(log[t])
        BY <1>2, <3>1, RecordsNamed
      <3>3. r[2] \in Nat
        BY <1>3, <2>1, <3>2
      <3>4. r \in InLog(t)
        BY <1>3, <1>5, <2>1, <3>2, <3>3
      <3>5. r \in AllRecords
        BY <3>4 DEF AllRecords
      <3> QED
        BY <1>2, <1>4, <2>1, <3>2, <3>4, <3>5 DEF TurnIsAll
    <2>2. turn.pc # "none" => turn.raw \subseteq AllRecords'
      BY <1>2, <1>3 DEF TurnIsAll
    <2> QED
      BY <1>1, <1>2, <2>1, <2>2 DEF TurnIsAll
  <1>13. PendingIsRead'
    <2>1. armed => queued' \/ missed'
      BY <1>6
    <2>2. gate.sampled => armed
      BY DEF IInv, SampleIsPast
    <2>3. watch.pc = "meet" => (watch.ok => armed)
      BY DEF IInv, SampleIsPast
    <2> QED
      BY <1>1, <2>1, <2>2, <2>3 DEF PendingIsRead, StillSince
  <1> QED
    BY <1>7, <1>8, <1>9, <1>10, <1>11, <1>12, <1>13 DEF IInv

\* A post to the board, to a room, or a copy of one into the other.
LEMMA PostKeeps ==
    ASSUME IInv, NEW isLost \in BOOLEAN, Post(isLost)
    PROVE  IInv'
  <1>0. "mb" \in Sources /\ "meet" \in Sources /\ "mb" # "meet"
    BY DEF Sources
  <1>1. CASE \E directed \in BOOLEAN :
               Write("mb", [directed |-> directed, own |-> FALSE, origin |-> 0],
                     isLost)
    <2>1. PICK directed \in BOOLEAN :
             Write("mb", [directed |-> directed, own |-> FALSE, origin |-> 0],
                   isLost)
      BY <1>1
    <2> DEFINE record == [directed |-> directed, own |-> FALSE, origin |-> 0]
    <2>2. record \in Records /\ ~record.own /\ record.origin = 0
      BY DEF Records
    <2>3. Write("mb", record, isLost)
      BY <2>1
    <2> HIDE DEF record
    <2> QED
      BY <1>0, <2>2, <2>3, WriteKeeps
  <1>2. ASSUME NEW own \in BOOLEAN, NEW n \in Nat,
               Write("meet", [directed |-> FALSE, own |-> own, origin |-> n], isLost)
        PROVE  IInv'
    <2> DEFINE record == [directed |-> FALSE, own |-> own, origin |-> n]
    <2>1. record \in Records
      BY DEF Records
    <2>2. Write("meet", record, isLost)
      BY <1>2
    <2> HIDE DEF record
    <2> QED
      BY <1>0, <2>1, <2>2, WriteKeeps
  <1>3. DOMAIN log["mb"] \subseteq Nat
    <2>1. log["mb"] \in Seq(Records)
      BY <1>0 DEF IInv, TypeOK
    <2> QED
      BY <2>1
  <1> QED
    BY <1>1, <1>2, <1>3 DEF Post

(***************************************************************************)
(* What a read takes, without a limit.                                     *)
(***************************************************************************)
\* Nothing is held back.
LEMMA NoLimit ==
    ASSUME Limit = 0
    PROVE  \A src, acked : /\ ~Capped(src, acked)
                           /\ Shown(src, acked) = Pending(src, acked)
  <1>1. \A src, acked : ~Capped(src, acked)
    BY DEF Capped
  <1> QED
    BY <1>1 DEF Shown

\* The watermark of a source is on file, and nothing unread is beyond it.
LEMMA ThroughBounds ==
    ASSUME TypeOK, NEW src \in Sources
    PROVE  /\ Through(src) \in 0 .. Len(log[src])
           /\ \A r \in Unread(src) : r[2] <= Through(src)
  <1>1. /\ Len(log[src]) \in Nat
        /\ \A r \in Unread(src) : r[2] \in Nat /\ r[2] <= Len(log[src])
    BY RecordsNamed DEF Unread
  <1>2. Through(src) = Highest(Unread(src)) \/ Through(src) = Len(log[src])
    BY DEF Through
  <1>3. /\ Highest(Unread(src)) \in 0 .. Len(log[src])
        /\ \A r \in Unread(src) : r[2] <= Highest(Unread(src))
    BY <1>1, HighestIsReached
  <1> QED
    BY <1>1, <1>2, <1>3

\* A source is acknowledged as a whole, and is when anything of it is pending.
LEMMA AcksAre ==
    ASSUME Limit = 0, TypeOK, NEW src \in Sources, NEW acked
    PROVE  /\ \A a \in AcksOf(src, acked) :
                 a \in Whole /\ a.src = src /\ a.through = Through(src)
           /\ Pending(src, acked) # {} =>
                 \E a \in AcksOf(src, acked) :
                    a.src = src /\ a.through = Through(src)
  <1> DEFINE whole == [kind |-> "whole", src |-> src, through |-> Through(src)]
  <1>1. whole \in Whole /\ whole.src = src /\ whole.through = Through(src)
    <2>1. Through(src) \in Nat
      BY ThroughBounds, RecordsNamed
    <2> QED
      BY <2>1 DEF Whole
  <1>2. /\ AcksOf(src, acked) \subseteq {whole}
        /\ Pending(src, acked) # {} => AcksOf(src, acked) = {whole}
    BY NoLimit DEF AcksOf
  <1> HIDE DEF whole
  <1> QED
    BY <1>1, <1>2

\* A record of a batch is shown, or its original is.
LEMMA CollapsedCovers ==
    ASSUME NEW raw
    PROVE  /\ Collapsed(raw) \subseteq raw
           /\ \A s \in raw : \/ s \in Collapsed(raw)
                             \/ \E r \in Collapsed(raw) : IsCopyOf(s, r)
  BY DEF Collapsed, IsCopyOf

\* So a copy of a record that was shown counts as seen.
LEMMA CopyIsSeen ==
    ASSUME TypeOK, NEW r \in AllRecords, r \in rendered, NEW s, IsCopyOf(s, r)
    PROVE  Seen(s)
  <1>1. r = <<"mb", r[2]>> /\ r[2] > 0
    BY RecordsNamed DEF IsCopyOf
  <1> QED
    BY <1>1 DEF IsCopyOf, Seen

\* Whoever reads without a limit takes all that is not seen yet.
LEMMA ReadsAll ==
    ASSUME IInv, Limit = 0, NEW src \in Sources, NEW acked, acked \subseteq marks
    PROVE  /\ \A r \in InLog(src) : r \in Shown(src, acked) \/ Seen(r)
           /\ Shown(src, acked) \subseteq InLog(src)
           /\ Pending(src, marks) \subseteq Shown(src, acked)
           /\ \A r \in Shown(src, acked) : r[2] <= Through(src)
  <1>1. Shown(src, acked) = Pending(src, acked)
    BY NoLimit
  <1>2. \A r \in InLog(src) : r \in Pending(src, acked) \/ Seen(r)
    BY PassedWasSeen DEF IInv
  <1>3. Pending(src, acked) \subseteq Unread(src)
    BY DEF Pending
  <1>4. Pending(src, marks) \subseteq Pending(src, acked)
    BY DEF Pending
  <1>5. Unread(src) \subseteq InLog(src)
    BY DEF Unread
  <1>6. \A r \in Unread(src) : r[2] <= Through(src)
    BY ThroughBounds DEF IInv
  <1> QED
    BY <1>1, <1>2, <1>3, <1>4, <1>5, <1>6

\* Records are events.
LEMMA RecordsAreEvents ==
    ASSUME TypeOK
    PROVE  AllRecords \subseteq Events /\ marks \subseteq Events
           /\ \A src \in Sources : InLog(src) \subseteq AllRecords
  BY RecordsNamed DEF TypeOK

\* The board is read: its batch is all that is pending in it.
LEMMA ReadBoardKeeps ==
    ASSUME IInv, Limit = 0, ReadBoard
    PROVE  IInv'
  <1>0. "mb" \in Sources /\ marks \subseteq marks /\ TypeOK
    BY DEF Sources, IInv
  <1>1. /\ Quiet /\ UNCHANGED <<notifier, polling, identity, orphaned>>
        /\ watch.pc = "board"
        /\ watch' = [pc |-> "meet", session |-> watch.session,
                     adopted |-> watch.adopted, sum |-> watch.sum,
                     ok |-> watch.ok, acked |-> marks,
                     raw |-> Shown("mb", marks), acks |-> AcksOf("mb", marks)]
    BY DEF ReadBoard, Quiet
  <1>2. watch \in [pc : {"board"}, session : Sessions, adopted : Adoptions,
                   sum : Nat, ok : BOOLEAN]
    BY <1>1, WatchFields DEF IInv
  <1>3. /\ \A r \in InLog("mb") : r \in Shown("mb", marks) \/ Seen(r)
        /\ Shown("mb", marks) \subseteq InLog("mb")
        /\ Pending("mb", marks) \subseteq Shown("mb", marks)
        /\ \A r \in Shown("mb", marks) : r[2] <= Through("mb")
    BY <1>0, ReadsAll
  <1>4. /\ \A a \in AcksOf("mb", marks) :
              a \in Whole /\ a.src = "mb" /\ a.through = Through("mb")
        /\ Pending("mb", marks) # {} =>
              \E a \in AcksOf("mb", marks) :
                 a.src = "mb" /\ a.through = Through("mb")
    BY <1>0, AcksAre
  <1>5. Shown("mb", marks) \subseteq AllRecords /\ AllRecords \subseteq Events
        /\ marks \subseteq Events
    BY <1>0, <1>3, RecordsAreEvents
  <1>6. /\ watch'.pc = "meet" /\ watch'.acked = marks /\ watch'.ok = watch.ok
        /\ watch'.raw = Shown("mb", marks) /\ watch'.acks = AcksOf("mb", marks)
        /\ watch'.sum = watch.sum /\ watch'.session = watch.session
    BY <1>1
  <1>7. WatchOK'
    <2>1. AcksOf("mb", marks) \subseteq Whole /\ Shown("mb", marks) \subseteq Events
      BY <1>4, <1>5
    <2>2. watch' \in [pc : {"meet"}, session : Sessions, adopted : Adoptions,
                      sum : Nat, ok : BOOLEAN, acked : SUBSET Events,
                      raw : SUBSET Events, acks : SUBSET Whole]
      BY <1>1, <1>2, <1>5, <2>1
    <2> QED
      BY <2>2 DEF WatchOK
  <1>8. TypeOK' /\ CardOK'
    BY <1>1, <1>6, StoresTyped DEF IInv, TypeOK, CardOK, notifier, polling, identity
  <1>9. SampleIsPast'
    BY <1>1, <1>6 DEF IInv, SampleIsPast, notifier, polling, identity
  <1>10. UNCHANGED <<log, marks, rendered, cursor>>
    BY <1>1 DEF Quiet, stores
  <1>11. AllRecords' = AllRecords /\ InLog("mb")' = InLog("mb")
         /\ \A r : Seen(r) => Seen(r)'
    BY <1>10, SeenKept DEF AllRecords, InLog
  <1>12. Through("mb") <= Len(log["mb"])
    BY <1>0, ThroughBounds, RecordsNamed
  <1>13. \A r \in Shown("mb", marks) : r[1] = "mb"
    BY <1>0, <1>3, RecordsNamed
  <1>14. BatchIsAll'
    <2>1. ASSUME NEW a \in watch'.acks
          PROVE  /\ a.through <= Len(log'[a.src])
                 /\ \A r \in InLog(a.src)' : r[2] <= a.through =>
                       \/ watch'.pc \in Reading /\ r \in watch'.raw
                       \/ Seen(r)'
      <3>1. a.src = "mb" /\ a.through = Through("mb")
        BY <1>4, <1>6
      <3> QED
        BY <1>3, <1>6, <1>10, <1>11, <1>12, <3>1 DEF Reading
    <2>2. watch'.raw \subseteq AllRecords' /\ watch'.acked \subseteq marks'
      BY <1>5, <1>6, <1>10, <1>11
    <2>3. (\A r \in watch'.raw : r[1] = "mb") /\ \A a \in watch'.acks : a.src = "mb"
      BY <1>4, <1>6, <1>13
    <2> QED
      BY <2>1, <2>2, <2>3 DEF BatchIsAll
  <1>15. PendingIsRead'
    <2>1. Pending("mb", marks)' = Pending("mb", marks)
      BY <1>0, <1>1, PendingStays
    <2>2. Covered("mb")'
      BY <1>3, <1>4, <1>6, <2>1 DEF Covered
    <2> QED
      BY <1>6, <2>2 DEF PendingIsRead
  <1> QED
    BY <1>1, <1>7, <1>8, <1>9, <1>14, <1>15, ReadersStay DEF IInv

\* The rooms are read: with the board's the batch is all that is pending, and
\* the gate is what was sampled before the read.
LEMMA ReadMeetKeeps ==
    ASSUME IInv, Limit = 0, ReadMeet
    PROVE  IInv'
  <1> DEFINE raw == watch.raw \cup Shown("meet", watch.acked)
             acks == watch.acks \cup AcksOf("meet", watch.acked)
             place == IF Collapsed(raw) # {} THEN "render" ELSE "ack"
  <1>0. "meet" \in Sources /\ "mb" \in Sources /\ TypeOK
    BY DEF Sources, IInv
  <1>1. /\ Quiet /\ UNCHANGED <<notifier, missed, identity, orphaned>>
        /\ watch.pc = "meet"
        /\ watch' = [pc |-> place, session |-> watch.session,
                     adopted |-> watch.adopted, raw |-> raw, acks |-> acks]
        /\ gate' = [sampled |-> watch.ok, sum |-> watch.sum] /\ rescan' = FALSE
    BY DEF ReadMeet, Quiet, Committed
  <1>2. watch \in [pc : {"meet"}, session : Sessions, adopted : Adoptions,
                   sum : Nat, ok : BOOLEAN, acked : SUBSET Events,
                   raw : SUBSET Events, acks : SUBSET Whole]
    BY <1>1, WatchFields DEF IInv
  <1>3. /\ watch.raw \subseteq AllRecords /\ watch.acked \subseteq marks
        /\ \A r \in watch.raw : r[1] = "mb"
        /\ \A a \in watch.acks :
              /\ a.src = "mb" /\ a.through <= Len(log[a.src])
              /\ \A r \in InLog(a.src) : r[2] <= a.through =>
                    r \in watch.raw \/ Seen(r)
    BY <1>1 DEF IInv, BatchIsAll, Reading, Holding
  <1>4. /\ \A r \in InLog("meet") : r \in Shown("meet", watch.acked) \/ Seen(r)
        /\ Shown("meet", watch.acked) \subseteq InLog("meet")
        /\ Pending("meet", marks) \subseteq Shown("meet", watch.acked)
        /\ \A r \in Shown("meet", watch.acked) : r[2] <= Through("meet")
    BY <1>0, <1>3, ReadsAll
  <1>5. /\ \A a \in AcksOf("meet", watch.acked) :
              a \in Whole /\ a.src = "meet" /\ a.through = Through("meet")
        /\ Pending("meet", watch.acked) # {} =>
              \E a \in AcksOf("meet", watch.acked) :
                 a.src = "meet" /\ a.through = Through("meet")
    BY <1>0, AcksAre
  <1>6. raw \subseteq AllRecords /\ AllRecords \subseteq Events
    BY <1>0, <1>3, <1>4, RecordsAreEvents
  <1>7. acks \subseteq Whole
    BY <1>2, <1>5
  <1>8. \A a \in acks :
           /\ a.src \in Sources /\ a.through <= Len(log[a.src])
           /\ \A r \in InLog(a.src) : r[2] <= a.through => r \in raw \/ Seen(r)
    <2>1. Through("meet") <= Len(log["meet"])
      BY <1>0, ThroughBounds, RecordsNamed
    <2> QED
      BY <1>0, <1>3, <1>4, <1>5, <2>1
  <1>9. Collapsed(raw) = {} => raw = {}
    <2> HIDE DEF raw
    <2> QED
      BY CollapsedCovers
  <1>10. \A r \in Pending("meet", marks) :
            \E a \in acks : a.src = "meet" /\ r[2] <= a.through
    <2>1. Pending("meet", marks) \subseteq Pending("meet", watch.acked)
      BY <1>3 DEF Pending
    <2> QED
      BY <1>4, <1>5, <2>1
  <1> HIDE DEF raw, acks
  <1>11. /\ watch'.pc = place /\ watch'.raw = raw /\ watch'.acks = acks
         /\ watch'.session = watch.session /\ place \in {"render", "ack"}
    BY <1>1
  <1> HIDE DEF place
  <1>12. WatchOK'
    <2>1. watch' \in [pc : {"render", "ack"}, session : Sessions,
                      adopted : Adoptions, raw : SUBSET Events, acks : SUBSET Whole]
      BY <1>1, <1>2, <1>6, <1>7, <1>11
    <2> QED
      BY <2>1 DEF WatchOK
  <1>13. epoch' = epoch /\ queued' = queued /\ armed' = armed
    BY <1>1 DEF notifier
  <1>14. TypeOK' /\ CardOK'
    <2>1. gate' \in [sampled : BOOLEAN, sum : Nat]
      BY <1>1, <1>2
    <2>2. {queued', armed', rescan', missed'} \subseteq BOOLEAN
      BY <1>0, <1>1, <1>13 DEF TypeOK
    <2>3. watch'.pc \in {"off", "join", "check", "sample", "board", "meet",
                         "render", "ack", "wait"}
      BY <1>11
    <2>4. /\ epoch' \in Nat \ {0} /\ orphaned' \in Nat /\ alive' \subseteq Sessions
          /\ card' = card
      BY <1>0, <1>1, <1>13 DEF TypeOK, identity
    <2> QED
      BY <1>0, <1>1, <2>1, <2>2, <2>3, <2>4, StoresTyped DEF IInv, TypeOK, CardOK
  <1>16. SampleIsPast'
    <2>1. (watch.ok => armed) /\ watch.sum <= epoch
      BY <1>1 DEF IInv, SampleIsPast
    <2> QED
      BY <1>1, <1>11, <1>13, <2>1 DEF SampleIsPast
  <1>17. UNCHANGED <<log, marks, rendered, cursor>>
    BY <1>1 DEF Quiet, stores
  <1>18. /\ AllRecords' = AllRecords /\ \A s \in Sources : InLog(s)' = InLog(s)
         /\ \A r : Seen(r) => Seen(r)'
    BY <1>17, SeenKept DEF AllRecords, InLog
  <1>19. BatchIsAll'
    <2>1. ASSUME NEW a \in watch'.acks
          PROVE  /\ a.through <= Len(log'[a.src])
                 /\ \A r \in InLog(a.src)' : r[2] <= a.through =>
                       \/ watch'.pc \in Reading /\ r \in watch'.raw
                       \/ Seen(r)'
      <3>1. a \in acks /\ a.src \in Sources
        BY <1>8, <1>11
      <3>2. raw = {} \/ watch'.pc = "render"
        BY <1>9, <1>11 DEF place
      <3> QED
        BY <1>8, <1>11, <1>17, <1>18, <3>1, <3>2 DEF Reading
    <2>2. watch'.raw \subseteq AllRecords'
      BY <1>6, <1>11, <1>18
    <2>3. watch'.pc # "meet"
      BY <1>11
    <2> QED
      BY <2>1, <2>2, <2>3 DEF BatchIsAll
  <1>20. PendingIsRead'
    <2>1. \A s \in Sources : Pending(s, marks)' = Pending(s, marks)
      BY <1>1, PendingStays
    <2>2. Covered("meet")'
      BY <1>0, <1>10, <1>11, <2>1 DEF Covered
    <2>3. ASSUME StillSince(gate.sampled, gate.sum)'
          PROVE  Covered("mb")'
      <3>1. StillSince(watch.ok, watch.sum)
        BY <1>1, <1>13, <2>3 DEF StillSince
      <3>2. Covered("mb")
        BY <1>1, <3>1 DEF IInv, PendingIsRead
      <3>3. watch.acks \subseteq watch'.acks
        BY <1>11 DEF acks
      <3> QED
        BY <1>0, <2>1, <3>2, <3>3 DEF Covered
    <2>4. Sources = {"mb", "meet"} /\ watch'.pc \in {"render", "ack"}
      BY <1>11 DEF Sources
    <2> QED
      BY <2>2, <2>3, <2>4 DEF PendingIsRead
  <1> QED
    BY <1>1, <1>12, <1>14, <1>16, <1>19, <1>20, ReadersStay DEF IInv

(***************************************************************************)
(* Steps that show or acknowledge: no record is added, nothing shown or    *)
(* acknowledged is taken back.                                             *)
(***************************************************************************)
Onward ==
    /\ log' = log /\ marks \subseteq marks' /\ rendered \subseteq rendered'
    /\ \A src \in Sources : cursor[src] <= cursor'[src]

\* What is under way is not disturbed.
LEMMA OnwardKeeps ==
    ASSUME IInv, TypeOK', Onward
    PROVE  /\ BoardOK'
           /\ watch' = watch => WatchOK' /\ BatchIsAll'
           /\ turn' = turn => TurnOK' /\ TurnIsAll'
           /\ UNCHANGED <<watch, gate, epoch, queued, missed>> => PendingIsRead'
           /\ \A src \in Sources : Pending(src, marks)' \subseteq Pending(src, marks)
           /\ \A r : Seen(r) => Seen(r)'
           /\ AllRecords' = AllRecords /\ \A src \in Sources : InLog(src)' = InLog(src)
  <1>1. log' = log /\ marks \subseteq marks' /\ rendered \subseteq rendered'
    BY DEF Onward
  <1>2. \A r : Seen(r) => Seen(r)'
    BY <1>1, SeenKept
  <1>3. AllRecords' = AllRecords /\ \A src : InLog(src)' = InLog(src)
    BY <1>1 DEF AllRecords, InLog
  <1>4. \A src \in Sources : Pending(src, marks)' \subseteq Pending(src, marks)
    BY PendingShrinks DEF IInv, Onward
  <1>5. BoardOK'
    BY <1>1 DEF IInv, BoardOK
  <1>6. watch' = watch => WatchOK' /\ BatchIsAll'
    <2>1. watch' = watch => WatchOK'
      BY DEF IInv, WatchOK
    <2>2. watch' = watch => BatchIsAll'
      BY <1>1, <1>2, <1>3 DEF IInv, BatchIsAll
    <2> QED
      BY <2>1, <2>2
  <1>7. turn' = turn => TurnOK' /\ TurnIsAll'
    <2>1. turn' = turn => TurnOK'
      BY DEF IInv, TurnOK
    <2>2. turn' = turn => TurnIsAll'
      BY <1>1, <1>2, <1>3 DEF IInv, TurnIsAll
    <2> QED
      BY <2>1, <2>2
  <1>8. ASSUME UNCHANGED <<watch, gate, epoch, queued, missed>>
        PROVE  PendingIsRead'
    <2>1. "mb" \in Sources
      BY DEF Sources
    <2>2. \A src \in Sources : Covered(src) => Covered(src)'
      BY <1>4, <1>8 DEF Covered
    <2>3. (\A src \in Sources : Pending(src, marks) = {}) =>
             \A src \in Sources : Pending(src, marks)' = {}
      BY <1>4
    <2> QED
      BY <1>8, <2>1, <2>2, <2>3 DEF IInv, PendingIsRead, StillSince
  <1> QED
    BY <1>2, <1>3, <1>4, <1>5, <1>6, <1>7, <1>8

\* The batch is written: all of it is seen, and an orphan has had its one.
LEMMA RenderKeeps ==
    ASSUME IInv, Render
    PROVE  IInv'
  <1>1. /\ UNCHANGED <<log, cursor, marks, notifier, polling, identity, turn>>
        /\ watch.pc = "render"
        /\ rendered' = rendered \cup Collapsed(watch.raw)
        /\ orphaned' = orphaned + IF watch.session \in alive THEN 0 ELSE 1
        /\ watch' = [watch EXCEPT !.pc = "ack"]
    BY DEF Render, stores
  <1>2. watch \in [pc : {"render", "ack"}, session : Sessions, adopted : Adoptions,
                   raw : SUBSET Events, acks : SUBSET Whole]
    BY <1>1, WatchFields DEF IInv
  <1>3. /\ watch'.pc = "ack" /\ watch'.session = watch.session
        /\ watch'.raw = watch.raw /\ watch'.acks = watch.acks /\ WatchOK'
    BY <1>1, <1>2 DEF WatchOK
  <1>4. TypeOK /\ watch.raw \subseteq AllRecords
    BY <1>1 DEF IInv, BatchIsAll, Reading
  <1>5. Collapsed(watch.raw) \subseteq AllRecords
    BY <1>4, CollapsedCovers
  <1>6. UNCHANGED <<epoch, queued, armed, gate, rescan, missed, alive, card>>
    BY <1>1 DEF notifier, polling, identity
  <1>8. TypeOK' /\ CardOK'
    <2>1. /\ cursor' \in [Sources -> Nat]
          /\ \A src \in Sources : cursor'[src] <= Len(log'[src])
          /\ marks' \subseteq AllRecords' /\ rendered' \subseteq AllRecords'
      BY <1>1, <1>4, <1>5 DEF TypeOK, AllRecords, InLog
    <2>2. {queued', armed', rescan', missed'} \subseteq BOOLEAN
      BY <1>4, <1>6 DEF TypeOK
    <2>3. orphaned' \in Nat
      BY <1>1, <1>4 DEF TypeOK
    <2>4. log' = log /\ turn' = turn
      BY <1>1
    <2> QED
      BY <1>3, <1>4, <1>6, <2>1, <2>2, <2>3, <2>4 DEF IInv, TypeOK, CardOK
  <1>9. Onward
    BY <1>1, <1>4 DEF Onward, TypeOK
  <1>10. /\ BoardOK' /\ TurnOK' /\ TurnIsAll'
         /\ \A src \in Sources : Pending(src, marks)' \subseteq Pending(src, marks)
         /\ \A r : Seen(r) => Seen(r)'
         /\ AllRecords' = AllRecords
         /\ \A src \in Sources : InLog(src)' = InLog(src)
    BY <1>1, <1>8, <1>9, OnwardKeeps
  <1>11. \A s \in watch.raw : Seen(s)'
    <2>1. ASSUME NEW s \in watch.raw
          PROVE  Seen(s)'
      <3>1. CASE s \in Collapsed(watch.raw)
        BY <1>1, <3>1 DEF Seen
      <3>2. ASSUME NEW r \in Collapsed(watch.raw), IsCopyOf(s, r)
            PROVE  Seen(s)'
        <4>1. r \in rendered' /\ r = <<"mb", r[2]>> /\ r[2] > 0
          BY <1>1, <1>4, <1>5, <3>2, RecordsNamed DEF IsCopyOf
        <4>2. At(s)'.origin = r[2]
          BY <1>1, <3>2 DEF IsCopyOf, At
        <4> QED
          BY <4>1, <4>2 DEF Seen
      <3> QED
        BY <3>1, <3>2, CollapsedCovers
    <2> QED
      BY <2>1
  <1>12. ConsumedWasShown'
    BY <1>1, <1>10 DEF IInv, ConsumedWasShown, Seen
  <1>13. BatchIsAll'
    <2>1. ASSUME NEW a \in watch'.acks
          PROVE  /\ a.through <= Len(log'[a.src])
                 /\ \A r \in InLog(a.src)' : r[2] <= a.through => Seen(r)'
      <3>1. a \in watch.acks /\ a.src \in Sources
        BY <1>2, <1>3, <2>1 DEF Whole
      <3>2. /\ a.through <= Len(log[a.src])
            /\ \A r \in InLog(a.src) : r[2] <= a.through =>
                  r \in watch.raw \/ Seen(r)
        BY <1>1, <3>1 DEF IInv, BatchIsAll, Holding
      <3> QED
        BY <1>1, <1>10, <1>11, <3>1, <3>2
    <2> QED
      BY <1>3, <2>1 DEF BatchIsAll, Reading
  <1>14. PendingIsRead'
    <2>1. ASSUME StillSince(gate.sampled, gate.sum)', NEW src \in Sources
          PROVE  Covered(src)'
      <3>1. Covered(src)
        BY <1>1, <1>6, <2>1 DEF IInv, PendingIsRead, StillSince
      <3> QED
        BY <1>3, <1>10, <3>1 DEF Covered
    <2> QED
      BY <1>3, <2>1 DEF PendingIsRead
  <1>15. SampleIsPast'
    BY <1>1, <1>3, <1>6 DEF IInv, SampleIsPast
  <1> QED
    BY <1>3, <1>8, <1>10, <1>12, <1>13, <1>14, <1>15 DEF IInv

\* The watermark of a source is committed: all up to it was seen.
LEMMA AckKeeps ==
    ASSUME IInv, Ack
    PROVE  IInv'
  <1> DEFINE a == FirstOf(watch.acks)
  <1>1. watch.pc = "ack" /\ watch.acks # {} /\ TypeOK
    BY DEF Ack, IInv
  <1>2. watch \in [pc : {"render", "ack"}, session : Sessions, adopted : Adoptions,
                   raw : SUBSET Events, acks : SUBSET Whole]
    BY <1>1, WatchFields DEF IInv
  <1>3. a \in watch.acks
    <2>1. \E b \in watch.acks : OnBoard(b) \/ ~\E c \in watch.acks : OnBoard(c)
      BY <1>1
    <2> QED
      BY <2>1 DEF FirstOf
  <1>4. a.kind = "whole" /\ a.src \in Sources /\ a.through \in Nat
    <2> HIDE DEF a
    <2> QED
      BY <1>2, <1>3 DEF Whole
  <1>5. /\ cursor' = [cursor EXCEPT ![a.src] = Max({@, a.through})]
        /\ watch' = [watch EXCEPT !.acks = @ \ {a}]
        /\ UNCHANGED <<log, marks, notifier, polling, identity, turn, rendered,
                       orphaned>>
    BY <1>4 DEF Ack, Forward, Watermark
  <1> HIDE DEF a
  <1>6. /\ a.through <= Len(log[a.src])
        /\ \A r \in InLog(a.src) : r[2] <= a.through => Seen(r)
    BY <1>1, <1>3 DEF IInv, BatchIsAll, Holding, Reading
  <1>7. /\ \A src \in Sources : cursor[src] \in Nat /\ Len(log[src]) \in Nat
                                /\ cursor[src] <= Len(log[src])
    BY <1>1, RecordsNamed DEF TypeOK
  <1>8. /\ DOMAIN cursor' = DOMAIN cursor
        /\ \A src \in Sources : src # a.src => cursor'[src] = cursor[src]
    BY <1>5
  <1>9. cursor'[a.src] = IF cursor[a.src] >= a.through THEN cursor[a.src]
                                                       ELSE a.through
    <2>0. DOMAIN cursor = Sources
      BY <1>1 DEF TypeOK
    <2>1. cursor'[a.src] = Max({cursor[a.src], a.through})
      BY <1>4, <1>5, <2>0
    <2> QED
      BY <1>4, <1>7, <2>1, MaxOfTwo
  <1>10. \A src \in Sources : /\ cursor'[src] \in Nat /\ cursor[src] <= cursor'[src]
                              /\ cursor'[src] <= Len(log[src])
    BY <1>4, <1>6, <1>7, <1>8, <1>9
  <1>11. UNCHANGED <<epoch, queued, armed, gate, rescan, missed, alive, card>>
    BY <1>5 DEF notifier, polling, identity
  <1>12. /\ watch'.pc = "ack" /\ watch'.session = watch.session
         /\ watch'.acks = watch.acks \ {a} /\ WatchOK'
    BY <1>1, <1>2, <1>5 DEF WatchOK
  <1>13. TypeOK' /\ CardOK'
    <2>1. {queued', armed', rescan', missed'} \subseteq BOOLEAN
      BY <1>1, <1>11 DEF TypeOK
    <2>2. cursor' \in [Sources -> Nat]
      BY <1>1, <1>5, <1>10 DEF TypeOK
    <2>3. marks' \subseteq AllRecords' /\ rendered' \subseteq AllRecords'
      BY <1>1, <1>5 DEF TypeOK, AllRecords, InLog
    <2> QED
      BY <1>1, <1>5, <1>10, <1>11, <1>12, <2>1, <2>2, <2>3 DEF IInv, TypeOK, CardOK
  <1>14. Onward
    BY <1>5, <1>10 DEF Onward
  <1>15. /\ BoardOK' /\ TurnOK' /\ TurnIsAll'
         /\ \A src \in Sources : Pending(src, marks)' \subseteq Pending(src, marks)
         /\ \A r : Seen(r) => Seen(r)'
         /\ AllRecords' = AllRecords
         /\ \A src \in Sources : InLog(src)' = InLog(src)
    BY <1>5, <1>13, <1>14, OnwardKeeps
  <1>16. ConsumedWasShown'
    <2>1. ASSUME NEW r \in AllRecords, r[2] <= cursor'[r[1]] \/ r \in marks
          PROVE  Seen(r)
      <3>1. PICK src \in Sources : r \in InLog(src)
        BY <1>1, RecordsNamed
      <3>2. r[1] = src /\ r[2] \in Nat
        BY <1>1, <3>1, RecordsNamed
      <3>3. \/ r[2] <= cursor[r[1]] \/ r \in marks
            \/ (src = a.src /\ r[2] <= a.through)
        BY <1>4, <1>7, <1>8, <1>9, <2>1, <3>2
      <3> QED
        BY <1>6, <3>1, <3>3 DEF IInv, ConsumedWasShown, Seen
    <2> QED
      BY <1>5, <1>15, <2>1 DEF ConsumedWasShown, Seen
  <1>17. BatchIsAll'
    <2>1. ASSUME NEW b \in watch'.acks
          PROVE  /\ b.through <= Len(log'[b.src])
                 /\ \A r \in InLog(b.src)' : r[2] <= b.through => Seen(r)'
      <3>1. b \in watch.acks /\ b.src \in Sources
        BY <1>2, <1>12 DEF Whole
      <3> QED
        BY <1>1, <1>5, <1>15, <3>1 DEF IInv, BatchIsAll, Holding, Reading
    <2> QED
      BY <1>12, <2>1 DEF BatchIsAll, Reading
  <1>18. PendingIsRead'
    <2>1. ASSUME StillSince(gate.sampled, gate.sum)', NEW src \in Sources,
                 NEW r \in Pending(src, marks)'
          PROVE  \E b \in watch'.acks : b.src = src /\ r[2] <= b.through
      <3>1. r \in Pending(src, marks)
        BY <1>15
      <3>2. PICK b \in watch.acks : b.src = src /\ r[2] <= b.through
        BY <1>1, <1>11, <2>1, <3>1 DEF IInv, PendingIsRead, StillSince, Covered
      <3>3. r[2] > cursor'[src]
        BY <2>1 DEF Pending, Unread
      <3>4. r[2] \in Nat
        BY <1>1, <3>1, RecordsNamed, PendingMembers
      <3>5. b # a
        BY <1>4, <1>7, <1>9, <3>2, <3>3, <3>4
      <3> QED
        BY <1>12, <3>2, <3>5
    <2> QED
      BY <1>12, <2>1 DEF PendingIsRead, Covered
  <1>19. SampleIsPast'
    BY <1>1, <1>5, <1>11, <1>12 DEF IInv, SampleIsPast
  <1> QED
    BY <1>12, <1>13, <1>15, <1>16, <1>17, <1>18, <1>19 DEF IInv

(***************************************************************************)
(* The turn of a managed session.                                          *)
(***************************************************************************)
\* A step of the turn that goes onward and shows before it acknowledges.
LEMMA TurnKeeps ==
    ASSUME IInv, Onward, TypeOK', TurnOK', TurnIsAll', ConsumedWasShown',
           UNCHANGED <<notifier, polling, identity, watch, orphaned>>
    PROVE  IInv'
  <1>1. UNCHANGED <<watch, gate, epoch, queued, armed, missed, alive, card>>
    BY DEF notifier, polling, identity
  <1>2. BoardOK' /\ WatchOK' /\ BatchIsAll' /\ PendingIsRead'
    BY <1>1, OnwardKeeps
  <1>3. CardOK' /\ SampleIsPast'
    BY <1>1 DEF IInv, CardOK, SampleIsPast
  <1> QED
    BY <1>2, <1>3 DEF IInv

\* The types of a step that touches neither the watch nor the logs.
LEMMA TurnTyped ==
    ASSUME TypeOK, TurnOK', log' = log, cursor' \in [Sources -> Nat],
           \A src \in Sources : cursor'[src] <= Len(log[src]),
           marks' \subseteq AllRecords, rendered' \subseteq AllRecords,
           UNCHANGED <<notifier, polling, identity, watch, orphaned>>
    PROVE  TypeOK'
  <1>1. UNCHANGED <<watch, gate, epoch, queued, armed, rescan, missed, alive, card>>
    BY DEF notifier, polling, identity
  <1>2. AllRecords' = AllRecords
    BY DEF AllRecords, InLog
  <1>3. turn'.pc \in {"none", "admit", "mark", "advance"}
    BY DEF TurnOK, NoTurn
  <1>4. {queued', armed', rescan', missed'} \subseteq BOOLEAN
    BY <1>1 DEF TypeOK
  <1> QED
    BY <1>1, <1>2, <1>3, <1>4 DEF TypeOK

\* The fields of the turn at each place.
LEMMA TurnFields ==
    ASSUME TurnOK
    PROVE  /\ turn.pc = "admit" => turn.raw \in SUBSET Events
           /\ turn.pc \in {"mark", "advance"} =>
                 turn \in [pc : {"mark", "advance"}, raw : SUBSET Events,
                           event : Events]
  BY DEF TurnOK, NoTurn

\* The turn begins with all that is pending, or ends.
LEMMA TurnStartKeeps ==
    ASSUME IInv, TurnStart \/ TurnEnds
    PROVE  IInv'
  <1>1. /\ UNCHANGED <<log, cursor, marks, rendered>>
        /\ UNCHANGED <<notifier, polling, identity, watch, orphaned>>
    BY DEF TurnStart, TurnEnds, stores
  <1>2. TypeOK
    BY DEF IInv
  <1>3. Onward
    BY <1>1, <1>2 DEF Onward, TypeOK
  <1>4. AllRecords' = AllRecords /\ \A src : InLog(src)' = InLog(src)
    BY <1>1 DEF AllRecords, InLog
  <1>5. ConsumedWasShown'
    BY <1>1, <1>4 DEF IInv, ConsumedWasShown, At
  <1>6. TurnOK' /\ TurnIsAll'
    <2>1. CASE TurnEnds
      BY <2>1 DEF TurnEnds, TurnOK, TurnIsAll, NoTurn
    <2>2. CASE TurnStart
      <3>1. turn' = [pc |-> "admit", raw |-> Everything]
        BY <2>2 DEF TurnStart
      <3>2. \A r \in Everything : \E src \in Sources : r \in Pending(src, marks)
        BY DEF Everything
      <3>3. Everything \subseteq AllRecords
        <4>1. ASSUME NEW r \in Everything PROVE r \in AllRecords
          <5>1. PICK src \in Sources : r \in Pending(src, marks)
            BY <3>2
          <5>2. r \in InLog(src)
            BY <5>1, PendingMembers
          <5> QED
            BY <1>2, <5>2, RecordsAreEvents
        <4> QED
          BY <4>1
      <3>4. TurnOK'
        BY <1>2, <3>1, <3>3, RecordsAreEvents DEF TurnOK
      <3>5. ASSUME NEW s \in Everything, NEW r \in InLog(s[1])
            PROVE  r \in Everything \/ Seen(r)'
        <4>1. PICK src \in Sources : s \in InLog(src)
          BY <3>2, PendingMembers
        <4>2. s[1] = src
          BY <1>2, <4>1, RecordsNamed
        <4>3. r \in Pending(src, marks) \/ Seen(r)
          BY <3>5, <4>2, PassedWasSeen DEF IInv
        <4> QED
          BY <1>1, <4>3, SeenKept DEF Everything
      <3>6. turn'.pc = "admit" /\ turn'.raw = Everything
        BY <3>1
      <3>7. \A s \in Everything : \A r \in InLog(s[1])' : r \in Everything \/ Seen(r)'
        BY <1>4, <3>5
      <3>8. TurnIsAll'
        BY <1>4, <3>3, <3>6, <3>7 DEF TurnIsAll
      <3> QED
        BY <3>4, <3>8
    <2> QED
      BY <2>1, <2>2
  <1>7. TypeOK'
    BY <1>1, <1>2, <1>6, TurnTyped DEF TypeOK
  <1> QED
    BY <1>1, <1>3, <1>5, <1>6, <1>7, TurnKeeps

\* A record is written to the session before it is marked.
LEMMA TurnDeliverKeeps ==
    ASSUME IInv, NEW event, TurnDeliver(event)
    PROVE  IInv'
  <1>1. /\ UNCHANGED <<log, cursor, marks>>
        /\ UNCHANGED <<notifier, polling, identity, watch, orphaned>>
        /\ turn.pc = "admit" /\ event \in Collapsed(turn.raw)
        /\ rendered' = rendered \cup {event}
        /\ turn' = [pc |-> "mark", raw |-> turn.raw, event |-> event]
    BY DEF TurnDeliver, stores
  <1>2. TypeOK
    BY DEF IInv
  <1>3. turn.raw \subseteq AllRecords /\ turn.raw \in SUBSET Events
    BY <1>1, TurnFields DEF IInv, TurnIsAll
  <1>4. event \in turn.raw /\ event \in AllRecords
    BY <1>1, <1>3, CollapsedCovers
  <1>5. TurnOK'
    BY <1>1, <1>3, <1>4 DEF TurnOK
  <1>6. TypeOK'
    BY <1>1, <1>2, <1>4, <1>5, TurnTyped DEF TypeOK
  <1>7. Onward
    BY <1>1, <1>2 DEF Onward, TypeOK
  <1>8. /\ \A r : Seen(r) => Seen(r)'
        /\ AllRecords' = AllRecords /\ \A src : InLog(src)' = InLog(src)
    BY <1>1, <1>6, <1>7, OnwardKeeps DEF InLog
  <1>9. ConsumedWasShown'
    BY <1>1, <1>8 DEF IInv, ConsumedWasShown, Seen
  <1>10. TurnIsAll'
    <2>1. \A s \in turn.raw : \A r \in InLog(s[1]) :
             r[2] <= s[2] => r \in turn.raw \/ Seen(r)
      BY <1>1 DEF IInv, TurnIsAll
    <2>2. turn'.pc = "mark" /\ turn'.raw = turn.raw /\ turn'.event \in rendered'
      BY <1>1
    <2> QED
      BY <1>3, <1>8, <2>1, <2>2 DEF TurnIsAll
  <1> QED
    BY <1>1, <1>5, <1>6, <1>7, <1>9, <1>10, TurnKeeps

\* The record is marked with its copies: it was shown, so they count as seen.
LEMMA TurnMarkKeeps ==
    ASSUME IInv, TurnMark
    PROVE  IInv'
  <1>1. /\ UNCHANGED <<log, cursor, rendered>>
        /\ UNCHANGED <<notifier, polling, identity, watch, orphaned>>
        /\ turn.pc = "mark"
        /\ marks' = marks \cup MarkedWith(turn.event, turn.raw)
        /\ turn' = [turn EXCEPT !.pc = "advance"]
    BY DEF TurnMark
  <1>2. TypeOK
    BY DEF IInv
  <1>3. turn \in [pc : {"mark", "advance"}, raw : SUBSET Events, event : Events]
    BY <1>1, TurnFields DEF IInv
  <1>4. /\ turn'.pc = "advance" /\ turn'.raw = turn.raw
        /\ turn'.event = turn.event /\ TurnOK'
    BY <1>1, <1>3 DEF TurnOK
  <1>5. /\ turn.raw \subseteq AllRecords /\ turn.event \in rendered
        /\ turn.event \in AllRecords
        /\ \A s \in turn.raw : \A r \in InLog(s[1]) :
              r[2] <= s[2] => r \in turn.raw \/ Seen(r)
    BY <1>1, <1>2 DEF IInv, TurnIsAll, TypeOK
  <1>6. \A s \in MarkedWith(turn.event, turn.raw) : s \in AllRecords /\ Seen(s)
    <2>1. \A s \in MarkedWith(turn.event, turn.raw) :
             s = turn.event \/ (s \in turn.raw /\ IsCopyOf(s, turn.event))
      BY DEF MarkedWith
    <2>2. Seen(turn.event)
      BY <1>5 DEF Seen
    <2> QED
      BY <1>2, <1>5, <2>1, <2>2, CopyIsSeen
  <1>7. TypeOK'
    <2>1. marks' \subseteq AllRecords
      BY <1>1, <1>2, <1>6 DEF TypeOK
    <2> QED
      BY <1>1, <1>2, <1>4, <2>1, TurnTyped DEF TypeOK
  <1>8. Onward
    BY <1>1, <1>2 DEF Onward, TypeOK
  <1>9. /\ \A r : Seen(r) => Seen(r)'
        /\ AllRecords' = AllRecords /\ \A src : InLog(src)' = InLog(src)
    BY <1>1, <1>7, <1>8, OnwardKeeps DEF InLog
  <1>10. ConsumedWasShown'
    BY <1>1, <1>6, <1>9 DEF IInv, ConsumedWasShown, Seen
  <1>11. TurnIsAll'
    BY <1>1, <1>4, <1>5, <1>9 DEF TurnIsAll
  <1> QED
    BY <1>1, <1>4, <1>7, <1>8, <1>10, <1>11, TurnKeeps

\* The acknowledged prefix of a source ends with a record of the batch, and
\* everything of the batch up to it is marked.
LEMMA PrefixIsMarked ==
    ASSUME TypeOK, NEW raw, raw \subseteq AllRecords, NEW src \in Sources
    PROVE  /\ Prefix(src, raw) \in 0 .. Len(log[src])
           /\ \/ Prefix(src, raw) = 0
              \/ \E d \in raw :
                    /\ d[1] = src /\ d[2] = Prefix(src, raw)
                    /\ \A s \in raw : s[1] = src /\ s[2] <= d[2] => s \in marks
  <1> DEFINE events == {r \in raw : r[1] = src}
             done == {r \in events : \A s \in events : s[2] <= r[2] => s \in marks}
  <1>1. Prefix(src, raw) = Highest(done)
    BY DEF Prefix
  <1>2. \A r \in done : r[2] \in Nat /\ r[2] <= Len(log[src])
    <2>1. \A r \in raw : r[1] = src => r[2] \in 1 .. Len(log[src])
      BY RecordsNamed
    <2> QED
      BY <2>1, RecordsNamed
  <1>3. Len(log[src]) \in Nat
    BY RecordsNamed
  <1>4. /\ Highest(done) \in 0 .. Len(log[src])
        /\ Highest(done) = 0 \/ \E r \in done : r[2] = Highest(done)
    <2> HIDE DEF done
    <2> QED
      BY <1>2, <1>3, HighestIsReached
  <1> QED
    BY <1>1, <1>4

\* The cursor moves over a prefix all of which was shown.
LEMMA TurnAdvanceKeeps ==
    ASSUME IInv, TurnAdvance
    PROVE  IInv'
  <1> DEFINE raw == turn.raw
  <1>1. /\ UNCHANGED <<log, marks, rendered>>
        /\ UNCHANGED <<notifier, polling, identity, watch, orphaned>>
        /\ turn.pc = "advance" /\ AdvanceOver(turn.event, turn.raw)
        /\ turn' = [pc |-> "admit", raw |-> turn.raw]
    BY DEF TurnAdvance
  <1>2. TypeOK
    BY DEF IInv
  <1>3. turn.raw \in SUBSET Events
    BY <1>1, TurnFields DEF IInv
  <1>4. TurnOK' /\ turn'.pc = "admit" /\ turn'.raw = turn.raw
    BY <1>1, <1>3 DEF TurnOK
  <1>5. /\ turn.raw \subseteq AllRecords
        /\ \A s \in turn.raw : \A r \in InLog(s[1]) :
              r[2] <= s[2] => r \in turn.raw \/ Seen(r)
    BY <1>1 DEF IInv, TurnIsAll
  <1>6. ASSUME NEW src \in Sources
        PROVE  /\ cursor'[src] \in Nat /\ cursor[src] <= cursor'[src]
               /\ cursor'[src] <= Len(log[src])
               /\ cursor'[src] = cursor[src] \/ cursor'[src] = Prefix(src, raw)
    <2>1. \/ cursor'[src] = Max({cursor[src], Prefix(src, raw)})
          \/ cursor'[src] = cursor[src]
      BY <1>1 DEF AdvanceOver
    <2>2. Prefix(src, raw) \in 0 .. Len(log[src])
      BY <1>2, <1>5, PrefixIsMarked
    <2>3. cursor[src] \in Nat /\ cursor[src] <= Len(log[src]) /\ Len(log[src]) \in Nat
      BY <1>2, RecordsNamed DEF TypeOK
    <2> QED
      BY <2>1, <2>2, <2>3, MaxOfTwo
  <1>7. cursor' \in [Sources -> Nat]
    <2>1. cursor' = [src \in Sources |-> cursor'[src]]
      BY <1>1 DEF AdvanceOver
    <2> QED
      BY <1>6, <2>1
  <1>8. TypeOK'
    BY <1>1, <1>2, <1>4, <1>6, <1>7, TurnTyped DEF TypeOK
  <1>9. Onward
    BY <1>1, <1>6 DEF Onward
  <1>10. /\ \A r : Seen(r) => Seen(r)'
         /\ AllRecords' = AllRecords /\ \A src : InLog(src)' = InLog(src)
    BY <1>1, <1>8, <1>9, OnwardKeeps DEF InLog
  <1>11. ConsumedWasShown'
    <2>1. ASSUME NEW r \in AllRecords, r[2] <= cursor'[r[1]] \/ r \in marks
          PROVE  Seen(r)
      <3>1. PICK src \in Sources : r \in InLog(src)
        BY <1>2, RecordsNamed
      <3>2. r[1] = src /\ r[2] \in Nat /\ r[2] > 0
        BY <1>2, <3>1, RecordsNamed
      <3>3. CASE r[2] <= cursor[src] \/ r \in marks
        BY <3>2, <3>3 DEF IInv, ConsumedWasShown, Seen
      <3>4. CASE r[2] <= Prefix(src, raw)
        <4>1. Prefix(src, raw) # 0
          BY <3>2, <3>4
        <4>2. PICK d \in raw :
                 /\ d[1] = src /\ d[2] = Prefix(src, raw)
                 /\ \A s \in raw : s[1] = src /\ s[2] <= d[2] => s \in marks
          BY <1>2, <1>5, <4>1, PrefixIsMarked
        <4>3. r \in raw \/ Seen(r)
          BY <1>5, <3>1, <3>4, <4>2
        <4>4. r \in raw => r \in marks
          BY <3>2, <3>4, <4>2
        <4> QED
          BY <4>3, <4>4 DEF IInv, ConsumedWasShown, Seen
      <3> QED
        BY <1>6, <2>1, <3>2, <3>3, <3>4
    <2> QED
      BY <1>1, <1>10, <2>1 DEF ConsumedWasShown, Seen
  <1>12. TurnIsAll'
    BY <1>4, <1>5, <1>10 DEF TurnIsAll
  <1> QED
    BY <1>1, <1>4, <1>8, <1>9, <1>11, <1>12, TurnKeeps

(***************************************************************************)
(* Every behaviour.                                                        *)
(***************************************************************************)
\* At the start nothing is written, read or claimed.
LEMMA InitIInv == Init => IInv
  <1> SUFFICES ASSUME Init PROVE IInv
    OBVIOUS
  <1>1. log = [src \in Sources |-> <<>>] /\ \A src \in Sources : log[src] = <<>>
    BY DEF Init
  <1>2. "mb" \in Sources /\ "meet" \in Sources
    BY DEF Sources
  <1>3. AllRecords = {}
    BY <1>1 DEF AllRecords, InLog
  <1>4. CardOK
    BY DEF Init, CardOK
  <1>5. card.mode \in {"none", "foreman", "peek", "watch", "left"}
    BY <1>4 DEF CardOK, NoCard
  <1>6. log \in [Sources -> Seq(Records)]
    BY <1>1
  <1>7. watch = NoWatch /\ watch.pc = "off" /\ turn = NoTurn /\ turn.pc = "none"
    BY DEF Init, NoWatch, NoTurn
  <1>8. gate \in [sampled : BOOLEAN, sum : Nat] /\ ~gate.sampled
    BY DEF Init, Unsampled
  <1>9. TypeOK
    <2>1. \A src \in Sources : cursor[src] = 0 /\ Len(log[src]) = 0
      BY <1>1 DEF Init
    <2>2. cursor \in [Sources -> Nat] /\ \A src \in Sources : cursor[src] <= Len(log[src])
      BY <2>1 DEF Init
    <2>3. {queued, armed, rescan, missed} \subseteq BOOLEAN
      BY DEF Init
    <2> QED
      BY <1>5, <1>6, <1>7, <1>8, <2>2, <2>3 DEF Init, TypeOK
  <1>10. WatchOK /\ TurnOK
    BY <1>7 DEF WatchOK, TurnOK
  <1>11. BoardOK
    BY <1>1, <1>2 DEF BoardOK
  <1>12. ConsumedWasShown
    BY <1>3 DEF ConsumedWasShown
  <1>13. BatchIsAll /\ TurnIsAll /\ PendingIsRead
    BY <1>7 DEF BatchIsAll, TurnIsAll, PendingIsRead, Holding, Reading
  <1>14. SampleIsPast
    BY <1>7, <1>8 DEF Init, SampleIsPast
  <1> QED
    BY <1>4, <1>9, <1>10, <1>11, <1>12, <1>13, <1>14 DEF IInv

\* A step of nobody.
LEMMA StutterKeeps ==
    ASSUME IInv, UNCHANGED vars
    PROVE  IInv'
  <1>1. Quiet /\ UNCHANGED <<notifier, polling, identity, watch, orphaned>>
    BY DEF vars, Quiet
  <1>2. UNCHANGED <<epoch, queued, armed, gate, rescan, missed, alive, card>>
    BY <1>1 DEF notifier, polling, identity
  <1>3. TypeOK' /\ CardOK' /\ SampleIsPast'
    BY <1>1, <1>2, StoresTyped DEF IInv, TypeOK, CardOK, SampleIsPast
  <1>4. PendingIsRead'
    BY <1>1, <1>2, PendingStays DEF IInv, PendingIsRead, StillSince, Covered, Sources
  <1> QED
    BY <1>1, <1>3, <1>4, BatchStays, ReadersStay DEF IInv

\* Every step keeps it.
LEMMA NextKeeps ==
    ASSUME Limit = 0, IInv, [Next]_vars
    PROVE  IInv'
  <1>1. CASE Join \/ Adopt \/ Refused \/ \E s \in Sessions : Claim(s)
    BY <1>1, JoinKeeps
  <1>2. CASE Check
    BY <1>2, CheckKeeps
  <1>3. CASE Sample
    BY <1>3, SampleKeeps
  <1>4. CASE ReadBoard
    BY <1>4, ReadBoardKeeps
  <1>5. CASE ReadMeet
    BY <1>5, ReadMeetKeeps
  <1>6. CASE Render
    BY <1>6, RenderKeeps
  <1>7. CASE Ack
    BY <1>7, AckKeeps
  <1>8. CASE Pause
    BY <1>8, PauseKeeps
  <1>9. CASE TurnStart \/ TurnEnds
    BY <1>9, TurnStartKeeps
  <1>10. CASE \E src \in Sources : \E r \in InLog(src) : TurnDeliver(r)
    BY <1>10, TurnDeliverKeeps
  <1>11. CASE TurnMark
    BY <1>11, TurnMarkKeeps
  <1>12. CASE TurnAdvance
    BY <1>12, TurnAdvanceKeeps
  <1>13. CASE Notify
    BY <1>13, NotifyKeeps
  <1>14. CASE RescanDue \/ \E s \in Sessions : SessionEnds(s)
    BY <1>14, EnvironmentKeeps
  <1>15. CASE \/ Ends \/ Killed
              \/ PeekLapses \/ \E s \in Sessions : Peek(s)
    BY <1>15, EndsKeeps, PeekKeeps
  <1>16. CASE \E isLost \in BOOLEAN : Post(isLost)
    BY <1>16, PostKeeps
  <1>17. CASE UNCHANGED vars
    BY <1>17, StutterKeeps
  <1> QED
    BY <1>1, <1>2, <1>3, <1>4, <1>5, <1>6, <1>7, <1>8, <1>9, <1>10, <1>11, <1>12,
       <1>13, <1>14, <1>15, <1>16, <1>17 DEF Next, Loop, Turn, Disturbance

\* Without a limit, in every state: what a reader goes on to acknowledge is in
\* the batch it writes first or was seen before, and what is pending is being
\* read unless something was written since the gate was sampled.
THEOREM ReadersAgree == Limit = 0 /\ Spec => []IInv
  <1> SUFFICES ASSUME Limit = 0 PROVE Spec => []IInv
    OBVIOUS
  <1>1. IInv /\ [Next]_vars => IInv'
    BY NextKeeps
  <1> QED
    BY <1>1, InitIInv, PTL DEF Spec

\* The state keeps its shape: no cursor beyond its source, no mark on a record
\* that is not on file (MarkSeen, MarkSeenThrough).
THEOREM InboxTyped == Limit = 0 /\ Spec => []TypeOK
  <1> SUFFICES ASSUME Limit = 0 PROVE Spec => []TypeOK
    OBVIOUS
  <1>1. IInv => TypeOK
    BY DEF IInv
  <1> QED
    BY <1>1, ReadersAgree, PTL

\* Nothing is consumed unseen: what a cursor or a mark passes was written to a
\* reader, or its original was, or the reader wrote it
\* (acknowledgeTurnInboxItem, runUnifiedInboxWithPoll).
THEOREM NothingConsumedUnseen == Limit = 0 /\ Spec => []ConsumedWasShown
  <1> SUFFICES ASSUME Limit = 0 PROVE Spec => []ConsumedWasShown
    OBVIOUS
  <1>1. IInv => ConsumedWasShown
    BY DEF IInv
  <1> QED
    BY <1>1, ReadersAgree, PTL

\* A watch that pauses with its gate up to date is caught up, unless a native
\* event was lost (inboxPollGate.due and commit).
THEOREM QuietIsCaughtUp == Limit = 0 /\ Spec => []QuietMeansNothingNew
  <1> SUFFICES ASSUME Limit = 0 PROVE Spec => []QuietMeansNothingNew
    OBVIOUS
  <1>1. IInv => QuietMeansNothingNew
    BY DEF IInv, PendingIsRead, StillSince, QuietMeansNothingNew
  <1> QED
    BY <1>1, ReadersAgree, PTL

(***************************************************************************)
(* The owner, whatever the limit.  Only the place of the watch and its     *)
(* session matter: nothing is asked of what it reads.                      *)
(***************************************************************************)
Placed ==
    watch = NoWatch \/ /\ {"pc", "session"} \subseteq DOMAIN watch
                       /\ watch.pc # "join" => "adopted" \in DOMAIN watch

\* A batch that was written after the session's end is the last one, if the
\* watch has an owner to look at.
OrphanLeaves ==
    \/ Unguarded
    \/ orphaned = 0
    \/ /\ orphaned = 1 /\ watch.pc \in {"ack", "check"}
       /\ watch.session \notin alive

\* No step renders twice for a session that is gone: on the way from one
\* batch to the next is the look at the owner.
LEMMA OrphanKeeps ==
    ASSUME Placed, OrphanLeaves, [Next]_vars
    PROVE  Placed' /\ OrphanLeaves'
  <1>1. NoWatch.pc = "off"
    BY DEF NoWatch
  <1>2. ASSUME UNCHANGED <<watch, orphaned>>, alive' \subseteq alive
        PROVE  Placed' /\ OrphanLeaves'
    BY <1>2 DEF Placed, OrphanLeaves, Unguarded
  <1>3. ASSUME watch' = NoWatch, orphaned' = 0
        PROVE  Placed' /\ OrphanLeaves'
    BY <1>3 DEF Placed, OrphanLeaves
  <1>4. ASSUME Placed', Unguarded => Unguarded', orphaned' = orphaned,
               watch.pc \notin {"ack", "check"}
        PROVE  Placed' /\ OrphanLeaves'
    BY <1>4 DEF OrphanLeaves
  <1>5. CASE \E s \in Sessions : Claim(s)
    <2>1. PICK s \in Sessions : Claim(s)
      BY <1>5
    <2>2. watch.pc = "off" /\ orphaned' = orphaned
      BY <1>1, <2>1 DEF Claim
    <2>3. watch' = [pc |-> "join", session |-> s]
      BY <2>1 DEF Claim
    <2> QED
      BY <1>4, <2>2, <2>3 DEF Placed, Unguarded
  <1>6. CASE Join \/ Adopt
    <2>1. \E adopted :
             watch' = [pc |-> "check", session |-> watch.session,
                       adopted |-> adopted]
      BY <1>6 DEF Join, Adopt, Attend
    <2>2. orphaned' = orphaned /\ watch.pc = "join"
      BY <1>6 DEF Join, Adopt, Attend
    <2> QED
      BY <1>4, <2>1, <2>2 DEF Placed, Unguarded
  <1>7. CASE Refused
    BY <1>7 DEF Refused, Placed, OrphanLeaves, Unguarded
  <1>8. CASE Check
    <2>1. CASE OwnerLive
      <3>1. /\ watch' = [watch EXCEPT !.pc = "sample"] /\ orphaned' = orphaned
            /\ watch.pc = "check"
        BY <1>8, <2>1 DEF Check
      <3>2. Unguarded \/ orphaned = 0
        BY <2>1, <3>1 DEF OwnerLive, OrphanLeaves, Unguarded
      <3>3. /\ DOMAIN watch' = DOMAIN watch /\ watch # NoWatch
            /\ watch'.pc = "sample" /\ "adopted" \in DOMAIN watch
            /\ watch'.adopted = watch.adopted
        BY <1>1, <3>1 DEF Placed
      <3> QED
        BY <3>1, <3>2, <3>3 DEF Placed, OrphanLeaves, Unguarded
    <2>2. CASE ~OwnerLive
      BY <1>3, <1>8, <2>2 DEF Check, Leave, Gone
    <2> QED
      BY <2>1, <2>2
  <1>9. CASE Sample
    <2>1. watch.pc = "sample" /\ orphaned' = orphaned
      BY <1>9 DEF Sample
    <2>2. \/ watch' = [pc |-> "board", session |-> watch.session,
                       adopted |-> watch.adopted, sum |-> epoch, ok |-> armed']
          \/ watch' = [watch EXCEPT !.pc = "wait"]
      BY <1>9 DEF Sample
    <2>3. {"pc", "session", "adopted"} \subseteq DOMAIN watch
      BY <1>1, <2>1 DEF Placed
    <2>4. /\ {"pc", "session", "adopted"} \subseteq DOMAIN watch'
          /\ watch'.adopted = watch.adopted /\ watch'.pc \in {"board", "wait"}
      BY <2>2, <2>3
    <2> QED
      BY <1>4, <2>1, <2>4 DEF Placed, Unguarded
  <1>10. CASE ReadBoard \/ ReadMeet
    <2>1. watch.pc \in {"board", "meet"} /\ orphaned' = orphaned
      BY <1>10 DEF ReadBoard, ReadMeet
    <2>2. /\ {"pc", "session", "adopted"} \subseteq DOMAIN watch'
          /\ watch'.adopted = watch.adopted
          /\ watch'.pc \in {"meet", "render", "ack"}
      BY <1>10 DEF ReadBoard, ReadMeet
    <2> QED
      BY <1>4, <2>1, <2>2 DEF Placed, Unguarded
  <1>11. CASE Render
    <2>1. /\ watch' = [watch EXCEPT !.pc = "ack"] /\ alive' = alive
          /\ orphaned' = orphaned + IF watch.session \in alive THEN 0 ELSE 1
          /\ watch.pc = "render"
      BY <1>11 DEF Render, identity
    <2>2. {"pc", "session", "adopted"} \subseteq DOMAIN watch
      BY <1>1, <2>1 DEF Placed
    <2>3. /\ watch'.pc = "ack" /\ watch'.session = watch.session
          /\ watch'.adopted = watch.adopted
          /\ {"pc", "session", "adopted"} \subseteq DOMAIN watch'
      BY <2>1, <2>2
    <2>4. Unguarded \/ orphaned = 0
      BY <2>1 DEF OrphanLeaves
    <2> QED
      BY <2>1, <2>3, <2>4 DEF Placed, OrphanLeaves, Unguarded
  <1>12. CASE Ack
    <2>1. /\ orphaned' = orphaned /\ alive' = alive /\ watch.pc = "ack"
          /\ \/ watch' = watch
             \/ \E a : watch' = [watch EXCEPT !.acks = @ \ {a}]
      BY <1>12 DEF Ack, identity
    <2>2. {"pc", "session", "adopted"} \subseteq DOMAIN watch
      BY <1>1, <2>1 DEF Placed
    <2>3. /\ watch'.pc = watch.pc /\ watch'.session = watch.session
          /\ watch'.adopted = watch.adopted
          /\ {"pc", "session", "adopted"} \subseteq DOMAIN watch'
      BY <2>1, <2>2
    <2> QED
      BY <2>1, <2>3 DEF Placed, OrphanLeaves, Unguarded
  <1>13. CASE Pause
    <2>1. /\ watch' = [pc |-> "check", session |-> watch.session,
                       adopted |-> watch.adopted]
          /\ orphaned' = orphaned /\ alive' = alive
          /\ watch.pc \in {"wait", "ack"}
      BY <1>13 DEF Pause, identity
    <2> QED
      BY <2>1 DEF Placed, OrphanLeaves, Unguarded
  <1>14. CASE Ends \/ Killed
    BY <1>3, <1>14 DEF Ends, Killed, Leave, Gone
  <1>15. CASE \/ Notify \/ RescanDue \/ TurnStart \/ TurnMark \/ TurnAdvance
              \/ TurnEnds \/ UNCHANGED vars
    BY <1>2, <1>15 DEF Notify, RescanDue, TurnStart, TurnMark, TurnAdvance,
           TurnEnds, identity, vars
  <1>16. CASE \/ \E src \in Sources : \E r \in InLog(src) : TurnDeliver(r)
              \/ \E isLost \in BOOLEAN : Post(isLost)
              \/ \E s \in Sessions : SessionEnds(s) \/ Peek(s)
              \/ PeekLapses
    BY <1>2, <1>16 DEF TurnDeliver, Post, Write, SessionEnds, Peek, PeekLapses,
           identity
  <1> QED
    BY <1>5, <1>6, <1>7, <1>8, <1>9, <1>10, <1>11, <1>12, <1>13, <1>14, <1>15,
       <1>16 DEF Next, Loop, Turn, Disturbance

\* A watch whose session has ended drains at most the batch it was reading,
\* with a limit and without, when it has an owner to look at (inbox_owner.go: the
\* owner is looked at before every read; not by a watch that shares the card of
\* a --peek).
THEOREM OrphansStop == Spec => []OrphanStops
  <1>1. Init => Placed /\ OrphanLeaves
    BY DEF Init, Placed, OrphanLeaves
  <1>2. Placed /\ OrphanLeaves /\ [Next]_vars => Placed' /\ OrphanLeaves'
    BY OrphanKeeps
  <1>3. OrphanLeaves => OrphanStops
    BY DEF OrphanLeaves, OrphanStops
  <1> QED
    BY <1>1, <1>2, <1>3, PTL DEF Spec
=============================================================================
