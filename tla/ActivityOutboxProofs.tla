------------------------ MODULE ActivityOutboxProofs ------------------------
(***************************************************************************)
(* The outbox, for any events, subscribers, interests and limits, and any  *)
(* kills, failed publications and failed appends: its records are numbered *)
(* apart, copies and wakes are right, and where an append that fails       *)
(* leaves nothing, the journal is the at-least-once channel.               *)
(***************************************************************************)
EXTENDS ActivityOutbox, FiniteSetTheorems, WellFoundedInduction, TLAPS

(***************************************************************************)
(* Routing.                                                                *)
(***************************************************************************)
ReasonNames == {"mention", "assignment", "ownership",
                "subscription", "dependency", "membership"}

\* A route: for each of its recipients a reason and whether it may wake.
Routes == UNION {[R -> [reason : ReasonNames, wake : BOOLEAN]] :
                    R \in SUBSET Subscribers}

LEMMA RankOfReasons ==
    /\ DOMAIN Rank = ReasonNames
    /\ Rank["mention"] = 1 /\ Rank["assignment"] = 2 /\ Rank["ownership"] = 3
    /\ Rank["subscription"] = 4 /\ Rank["dependency"] = 5
    /\ Rank["membership"] = 6
  <1>1. {Reasons[i] : i \in 1 .. 6} = ReasonNames
    <2>1. 1 .. 6 = {1, 2, 3, 4, 5, 6}
      OBVIOUS
    <2>2. /\ Reasons[1] = "mention" /\ Reasons[2] = "assignment"
          /\ Reasons[3] = "ownership" /\ Reasons[4] = "subscription"
          /\ Reasons[5] = "dependency" /\ Reasons[6] = "membership"
      BY DEF Reasons
    <2> QED
      BY <2>1, <2>2 DEF ReasonNames
  <1>2. \A r \in ReasonNames : Rank[r] = CHOOSE i \in 1 .. 6 : Reasons[i] = r
    BY <1>1 DEF Rank
  <1>3. \A i \in 1 .. 6 :
           Reasons[i] = IF i = 1 THEN "mention" ELSE IF i = 2 THEN "assignment"
                        ELSE IF i = 3 THEN "ownership"
                        ELSE IF i = 4 THEN "subscription"
                        ELSE IF i = 5 THEN "dependency" ELSE "membership"
    BY DEF Reasons
  <1>4. DOMAIN Rank = ReasonNames
    BY <1>1 DEF Rank
  <1> QED
    BY <1>2, <1>3, <1>4 DEF ReasonNames

\* Whatever the reasons that compete, one of them is the strongest.
LEMMA StrongestExists ==
    ASSUME NEW R \in SUBSET ReasonNames, R # {}
    PROVE  \E r \in R : \A q \in R : Rank[r] <= Rank[q]
  <1>1. \A q \in R : \/ q = "mention" /\ Rank[q] = 1
                     \/ q = "assignment" /\ Rank[q] = 2
                     \/ q = "ownership" /\ Rank[q] = 3
                     \/ q = "subscription" /\ Rank[q] = 4
                     \/ q = "dependency" /\ Rank[q] = 5
                     \/ q = "membership" /\ Rank[q] = 6
    BY RankOfReasons DEF ReasonNames
  <1>2. \A q \in R : Rank[q] \in 1 .. 6
    BY <1>1
  <1>3. CASE "mention" \in R
    BY <1>2, <1>3, RankOfReasons
  <1>4. CASE "mention" \notin R /\ "assignment" \in R
    BY <1>1, <1>4, RankOfReasons
  <1>5. CASE {"mention", "assignment"} \cap R = {} /\ "ownership" \in R
    BY <1>1, <1>5, RankOfReasons
  <1>6. CASE /\ {"mention", "assignment", "ownership"} \cap R = {}
             /\ "subscription" \in R
    BY <1>1, <1>6, RankOfReasons
  <1>7. CASE {"mention", "assignment", "ownership", "subscription"} \cap R = {}
    BY <1>1, <1>7, RankOfReasons
  <1> QED
    BY <1>3, <1>4, <1>5, <1>6, <1>7

LEMMA WakeReasonsAreStrong ==
    \A r \in ReasonNames : r \in WakeReasons <=> Rank[r] <= 3
  BY RankOfReasons DEF ReasonNames, WakeReasons

\* Only subscribers are claimed, each under one of the six reasons.
LEMMA ClaimsTyped ==
    ASSUME NEW e \in Envelopes, DOMAIN interests \subseteq Subscribers
    PROVE  Claims(e, interests) \subseteq Subscribers \X ReasonNames
  BY OutboxConstants DEF Claims, ReasonNames

\* What Route makes of the offers to one of its recipients.
LEMMA RouteOf ==
    ASSUME NEW e \in Envelopes, DOMAIN interests \subseteq Subscribers,
           NEW s \in DOMAIN Route(e, interests)
    PROVE  /\ s \in Subscribers
           /\ Route(e, interests)[s].reason \in ReasonNames
           /\ Route(e, interests)[s].wake \in BOOLEAN
           /\ Route(e, interests)[s].wake
                 <=> MayWake(s, Route(e, interests)[s].reason, interests)
           /\ Route(e, interests)[s] \in [reason : ReasonNames, wake : BOOLEAN]
           /\ \A c \in Claims(e, interests) :
                 c[1] = s /\ Offered(s, c[2], e, interests)
                 => Rank[Route(e, interests)[s].reason] <= Rank[c[2]]
  <1> DEFINE offers == {c \in Claims(e, interests) :
                           Offered(c[1], c[2], e, interests)}
             R == {c[2] : c \in {o \in offers : o[1] = s}}
             best == CHOOSE r \in R : \A c \in offers : c[1] = s => Rank[r] <= Rank[c[2]]
  <1>1. /\ s \in {c[1] : c \in offers}
        /\ Route(e, interests)[s] = [reason |-> best, wake |-> MayWake(s, best, interests)]
    BY DEF Route
  <1>2. offers \subseteq Subscribers \X ReasonNames
    BY ClaimsTyped
  <1>3. R \in SUBSET ReasonNames /\ R # {} /\ s \in Subscribers
    BY <1>1, <1>2
  <1>4. PICK r \in R : \A q \in R : Rank[r] <= Rank[q]
    BY <1>3, StrongestExists
  <1>5. \A c \in offers : c[1] = s => c[2] \in R
    OBVIOUS
  <1>6. r \in R /\ \A c \in offers : c[1] = s => Rank[r] <= Rank[c[2]]
    BY <1>4, <1>5
  <1> HIDE DEF R
  <1>7. best \in R /\ \A c \in offers : c[1] = s => Rank[best] <= Rank[c[2]]
    BY <1>6
  <1> HIDE DEF best
  <1>8. MayWake(s, best, interests) \in BOOLEAN
    BY DEF MayWake
  <1>9. \A c \in Claims(e, interests) :
           c[1] = s /\ Offered(s, c[2], e, interests) => c \in offers
    OBVIOUS
  <1> QED
    BY <1>1, <1>3, <1>7, <1>8, <1>9

LEMMA RouteTyped ==
    ASSUME NEW e \in Envelopes, DOMAIN interests \subseteq Subscribers
    PROVE  Route(e, interests) \in Routes
  <1> DEFINE route == Route(e, interests)
  <1>1. DOMAIN route \subseteq Subscribers
    BY RouteOf
  <1>2. \A s \in DOMAIN route : route[s] \in [reason : ReasonNames, wake : BOOLEAN]
    BY RouteOf
  <1>3. route = [s \in DOMAIN route |-> route[s]]
    BY DEF Route
  <1> HIDE DEF route
  <1>4. route \in [DOMAIN route -> [reason : ReasonNames, wake : BOOLEAN]]
    BY <1>2, <1>3
  <1>5. route \in Routes
    BY <1>1, <1>4 DEF Routes
  <1> QED
    BY <1>5 DEF route

\* A reason that justifies a wake is not lost to one that does not, whatever
\* is declared and however many relationships compete.
LEMMA WakesAreKept ==
    ASSUME DOMAIN interests \subseteq Subscribers
    PROVE  WakeIsNotOutranked
  <1> SUFFICES ASSUME NEW e \in Envelopes, NEW s \in DOMAIN Route(e, interests),
                      NEW r \in WakeReasons,
                      <<s, r>> \in Claims(e, interests),
                      Offered(s, r, e, interests), MayWake(s, r, interests)
               PROVE  Route(e, interests)[s].wake
    BY DEF WakeIsNotOutranked
  <1>1. Rank[Route(e, interests)[s].reason] <= Rank[r]
    BY RouteOf
  <1>2. /\ r \in ReasonNames /\ Rank[r] <= 3
        /\ Route(e, interests)[s].reason \in ReasonNames
        /\ Rank[Route(e, interests)[s].reason] \in 1 .. 6 /\ Rank[r] \in 1 .. 6
    BY RouteOf, WakeReasonsAreStrong, RankOfReasons DEF WakeReasons, ReasonNames
  <1>3. Route(e, interests)[s].reason \in WakeReasons
    BY <1>1, <1>2, WakeReasonsAreStrong
  <1>4. MayWake(s, Route(e, interests)[s].reason, interests)
    BY <1>3 DEF MayWake
  <1> QED
    BY <1>4, RouteOf

(***************************************************************************)
(* Numbers: the largest of a finite set, and the next of a source.         *)
(***************************************************************************)
LEMMA LargestExists ==
    ASSUME NEW S \in SUBSET Nat, IsFiniteSet(S), S # {}
    PROVE  \E h \in S : \A n \in S : n <= h
  <1> DEFINE HasLargest(T) == \E h \in T : \A n \in T : n <= h
             B == {T \in SUBSET S : T # {} /\ ~HasLargest(T)}
  <1> SUFFICES ASSUME B # {} PROVE FALSE
    OBVIOUS
  <1>1. B \subseteq FiniteSubsetsOf(S)
    BY FS_FiniteSubsetsOfFinite
  <1>2. PICK T \in B : \A U \in B : ~ (<<U, T>> \in StrictSubsetOrdering(S))
    <2>1. IsWellFoundedOn(StrictSubsetOrdering(S), FiniteSubsetsOf(S))
      BY FS_StrictSubsetOrderingWellFounded
    <2> HIDE DEF B
    <2> QED
      BY <1>1, <2>1, WFMin
  <1>3. PICK x : x \in T
    OBVIOUS
  <1>4. T \ {x} # {}
    BY <1>3
  <1>5. T \ {x} \notin B
    BY <1>2, <1>3 DEF StrictSubsetOrdering
  <1>6. PICK m \in T \ {x} : \A n \in T \ {x} : n <= m
    BY <1>4, <1>5
  <1>7. x \in Nat /\ m \in Nat /\ T \subseteq Nat
    BY <1>3, <1>6
  <1>8. \A n \in T : n <= IF x <= m THEN m ELSE x
    BY <1>6, <1>7
  <1>9. HasLargest(T)
    BY <1>3, <1>6, <1>8
  <1> QED
    BY <1>9

LEMMA IdsFinite == IsFiniteSet(Ids)
  <1> DEFINE f == [e \in Envelopes |-> e.id]
  <1>1. f \in Surjection(Envelopes, Ids)
    BY DEF Surjection, Ids
  <1> QED
    BY <1>1, OutboxConstants, FS_Surjection

\* nextSeq gives a source a number above every one it has.
LEMMA NextSeqIsNew ==
    ASSUME NEW records, DOMAIN records \subseteq Ids,
           \A i \in DOMAIN records : records[i].seq \in Nat \ {0},
           NEW source
    PROVE  /\ NextSeq(records, source) \in Nat \ {0}
           /\ \A i \in DOMAIN records :
                 records[i].env.source = source
                 => records[i].seq < NextSeq(records, source)
  <1> DEFINE J == {j \in DOMAIN records : records[j].env.source = source}
             seqs == {records[i].seq : i \in J}
             f == [i \in J |-> records[i].seq]
  <1>1. IsFiniteSet(J)
    BY IdsFinite, FS_Subset
  <1>2. f \in Surjection(J, seqs)
    BY DEF Surjection
  <1>3. IsFiniteSet(seqs) /\ seqs \in SUBSET Nat
    BY <1>1, <1>2, FS_Surjection
  <1>4. NextSeq(records, source) =
           IF seqs = {} THEN 1 ELSE 1 + CHOOSE h \in seqs : \A n \in seqs : n <= h
    BY DEF NextSeq
  <1>5. \A i \in DOMAIN records :
           records[i].env.source = source => records[i].seq \in seqs
    OBVIOUS
  <1> HIDE DEF seqs
  <1>6. CASE seqs = {}
    BY <1>4, <1>5, <1>6
  <1>7. CASE seqs # {}
    <2>1. PICK h \in seqs : \A n \in seqs : n <= h
      BY <1>3, <1>7, LargestExists
    <2> DEFINE c == CHOOSE k \in seqs : \A n \in seqs : n <= k
    <2>2. c \in seqs /\ \A n \in seqs : n <= c
      BY <2>1
    <2>3. NextSeq(records, source) = 1 + c
      BY <1>4, <1>7
    <2> HIDE DEF c
    <2> QED
      BY <1>3, <1>5, <2>2, <2>3
  <1> QED
    BY <1>6, <1>7

(***************************************************************************)
(* Types.                                                                  *)
(***************************************************************************)
Records == {r \in [id : Ids, env : Envelopes, seq : Nat \ {0}, at : Nat,
                   to : Routes, served : SUBSET Subscribers,
                   woken : SUBSET Subscribers, published : BOOLEAN] :
               /\ r.env.id = r.id
               /\ r.served \subseteq DOMAIN r.to /\ r.woken \subseteq r.served}

Folds == {f \in UNION {[I -> Records] : I \in SUBSET Ids} :
             \A i \in DOMAIN f : f[i].id = i}

Operations ==
    [kind : {"emit", "recover"}, pc : {"journal", "fan", "wake", "prune"},
     rec : Records, records : Folds, tried : SUBSET Subscribers,
     last : SUBSET Subscribers, rest : SUBSET Ids]

Busy == op \in Operations

WholeOK == whole \in BOOLEAN /\ (whole => ~torn)

Typed ==
    /\ DOMAIN interests \subseteq Subscribers
    /\ journal \in Folds /\ tail \in Folds
    /\ torn \in BOOLEAN /\ (DOMAIN tail # {} => torn) /\ WholeOK
    /\ op = Idle \/ Busy
    /\ now \in Nat
    /\ copies \in [Ids -> [Subscribers -> Nat]]
    /\ steered \subseteq [id : Ids, to : Subscribers, at : Nat]
    /\ lapses \in [Ids -> Nat]

(***************************************************************************)
(* The inductive invariant.                                                *)
(***************************************************************************)
\* What an operation holds of the file: nothing but it writes while it lasts.
OpFits ==
    Busy =>
        /\ op.rest \subseteq DOMAIN op.records \ {op.rec.id}
        /\ op.kind = "emit" => op.rest = {}
        /\ op.kind = "recover" => /\ op.pc \in {"fan", "wake"}
                                  /\ op.rec.id \in DOMAIN op.records
        /\ op.pc = "journal" => op.rec.served = {} /\ ~op.rec.published
        /\ op.rec.id \in DOMAIN op.records => op.records[op.rec.id].to = op.rec.to
        /\ op.last \subseteq op.rec.served
        /\ op.pc # "wake" => op.last = {}
        /\ OnFile \subseteq DOMAIN op.records \cup {op.rec.id}

\* Every version of a record there is, on disk or in memory: the older line
\* comes to light again where the newer one is lost.
Versions == {journal[i] : i \in DOMAIN journal} \cup {tail[i] : i \in DOMAIN tail}
            \cup (IF op = Idle THEN {}
                  ELSE {op.rec} \cup {op.records[i] : i \in DOMAIN op.records})

\* Versions of one event share its number; those of two of a source do not.
Fits(q, r) ==
    IF q.id = r.id THEN q.seq = r.seq
    ELSE q.env.source = r.env.source => q.seq # r.seq

Numbered == \A q, r \in Versions : Fits(q, r)

\* Who is recorded as served has a copy.
ServedHolds == \A r \in Versions : \A s \in r.served : copies[r.id][s] > 0

\* The copies of an event that served does not account for are excused.
Covered(i, served) ==
    \A s \in Subscribers :
        copies[i][s] <= lapses[i] + IF s \in served THEN 1 ELSE 0

ServedOnFile(i) == IF i \in OnFile THEN Load[i].served ELSE {}

\* The file accounts for every event but the one being delivered, for which
\* the record in memory does; and so do the records that memory will write.
Excused ==
    /\ \A i \in Ids : (op = Idle \/ i # op.rec.id \/ op.pc = "prune")
                      => Covered(i, ServedOnFile(i))
    /\ Busy =>
          /\ Covered(op.rec.id, op.rec.served)
          /\ \A i \in DOMAIN op.records \ {op.rec.id} :
                op.kind = "emit" \/ i \in op.rest
                => Covered(i, op.records[i].served)

IInv == Typed /\ OpFits /\ Numbered /\ ServedHolds /\ Excused /\ WakeFollowsCopy

\* Until an append is first cut inside its line, the file is what memory says.
Followed ==
    /\ ~torn
    /\ Busy =>
          /\ op.kind = "emit" =>
                \A i \in Ids \ {op.rec.id} :
                    /\ i \in DOMAIN journal <=> i \in DOMAIN op.records
                    /\ i \in DOMAIN journal => journal[i] = op.records[i]
          /\ op.pc = "journal" => op.rec.id \notin DOMAIN journal
          /\ op.pc \in {"fan", "wake"} =>
                /\ op.rec.id \in DOMAIN journal
                /\ ~journal[op.rec.id].published
                /\ journal[op.rec.id].to = op.rec.to
          /\ op.pc = "prune" =>
                op.rec.id \in DOMAIN journal /\ journal[op.rec.id] = op.rec
          /\ \A i \in op.rest : /\ i \in DOMAIN journal
                                /\ journal[i] = op.records[i]
                                /\ ~journal[i].published

(***************************************************************************)
(* Lines and folds.                                                        *)
(***************************************************************************)
LEMMA FoldIs ==
    ASSUME NEW f
    PROVE  f \in Folds <=> /\ f = [i \in DOMAIN f |-> f[i]]
                           /\ DOMAIN f \subseteq Ids
                           /\ \A i \in DOMAIN f : f[i] \in Records /\ f[i].id = i
  <1>1. ASSUME f \in Folds
        PROVE  /\ f = [i \in DOMAIN f |-> f[i]] /\ DOMAIN f \subseteq Ids
               /\ \A i \in DOMAIN f : f[i] \in Records /\ f[i].id = i
    <2>1. PICK I \in SUBSET Ids : f \in [I -> Records]
      BY <1>1 DEF Folds
    <2>2. \A i \in DOMAIN f : f[i].id = i
      BY <1>1 DEF Folds
    <2> QED
      BY <2>1, <2>2
  <1>2. ASSUME f = [i \in DOMAIN f |-> f[i]], DOMAIN f \subseteq Ids,
               \A i \in DOMAIN f : f[i] \in Records /\ f[i].id = i
        PROVE  f \in Folds
    <2>1. f \in [DOMAIN f -> Records]
      BY <1>2
    <2> QED
      BY <1>2, <2>1 DEF Folds
  <1> QED
    BY <1>1, <1>2

LEMMA RecordFields ==
    ASSUME NEW r \in Records
    PROVE  /\ r.id \in Ids /\ r.env \in Envelopes /\ r.env.id = r.id
           /\ r.seq \in Nat \ {0} /\ r.at \in Nat
           /\ DOMAIN r.to \subseteq Subscribers
           /\ r.served \subseteq DOMAIN r.to /\ r.woken \subseteq r.served
           /\ r.published \in BOOLEAN
  BY DEF Records, Routes

\* Two records of one event are of one source.
LEMMA SourceOfId ==
    ASSUME NEW q \in Records, NEW r \in Records, q.id = r.id
    PROVE  q.env.source = r.env.source
  BY RecordFields, OutboxConstants

LEMMA NoLineIsFold == NoLine \in Folds /\ DOMAIN NoLine = {}
  <1>1. NoLine = [i \in DOMAIN NoLine |-> NoLine[i]] /\ DOMAIN NoLine = {}
    BY DEF NoLine
  <1> QED
    BY <1>1, FoldIs

LEMMA LineIsFold ==
    ASSUME NEW r \in Records
    PROVE  /\ Line(r) \in Folds /\ DOMAIN Line(r) = {r.id} /\ Line(r)[r.id] = r
  <1> DEFINE f == Line(r)
  <1>1. /\ f = [i \in DOMAIN f |-> f[i]] /\ DOMAIN f = {r.id}
        /\ \A i \in DOMAIN f : f[i] = r
    BY DEF Line
  <1>2. \A i \in DOMAIN f : f[i] \in Records /\ f[i].id = i
    BY <1>1
  <1> HIDE DEF f
  <1>3. f \in Folds
    BY <1>1, <1>2, FoldIs, RecordFields
  <1> QED
    BY <1>1, <1>3 DEF f

LEMMA PutIsFold ==
    ASSUME NEW f \in Folds, NEW r \in Records
    PROVE  /\ Put(f, r) \in Folds
           /\ DOMAIN Put(f, r) = DOMAIN f \cup {r.id}
           /\ Put(f, r)[r.id] = r
           /\ \A i \in DOMAIN f : i # r.id => Put(f, r)[i] = f[i]
  <1> DEFINE g == Put(f, r)
  <1>1. /\ g = [i \in DOMAIN g |-> g[i]]
        /\ DOMAIN g = DOMAIN f \cup {r.id}
        /\ \A i \in DOMAIN g : g[i] = IF i = r.id THEN r ELSE f[i]
    BY DEF Put
  <1>2. DOMAIN f \subseteq Ids /\ r.id \in Ids
        /\ \A i \in DOMAIN f : f[i] \in Records /\ f[i].id = i
    BY FoldIs, RecordFields
  <1> HIDE DEF g
  <1>3. g \in Folds
    BY <1>1, <1>2, FoldIs
  <1> QED
    BY <1>1, <1>3 DEF g

\* load, read from a journal whose last line may not be ended.
LEMMA LoadIsFold ==
    ASSUME journal \in Folds, tail \in Folds
    PROVE  /\ Load \in Folds /\ DOMAIN Load = OnFile /\ OnFile \subseteq Ids
           /\ \A i \in OnFile :
                 \/ i \in DOMAIN tail /\ Load[i] = tail[i]
                 \/ i \in DOMAIN journal /\ Load[i] = journal[i]
           /\ \A i \in OnFile : Load[i] \in Records /\ Load[i].id = i
  <1> DEFINE g == Load
  <1>1. /\ g = [i \in DOMAIN g |-> g[i]] /\ DOMAIN g = OnFile
        /\ \A i \in OnFile : g[i] = IF i \in DOMAIN tail THEN tail[i] ELSE journal[i]
    BY DEF Load
  <1>2. /\ DOMAIN journal \subseteq Ids /\ DOMAIN tail \subseteq Ids
        /\ \A i \in DOMAIN journal : journal[i] \in Records /\ journal[i].id = i
        /\ \A i \in DOMAIN tail : tail[i] \in Records /\ tail[i].id = i
    BY FoldIs
  <1> HIDE DEF g
  <1>3. \A i \in OnFile : g[i] \in Records /\ g[i].id = i
    BY <1>1, <1>2 DEF OnFile
  <1>4. g \in Folds /\ OnFile \subseteq Ids
    BY <1>1, <1>2, <1>3, FoldIs DEF OnFile
  <1> QED
    BY <1>1, <1>3, <1>4 DEF g, OnFile

LEMMA LapseCounts ==
    ASSUME lapses \in [Ids -> Nat], NEW ids, Lapse(ids)
    PROVE  /\ lapses' \in [Ids -> Nat]
           /\ \A i \in Ids : /\ lapses'[i] >= lapses[i]
                             /\ i \in ids => lapses'[i] = lapses[i] + 1
  BY DEF Lapse

(***************************************************************************)
(* The operation under way.                                                *)
(***************************************************************************)
LEMMA BusyFields ==
    ASSUME Busy
    PROVE  /\ op # Idle /\ op.kind \in {"emit", "recover"}
           /\ op.pc \in {"journal", "fan", "wake", "prune"}
           /\ op.rec \in Records /\ op.records \in Folds
           /\ op.tried \subseteq Subscribers /\ op.last \subseteq Subscribers
           /\ op.rest \subseteq Ids
  BY DEF Busy, Operations, Idle

LEMMA BusyOr == ASSUME Typed PROVE op # Idle <=> Busy
  BY BusyFields DEF Typed

\* What there is of an event: its versions, each with its id.
LEMMA VersionsTyped ==
    ASSUME Typed
    PROVE  /\ \A v \in Versions : v \in Records
           /\ \A i \in OnFile : Load[i] \in Versions
           /\ \A i \in DOMAIN journal : journal[i] \in Versions
           /\ \A i \in DOMAIN tail : tail[i] \in Versions
           /\ Busy => /\ op.rec \in Versions
                      /\ \A i \in DOMAIN op.records : op.records[i] \in Versions
  <1>1. /\ \A i \in DOMAIN journal : journal[i] \in Records
        /\ \A i \in DOMAIN tail : tail[i] \in Records
    BY FoldIs DEF Typed
  <1>2. Busy => /\ op.rec \in Records /\ op # Idle
                /\ \A i \in DOMAIN op.records : op.records[i] \in Records
    BY BusyFields, FoldIs
  <1>3. \A i \in OnFile : \/ i \in DOMAIN tail /\ Load[i] = tail[i]
                          \/ i \in DOMAIN journal /\ Load[i] = journal[i]
    BY LoadIsFold DEF Typed
  <1>4. op = Idle \/ Busy
    BY DEF Typed
  <1> QED
    BY <1>1, <1>2, <1>3, <1>4 DEF Versions

\* q is a version of the event that r is a version of, numbered alike.
Alike(q, r) == q.id = r.id /\ q.seq = r.seq /\ q.env.source = r.env.source

\* A step that makes no version but from one that there was.
LEMMA NumbersStay ==
    ASSUME Numbered, \A q \in Versions' : \E r \in Versions : Alike(q, r)
    PROVE  Numbered'
  <1> SUFFICES ASSUME NEW q \in Versions', NEW r \in Versions'
               PROVE  Fits(q, r)
    BY DEF Numbered, Fits
  <1>1. PICK p \in Versions : Alike(q, p)
    OBVIOUS
  <1>2. PICK t \in Versions : Alike(r, t)
    OBVIOUS
  <1>3. Fits(p, t)
    BY DEF Numbered
  <1> QED
    BY <1>1, <1>2, <1>3 DEF Alike, Fits

(***************************************************************************)
(* The beginning, and what begins an operation.                            *)
(***************************************************************************)
LEMMA InvInit == ASSUME Init PROVE IInv
  <1>1. /\ journal \in Folds /\ tail \in Folds
        /\ DOMAIN journal = {} /\ DOMAIN tail = {}
    BY NoLineIsFold DEF Init
  <1>2. ~Busy
    BY BusyFields DEF Init
  <1>3. /\ copies \in [Ids -> [Subscribers -> Nat]] /\ lapses \in [Ids -> Nat]
        /\ \A i \in Ids, s \in Subscribers : copies[i][s] = 0 /\ lapses[i] = 0
    BY DEF Init
  <1>4. Typed
    BY <1>1, <1>3 DEF Init, Typed, WholeOK
  <1>5. Versions = {}
    BY <1>1 DEF Init, Versions
  <1>6. Excused
    BY <1>2, <1>3 DEF Excused, Covered
  <1> QED
    BY <1>2, <1>4, <1>5, <1>6
       DEF Init, IInv, OpFits, Numbered, ServedHolds, WakeFollowsCopy

\* An operation that begins reads the file and takes up one record of it, or
\* one that has a number of its own.
LEMMA OpeningKeeps ==
    ASSUME IInv, op = Idle,
           NEW kind \in {"emit", "recover"}, NEW pc \in {"journal", "fan"},
           NEW rec \in Records, NEW rest \in SUBSET (OnFile \ {rec.id}),
           op' = Operation(kind, pc, rec, rest),
           UNCHANGED <<interests, file, now, bus, lapses>>,
           kind = "emit" => rest = {},
           kind = "recover" => pc = "fan" /\ rec.id \in OnFile,
           pc = "journal" => rec.id \notin OnFile /\ ~rec.published,
           rec.id \in OnFile => rec = Load[rec.id],
           rec.id \notin OnFile =>
               /\ rec.served = {}
               /\ \A i \in OnFile : Load[i].env.source = rec.env.source
                                    => Load[i].seq < rec.seq
    PROVE  IInv'
  <1>1. Typed /\ UNCHANGED <<interests, journal, tail, torn, whole, now, copies,
                               steered, lapses>>
    BY DEF IInv, file, bus
  <1>2. /\ Load \in Folds /\ DOMAIN Load = OnFile /\ OnFile \subseteq Ids
        /\ \A i \in OnFile : Load[i] \in Records /\ Load[i].id = i
    BY <1>1, LoadIsFold DEF Typed
  <1>3. /\ op'.kind = kind /\ op'.pc = pc /\ op'.rec = rec
        /\ op'.records = Load /\ op'.tried = {} /\ op'.last = {} /\ op'.rest = rest
        /\ op' \in Operations
    BY <1>2 DEF Operation, Operations
  <1>4. Busy' /\ op' # Idle
    BY <1>3 DEF Busy, Idle
  <1>5. OnFile' = OnFile /\ Load' = Load
    BY <1>1 DEF OnFile, Load
  <1>6. Typed'
    BY <1>1, <1>4 DEF Typed, WholeOK
  <1>7. OpFits'
    BY <1>2, <1>3, <1>5 DEF OpFits
  <1>8. Versions' = Versions \cup {rec} \cup {Load[i] : i \in OnFile}
    BY <1>1, <1>2, <1>3, <1>4 DEF Versions
  <1>9. Versions' = Versions \cup {rec} /\ \A v \in Versions : v \in Records
    BY <1>1, <1>8, VersionsTyped
  <1>10. \A v \in Versions : v.id \in OnFile /\ Load[v.id].seq = v.seq
    <2> SUFFICES ASSUME NEW v \in Versions
                 PROVE  v.id \in OnFile /\ Load[v.id].seq = v.seq
      OBVIOUS
    <2>1. v.id \in DOMAIN journal \cup DOMAIN tail
      BY <1>1, FoldIs DEF Versions, Typed
    <2>2. v.id \in OnFile /\ Load[v.id] \in Versions /\ Load[v.id].id = v.id
      BY <1>1, <1>2, <2>1, VersionsTyped DEF OnFile
    <2>3. Fits(Load[v.id], v)
      BY <2>2 DEF IInv, Numbered
    <2> QED
      BY <2>2, <2>3 DEF Fits
  <1>11. \A v \in Versions : Fits(v, rec) /\ Fits(rec, v)
    <2> SUFFICES ASSUME NEW v \in Versions PROVE Fits(v, rec) /\ Fits(rec, v)
      OBVIOUS
    <2>1. CASE v.id = rec.id
      BY <1>10, <2>1 DEF Fits
    <2>2. CASE v.id # rec.id /\ rec.id \in OnFile
      BY <1>1, <2>2, VersionsTyped DEF IInv, Numbered
    <2>3. CASE rec.id \notin OnFile
      <3>1. v.id \in OnFile /\ Load[v.id].seq = v.seq /\ Load[v.id] \in Records
            /\ Load[v.id].id = v.id /\ v \in Records
        BY <1>2, <1>9, <1>10
      <3>2. Load[v.id].env.source = v.env.source
        BY <3>1, SourceOfId
      <3>3. v.env.source = rec.env.source => v.seq < rec.seq
        BY <2>3, <3>1, <3>2
      <3>4. v.seq \in Nat /\ rec.seq \in Nat
        BY <3>1, RecordFields
      <3> QED
        BY <2>3, <3>1, <3>3, <3>4 DEF Fits
    <2> QED
      BY <2>1, <2>2, <2>3
  <1>12. Numbered'
    <2>1. Fits(rec, rec)
      BY DEF Fits
    <2>2. \A q, r \in Versions \cup {rec} : Fits(q, r)
      BY <1>11, <2>1 DEF IInv, Numbered
    <2> QED
      BY <1>9, <2>2 DEF Numbered, Fits
  <1>13. rec \in Versions \/ rec.served = {}
    BY <1>1, VersionsTyped
  <1>14. ServedHolds'
    BY <1>1, <1>9, <1>13 DEF IInv, ServedHolds
  <1>15. \A i \in Ids : Covered(i, ServedOnFile(i))
    BY DEF IInv, Excused
  <1>16. Excused'
    <2>1. \A i \in Ids : \A S : Covered(i, S)' <=> Covered(i, S)
      BY <1>1 DEF Covered
    <2>2. \A i \in Ids : ServedOnFile(i)' = ServedOnFile(i)
      BY <1>5 DEF ServedOnFile
    <2>3. Covered(rec.id, rec.served)
      BY <1>15, RecordFields DEF ServedOnFile
    <2>4. \A i \in OnFile : Covered(i, Load[i].served)
      BY <1>2, <1>15 DEF ServedOnFile
    <2>5. rec.id \in Ids
      BY RecordFields
    <2>6. \A i \in Ids : Covered(i, ServedOnFile(i))'
      <3> SUFFICES ASSUME NEW i \in Ids PROVE Covered(i, ServedOnFile(i))'
        OBVIOUS
      <3>1. Covered(i, ServedOnFile(i)) /\ ServedOnFile(i)' = ServedOnFile(i)
        BY <1>15, <2>2
      <3> QED
        BY <1>1, <3>1 DEF Covered
    <2>7. Covered(rec.id, rec.served)'
      BY <2>1, <2>3, <2>5
    <2>8. \A i \in OnFile : Covered(i, Load[i].served)'
      <3> SUFFICES ASSUME NEW i \in OnFile PROVE Covered(i, Load[i].served)'
        OBVIOUS
      <3>1. Load'[i].served = Load[i].served
        BY <1>5
      <3> QED
        BY <1>1, <2>4, <3>1 DEF Covered
    <2>9. /\ (Covered(op.rec.id, op.rec.served))'
          /\ \A i \in DOMAIN op'.records : Covered(i, op.records[i].served)'
      BY <1>1, <1>2, <1>3, <1>5, <2>7, <2>8 DEF Covered
    <2> QED
      BY <2>6, <2>9 DEF Excused
  <1>17. WakeFollowsCopy'
    BY <1>1 DEF IInv, WakeFollowsCopy
  <1> QED
    BY <1>6, <1>7, <1>12, <1>14, <1>16, <1>17 DEF IInv

\* A new event is numbered above all of its source.
LEMMA EmitNewKeeps ==
    ASSUME IInv, NEW e \in Envelopes, EmitNew(e)
    PROVE  IInv'
  <1> DEFINE rec == NewRecord(e)
  <1>1. Typed
    BY DEF IInv
  <1>2. /\ Load \in Folds /\ DOMAIN Load = OnFile /\ OnFile \subseteq Ids
        /\ \A i \in OnFile : Load[i] \in Records /\ Load[i].id = i
    BY <1>1, LoadIsFold DEF Typed
  <1>3. /\ NextSeq(Load, e.source) \in Nat \ {0}
        /\ \A i \in OnFile : Load[i].env.source = e.source
                             => Load[i].seq < NextSeq(Load, e.source)
    <2>1. \A i \in OnFile : Load[i].seq \in Nat \ {0}
      BY <1>2, RecordFields
    <2> QED
      BY <1>2, <2>1, NextSeqIsNew
  <1>4. /\ rec.id = e.id /\ rec.env = e /\ rec.seq = NextSeq(Load, e.source)
        /\ rec.served = {} /\ rec.published = FALSE
    BY DEF NewRecord
  <1>5. rec \in Records
    <2>1. Route(e, interests) \in Routes /\ e.id \in Ids /\ now \in Nat
      BY <1>1, RouteTyped DEF Typed, Ids
    <2> QED
      BY <1>3, <2>1 DEF NewRecord, Records
  <1>6. /\ op = Idle /\ e.id \notin OnFile
        /\ op' = Operation("emit", "journal", rec, {})
        /\ UNCHANGED <<interests, file, now, bus, lapses>>
    BY DEF EmitNew
  <1> HIDE DEF rec
  <1> QED
    BY <1>3, <1>4, <1>5, <1>6, OpeningKeeps

LEMMA EmitResumedKeeps ==
    ASSUME IInv, NEW e \in Envelopes, EmitResumed(e)
    PROVE  IInv'
  <1>1. Load[e.id] \in Records /\ Load[e.id].id = e.id
    BY LoadIsFold DEF EmitResumed, IInv, Typed
  <1>2. /\ op = Idle /\ e.id \in OnFile
        /\ op' = Operation("emit", "fan", Load[e.id], {})
        /\ UNCHANGED <<interests, file, now, bus, lapses>>
    BY DEF EmitResumed
  <1> QED
    BY <1>1, <1>2, OpeningKeeps

LEMMA RecoverKeeps ==
    ASSUME IInv, Recover
    PROVE  IInv'
  <1> DEFINE owing == {j \in OnFile : ~Load[j].published}
  <1>1. PICK i \in owing :
           /\ op = Idle
           /\ op' = Operation("recover", "fan", Load[i], owing \ {i})
           /\ UNCHANGED <<interests, file, now, bus, lapses>>
    BY DEF Recover, Redrive
  <1>2. Load[i] \in Records /\ Load[i].id = i /\ i \in OnFile
    BY <1>1, LoadIsFold DEF IInv, Typed
  <1>3. owing \ {i} \in SUBSET (OnFile \ {Load[i].id})
    BY <1>2
  <1> HIDE DEF owing
  <1> QED
    BY <1>1, <1>2, <1>3, OpeningKeeps

(***************************************************************************)
(* Delivery in memory: copies and wakes.                                   *)
(***************************************************************************)
LEMMA MemoryKeeps ==
    ASSUME IInv, Busy, UNCHANGED <<interests, file, now, lapses>>,
           op.pc \in {"fan", "wake"},
           NEW o \in Operations, op' = o,
           o.pc \in {"fan", "wake"}, o.kind = op.kind, o.rest = op.rest,
           Alike(o.rec, op.rec), o.rec.to = op.rec.to, o.last \subseteq o.rec.served,
           o.pc = "fan" => o.last = {},
           DOMAIN o.records = DOMAIN op.records,
           \A i \in DOMAIN op.records :
              /\ i # op.rec.id => o.records[i] = op.records[i]
              /\ i = op.rec.id =>
                    /\ Alike(o.records[i], op.records[i])
                    /\ o.records[i].to = op.records[i].to
                    /\ o.records[i].served \subseteq op.records[i].served \cup o.rec.served,
           copies' \in [Ids -> [Subscribers -> Nat]],
           \A i \in Ids : i # op.rec.id => copies'[i] = copies[i],
           \A s \in Subscribers : /\ copies'[op.rec.id][s] >= copies[op.rec.id][s]
                                  /\ s \in o.rec.served => copies'[op.rec.id][s] > 0,
           \A s \in Subscribers :
              copies'[op.rec.id][s] <= lapses[op.rec.id]
                                       + IF s \in o.rec.served THEN 1 ELSE 0,
           steered' \subseteq [id : Ids, to : Subscribers, at : Nat],
           \A f \in steered' \ steered : f.id = op.rec.id /\ f.to \in o.rec.served
    PROVE  IInv'
  <1>1. Typed /\ UNCHANGED <<interests, journal, tail, torn, whole, now, lapses>>
    BY DEF IInv, file
  <1>2. Busy' /\ op # Idle /\ op' # Idle
    BY BusyFields DEF Busy, Operations, Idle
  <1>3. /\ op.rec \in Records /\ op.records \in Folds
        /\ o.rec \in Records /\ o.records \in Folds /\ o.rec.id = op.rec.id
        /\ op.rec.id \in Ids /\ o.rec.served \subseteq Subscribers
    BY BusyFields, RecordFields DEF Operations, Alike
  <1>4. OnFile' = OnFile /\ Load' = Load
    BY <1>1 DEF OnFile, Load
  <1>5. Typed'
    BY <1>1, <1>2 DEF Typed, WholeOK
  <1>6. OpFits'
    BY <1>2, <1>3, <1>4 DEF IInv, OpFits
  <1>7. /\ \A v \in Versions : v \in Records
        /\ op.rec \in Versions /\ \A i \in DOMAIN op.records : op.records[i] \in Versions
    BY <1>1, VersionsTyped
  <1>8. \A v \in Versions' : \/ v \in Versions
                             \/ v = o.rec
                             \/ /\ op.rec.id \in DOMAIN op.records
                                /\ v = o.records[op.rec.id]
    <2> SUFFICES ASSUME NEW v \in Versions', v \notin Versions, v # o.rec
                 PROVE  /\ op.rec.id \in DOMAIN op.records
                        /\ v = o.records[op.rec.id]
      OBVIOUS
    <2>1. PICK i \in DOMAIN op.records : v = o.records[i]
      BY <1>1, <1>2 DEF Versions
    <2>2. i = op.rec.id
      BY <1>7, <2>1
    <2> QED
      BY <2>1, <2>2
  <1>9. \A v \in Versions' : \E r \in Versions : Alike(v, r)
    <2> SUFFICES ASSUME NEW v \in Versions' PROVE \E r \in Versions : Alike(v, r)
      OBVIOUS
    <2>1. CASE v \in Versions
      BY <2>1 DEF Alike
    <2>2. CASE v = o.rec
      BY <1>7, <2>2
    <2>3. CASE op.rec.id \in DOMAIN op.records /\ v = o.records[op.rec.id]
      BY <1>7, <2>3
    <2> QED
      BY <1>8, <2>1, <2>2, <2>3
  <1>10. Numbered'
    BY <1>9, NumbersStay DEF IInv
  <1>11. \A i \in Ids, s \in Subscribers : copies'[i][s] >= copies[i][s]
    BY <1>1, <1>3 DEF Typed
  <1>12. ServedHolds'
    <2> SUFFICES ASSUME NEW v \in Versions', NEW s \in v.served
                 PROVE  copies'[v.id][s] > 0
      BY DEF ServedHolds
    <2>1. ASSUME NEW r \in Versions, NEW t \in r.served
          PROVE  copies'[r.id][t] > 0
      <3>1. r.id \in Ids /\ t \in Subscribers
        BY <1>7, <2>1, RecordFields
      <3>2. copies[r.id][t] > 0 /\ copies'[r.id][t] >= copies[r.id][t]
        BY <1>11, <2>1, <3>1 DEF IInv, ServedHolds
      <3>3. copies[r.id][t] \in Nat /\ copies'[r.id][t] \in Nat
        BY <1>1, <3>1 DEF Typed
      <3> QED
        BY <3>2, <3>3
    <2>2. CASE v \in Versions
      BY <2>1, <2>2
    <2>3. CASE v = o.rec
      BY <1>3, <2>3
    <2>4. CASE op.rec.id \in DOMAIN op.records /\ v = o.records[op.rec.id]
      <3>1. op.records[op.rec.id].id = op.rec.id /\ v.id = op.rec.id
        BY <1>3, <2>4, FoldIs
      <3>2. s \in op.records[op.rec.id].served \/ s \in o.rec.served
        BY <2>4
      <3> QED
        BY <1>3, <1>7, <2>1, <2>4, <3>1, <3>2
    <2> QED
      BY <1>8, <2>2, <2>3, <2>4
  <1>13. Excused'
    <2>1. \A i \in Ids : i # op.rec.id /\ Covered(i, ServedOnFile(i))
                         => Covered(i, ServedOnFile(i))'
      BY <1>1, <1>4 DEF Covered, ServedOnFile
    <2>2. \A i \in Ids : (op' = Idle \/ i # o.rec.id \/ o.pc = "prune")
                         => Covered(i, ServedOnFile(i))'
      BY <1>2, <1>3, <2>1 DEF IInv, Excused
    <2>3. DOMAIN op.records \subseteq Ids
      BY <1>3, FoldIs
    <2>4. \A i \in DOMAIN op.records \ {op.rec.id} :
             Covered(i, op.records[i].served) => Covered(i, op.records[i].served)'
      BY <1>1, <2>3 DEF Covered
    <2>5. Covered(op.rec.id, op.rec.served)'
      BY <1>1, <1>3 DEF Covered, Alike
    <2> QED
      BY <1>3, <2>2, <2>4, <2>5 DEF IInv, Excused
  <1>14. WakeFollowsCopy'
    <2> SUFFICES ASSUME NEW f \in steered'
                 PROVE  copies'[f.id][f.to] > 0
      BY DEF WakeFollowsCopy
    <2>1. f.id \in Ids /\ f.to \in Subscribers
      OBVIOUS
    <2>2. CASE f \in steered
      <3>1. copies[f.id][f.to] > 0 /\ copies'[f.id][f.to] >= copies[f.id][f.to]
        BY <1>11, <2>1, <2>2 DEF IInv, WakeFollowsCopy
      <3>2. copies[f.id][f.to] \in Nat /\ copies'[f.id][f.to] \in Nat
        BY <1>1, <2>1 DEF Typed
      <3> QED
        BY <3>1, <3>2
    <2>3. CASE f \notin steered
      BY <2>1, <2>3
    <2> QED
      BY <2>2, <2>3
  <1> QED
    BY <1>5, <1>6, <1>10, <1>12, <1>13, <1>14 DEF IInv

\* A copy more, for one that has not been served.
LEMMA PublishKeeps ==
    ASSUME IInv, NEW s \in Subscribers, Publish(s)
    PROVE  IInv'
  <1>1. Typed /\ Busy /\ op.pc = "fan"
    BY BusyOr DEF IInv, Publish
  <1>2. /\ op.rec \in Records /\ op.records \in Folds /\ op.rec.id \in Ids
        /\ op.rec.served \subseteq DOMAIN op.rec.to
        /\ op.rec.woken \subseteq op.rec.served
        /\ DOMAIN op.rec.to \subseteq Subscribers
    BY <1>1, BusyFields, RecordFields
  <1>3. s \in DOMAIN op.rec.to /\ s \notin op.rec.served
    BY DEF Publish, Up, Waiting
  <1> DEFINE r == [op.rec EXCEPT !.served = @ \cup {s}]
  <1>4. /\ r \in Records /\ Alike(r, op.rec) /\ r.to = op.rec.to
        /\ r.served = op.rec.served \cup {s}
    BY <1>2, <1>3 DEF Records, Alike
  <1>5. PICK pc \in {"fan", "wake"}, last \in SUBSET {s} :
           /\ op' = [op EXCEPT !.rec = r, !.tried = @ \cup {s}, !.pc = pc, !.last = last]
           /\ pc = "fan" => last = {}
    <2>1. CASE op.rec.to[s].wake
      BY <1>1, <2>1 DEF Publish, Busy, Operations
    <2>2. CASE ~op.rec.to[s].wake
      BY <1>1, <2>2 DEF Publish, Busy, Operations
    <2> QED
      BY <2>1, <2>2
  <1> HIDE DEF r
  <1>6. /\ op' \in Operations /\ op'.rec = r /\ op'.pc = pc /\ op'.last = last
        /\ op'.kind = op.kind /\ op'.rest = op.rest /\ op'.records = op.records
        /\ last \subseteq r.served /\ (pc = "fan" => last = {})
    BY <1>1, <1>4, <1>5 DEF Busy, Operations
  <1>7. /\ UNCHANGED <<interests, file, now, lapses>> /\ steered' = steered
        /\ copies' = [copies EXCEPT ![op.rec.id][s] = @ + 1]
    BY DEF Publish
  <1>8. /\ copies' \in [Ids -> [Subscribers -> Nat]]
        /\ \A i \in Ids : i # op.rec.id => copies'[i] = copies[i]
        /\ copies'[op.rec.id][s] = copies[op.rec.id][s] + 1
        /\ \A t \in Subscribers : t # s => copies'[op.rec.id][t] = copies[op.rec.id][t]
        /\ \A t \in Subscribers : copies[op.rec.id][t] \in Nat
    BY <1>1, <1>2, <1>7 DEF Typed
  <1>9. \A t \in op.rec.served : t \in Subscribers /\ copies[op.rec.id][t] > 0
    BY <1>1, <1>2, VersionsTyped DEF IInv, ServedHolds
  <1>10. \A t \in Subscribers :
            /\ copies'[op.rec.id][t] >= copies[op.rec.id][t]
            /\ t \in r.served => copies'[op.rec.id][t] > 0
    BY <1>4, <1>8, <1>9
  <1>11. \A t \in Subscribers :
            copies'[op.rec.id][t] <= lapses[op.rec.id] + IF t \in r.served THEN 1 ELSE 0
    <2>1. Covered(op.rec.id, op.rec.served)
      BY <1>1 DEF IInv, Excused
    <2>2. lapses' = lapses /\ lapses[op.rec.id] \in Nat
      BY <1>1, <1>2, <1>7 DEF Typed
    <2>3. r.served = op.rec.served \cup {s}
      BY <1>4
    <2> SUFFICES ASSUME NEW t \in Subscribers
                 PROVE  copies'[op.rec.id][t]
                           <= lapses[op.rec.id] + IF t \in r.served THEN 1 ELSE 0
      OBVIOUS
    <2>4. copies[op.rec.id][t] <= lapses[op.rec.id] + IF t \in op.rec.served THEN 1 ELSE 0
      BY <2>1 DEF Covered
    <2>5. CASE t = s
      BY <1>3, <1>8, <2>2, <2>3, <2>4, <2>5
    <2>6. CASE t # s
      BY <1>8, <2>2, <2>3, <2>4, <2>6
    <2> QED
      BY <2>5, <2>6
  <1> QED
    BY <1>1, <1>4, <1>6, <1>7, <1>8, <1>10, <1>11, MemoryKeeps DEF Alike, Typed

LEMMA PublishFailsKeeps ==
    ASSUME IInv, NEW s \in Subscribers, PublishFails(s)
    PROVE  IInv'
  <1>1. Typed /\ Busy /\ op.pc = "fan"
    BY BusyOr DEF IInv, PublishFails
  <1>2. op' = [op EXCEPT !.tried = @ \cup {s}]
        /\ UNCHANGED <<interests, file, now, lapses, copies, steered>>
    BY DEF PublishFails, bus
  <1>3. /\ op' \in Operations /\ op'.rec = op.rec /\ op'.pc = op.pc /\ op'.last = op.last
        /\ op'.kind = op.kind /\ op'.rest = op.rest /\ op'.records = op.records
    BY <1>1, <1>2 DEF Busy, Operations
  <1>4. op.last = {} /\ Covered(op.rec.id, op.rec.served)
    BY <1>1 DEF IInv, OpFits, Excused
  <1>5. /\ op.rec.id \in Ids /\ op.rec.served \subseteq Subscribers
        /\ \A t \in op.rec.served : copies[op.rec.id][t] > 0
        /\ \A t \in Subscribers : copies[op.rec.id][t] \in Nat
    BY <1>1, BusyFields, RecordFields, VersionsTyped DEF IInv, ServedHolds, Typed
  <1>6. \A t \in Subscribers :
           copies'[op.rec.id][t]
              <= lapses[op.rec.id] + IF t \in op'.rec.served THEN 1 ELSE 0
    BY <1>2, <1>3, <1>4 DEF Covered
  <1>7. /\ \A f \in steered' \ steered : f.id = op.rec.id /\ f.to \in op'.rec.served
        /\ \A t \in Subscribers : copies'[op.rec.id][t] >= copies[op.rec.id][t]
    BY <1>2, <1>5
  <1> QED
    BY <1>1, <1>2, <1>3, <1>4, <1>5, <1>6, <1>7, MemoryKeeps DEF Alike, Typed

\* A wake, for one that has been served.
LEMMA WakeKeeps ==
    ASSUME IInv, NEW s \in Subscribers, Wake(s)
    PROVE  IInv'
  <1>1. Typed /\ Busy /\ op.pc = "wake" /\ s \in op.last
    BY BusyOr DEF IInv, Wake
  <1>2. /\ op.rec \in Records /\ op.records \in Folds /\ op.rec.id \in Ids
        /\ op.rec.woken \subseteq op.rec.served
        /\ op.rec.served \subseteq DOMAIN op.rec.to
        /\ op.rec.served \subseteq Subscribers
        /\ s \in op.rec.served
    BY <1>1, BusyFields, RecordFields DEF IInv, OpFits
  <1>3. /\ UNCHANGED <<interests, file, now, lapses, copies>>
    BY DEF Wake
  <1>4. /\ \A t \in op.rec.served : copies[op.rec.id][t] > 0
        /\ \A t \in Subscribers : copies[op.rec.id][t] \in Nat
        /\ Covered(op.rec.id, op.rec.served)
    BY <1>1, <1>2, VersionsTyped DEF IInv, ServedHolds, Excused, Typed
  <1> DEFINE g == WithWake(op.records, s)
  <1>5. /\ g \in Folds /\ DOMAIN g = DOMAIN op.records
        /\ \A i \in DOMAIN op.records :
              /\ i # op.rec.id => g[i] = op.records[i]
              /\ i = op.rec.id =>
                    /\ Alike(g[i], op.records[i]) /\ g[i].to = op.records[i].to
                    /\ g[i].served \subseteq op.records[i].served \cup op.rec.served
    <2>1. /\ g = [i \in DOMAIN g |-> g[i]] /\ DOMAIN g = DOMAIN op.records
          /\ \A i \in DOMAIN op.records :
                g[i] = IF i = op.rec.id /\ op.records[i].served # {}
                       THEN [op.records[i] EXCEPT !.served = @ \cup {s},
                                                  !.woken = @ \cup {s}]
                       ELSE op.records[i]
      BY DEF WithWake
    <2>2. /\ DOMAIN op.records \subseteq Ids
          /\ \A i \in DOMAIN op.records : op.records[i] \in Records /\ op.records[i].id = i
      BY <1>2, FoldIs
    <2> HIDE DEF g
    <2>3. ASSUME NEW i \in DOMAIN op.records
          PROVE  /\ g[i] \in Records /\ Alike(g[i], op.records[i])
                 /\ g[i].to = op.records[i].to
                 /\ g[i].served \subseteq op.records[i].served \cup op.rec.served
      <3>1. CASE i = op.rec.id /\ op.records[i].served # {}
        <4>1. s \in DOMAIN op.records[i].to
          BY <1>1, <1>2, <2>2, <3>1 DEF IInv, OpFits
        <4>2. PICK v : v = op.records[i]
          OBVIOUS
        <4>3. /\ g[i] = [v EXCEPT !.served = @ \cup {s}, !.woken = @ \cup {s}]
              /\ v \in Records /\ s \in DOMAIN v.to /\ s \in Subscribers
          BY <1>2, <2>1, <2>2, <3>1, <4>1, <4>2
        <4>4. /\ g[i] \in Records /\ Alike(g[i], v) /\ g[i].to = v.to
              /\ g[i].served = v.served \cup {s}
          <5>1. PICK x : x = [v EXCEPT !.served = @ \cup {s}, !.woken = @ \cup {s}]
            OBVIOUS
          <5>2. /\ x.id = v.id /\ x.env = v.env /\ x.seq = v.seq /\ x.at = v.at
                /\ x.to = v.to /\ x.published = v.published
                /\ x.served = v.served \cup {s} /\ x.woken = v.woken \cup {s}
                /\ x = [id |-> x.id, env |-> x.env, seq |-> x.seq, at |-> x.at,
                        to |-> x.to, served |-> x.served, woken |-> x.woken,
                        published |-> x.published]
            BY <4>3, <5>1 DEF Records
          <5>3. /\ v.id \in Ids /\ v.env \in Envelopes /\ v.seq \in Nat \ {0}
                /\ v.at \in Nat /\ v.to \in Routes /\ v.published \in BOOLEAN
                /\ v.served \subseteq Subscribers /\ v.woken \subseteq Subscribers
                /\ v.env.id = v.id
                /\ v.served \subseteq DOMAIN v.to /\ v.woken \subseteq v.served
            BY <4>3 DEF Records
          <5>4. x \in Records
            BY <4>3, <5>2, <5>3 DEF Records
          <5> QED
            BY <4>3, <5>1, <5>2, <5>4 DEF Alike
        <4> QED
          BY <1>2, <4>2, <4>4
      <3>2. CASE ~(i = op.rec.id /\ op.records[i].served # {})
        BY <2>1, <2>2, <3>2 DEF Alike
      <3> QED
        BY <3>1, <3>2
    <2>4. g \in Folds
      BY <2>1, <2>2, <2>3, FoldIs DEF Alike
    <2> QED
      BY <2>1, <2>3, <2>4
  <1>6. /\ now \in Nat
        /\ \A t \in Subscribers : copies'[op.rec.id][t] >= copies[op.rec.id][t]
        /\ copies' \in [Ids -> [Subscribers -> Nat]]
    BY <1>1, <1>3, <1>4 DEF Typed
  <1>7. CASE /\ steered' = steered \cup {[id |-> op.rec.id, to |-> s, at |-> now]}
             /\ op' = [op EXCEPT !.rec.woken = @ \cup {s}, !.pc = "fan", !.last = {},
                                 !.records = WithWake(op.records, s)]
    <2> DEFINE r == [op.rec EXCEPT !.woken = @ \cup {s}]
    <2>1. /\ r \in Records /\ Alike(r, op.rec) /\ r.to = op.rec.to
          /\ r.served = op.rec.served
      BY <1>2 DEF Records, Alike
    <2>2. op' = [op EXCEPT !.rec = r, !.pc = "fan", !.last = {}, !.records = g]
      BY <1>1, <1>7 DEF Busy, Operations
    <2> HIDE DEF r, g
    <2>3. /\ op' \in Operations /\ op'.rec = r /\ op'.pc = "fan" /\ op'.last = {}
          /\ op'.kind = op.kind /\ op'.rest = op.rest /\ op'.records = g
      BY <1>1, <1>5, <2>1, <2>2 DEF Busy, Operations
    <2>4. \A t \in Subscribers :
             copies'[op.rec.id][t]
                <= lapses[op.rec.id] + IF t \in op'.rec.served THEN 1 ELSE 0
      BY <1>3, <1>4, <2>1, <2>3 DEF Covered, Alike
    <2>5. /\ steered' \subseteq [id : Ids, to : Subscribers, at : Nat]
          /\ \A f \in steered' \ steered : f.id = op.rec.id /\ f.to \in r.served
      BY <1>1, <1>2, <1>6, <1>7, <2>1 DEF Typed
    <2> QED
      BY <1>1, <1>3, <1>4, <1>5, <1>6, <2>1, <2>3, <2>4, <2>5, MemoryKeeps
  <1>8. CASE op' = [op EXCEPT !.pc = "fan", !.last = {}] /\ UNCHANGED steered
    <2>1. /\ op' \in Operations /\ op'.rec = op.rec /\ op'.pc = "fan" /\ op'.last = {}
          /\ op'.kind = op.kind /\ op'.rest = op.rest /\ op'.records = op.records
      BY <1>1, <1>8 DEF Busy, Operations
    <2>2. \A t \in Subscribers :
             copies'[op.rec.id][t]
                <= lapses[op.rec.id] + IF t \in op'.rec.served THEN 1 ELSE 0
      BY <1>3, <1>4, <2>1 DEF Covered
    <2> QED
      BY <1>1, <1>3, <1>4, <1>6, <1>8, <2>1, <2>2, MemoryKeeps DEF Alike, Typed
  <1> QED
    BY <1>7, <1>8 DEF Wake

(***************************************************************************)
(* Appends: what the file holds after one, whole or cut short.             *)
(***************************************************************************)
Appends(rec) == AppendRecord(rec) \/ \E cut \in Cuts : AppendCut(rec, cut)

\* The three things an append does to the last line.
LEMMA AppendForms ==
    ASSUME Typed, NEW rec \in Records, Appends(rec)
    PROVE  \/ /\ UNCHANGED <<journal, tail, torn>> /\ Lapse({rec.id})
           \/ /\ ~torn /\ DOMAIN tail = {}
              /\ \/ /\ journal' = Put(journal, rec) /\ tail' = NoLine
                    /\ torn' = FALSE /\ Lapse({})
                 \/ /\ journal' = journal /\ tail' \in {NoLine, Line(rec)}
                    /\ torn' = TRUE /\ Lapse({rec.id})
           \/ /\ torn /\ journal' = journal /\ tail' = NoLine
              /\ torn' \in BOOLEAN /\ Lapse(DOMAIN tail \cup {rec.id})
  <1>1. torn \in BOOLEAN /\ (DOMAIN tail # {} => torn) /\ DOMAIN NoLine = {}
    BY NoLineIsFold DEF Typed
  <1>2. CASE AppendRecord(rec)
    BY <1>1, <1>2 DEF AppendRecord
  <1>3. ASSUME NEW cut \in Cuts, AppendCut(rec, cut)
        PROVE  \/ /\ UNCHANGED <<journal, tail, torn>> /\ Lapse({rec.id})
               \/ /\ ~torn /\ DOMAIN tail = {}
                  /\ journal' = journal /\ tail' \in {NoLine, Line(rec)}
                  /\ torn' = TRUE /\ Lapse({rec.id})
               \/ /\ torn /\ journal' = journal /\ tail' = NoLine
                  /\ torn' \in BOOLEAN /\ Lapse(DOMAIN tail \cup {rec.id})
    <2>1. cut \in {"nothing", "fragment", "unended"}
      BY OutboxConstants
    <2>2. journal' = journal /\ Lapse({rec.id} \cup (DOMAIN tail \ DOMAIN tail'))
      BY <1>3 DEF AppendCut
    <2>3. CASE cut = "nothing"
      <3>1. tail' = tail /\ torn' = torn
        BY <1>3, <2>3 DEF AppendCut
      <3>2. {rec.id} \cup (DOMAIN tail \ DOMAIN tail') = {rec.id}
        BY <3>1
      <3> QED
        BY <2>2, <3>1, <3>2
    <2>4. CASE cut = "fragment"
      <3>1. tail' = NoLine /\ torn' = TRUE
        BY <1>3, <2>4 DEF AppendCut
      <3>2. {rec.id} \cup (DOMAIN tail \ DOMAIN tail') = DOMAIN tail \cup {rec.id}
        BY <1>1, <3>1
      <3>3. ~torn => DOMAIN tail \cup {rec.id} = {rec.id}
        BY <1>1
      <3> QED
        BY <1>1, <2>2, <3>1, <3>2, <3>3
    <2>5. CASE cut = "unended"
      <3>1. tail' = (IF torn THEN NoLine ELSE Line(rec)) /\ torn' = TRUE
        BY <1>3, <2>5 DEF AppendCut
      <3>2. CASE torn
        <4>1. {rec.id} \cup (DOMAIN tail \ DOMAIN tail') = DOMAIN tail \cup {rec.id}
          BY <1>1, <3>1, <3>2
        <4> QED
          BY <2>2, <3>1, <3>2, <4>1
      <3>3. CASE ~torn
        <4>1. {rec.id} \cup (DOMAIN tail \ DOMAIN tail') = {rec.id}
          BY <1>1, <3>3
        <4> QED
          BY <1>1, <2>2, <3>1, <3>3, <4>1
      <3> QED
        BY <3>2, <3>3
    <2> QED
      BY <2>1, <2>3, <2>4, <2>5
  <1> QED
    BY <1>2, <1>3 DEF Appends

LEMMA AppendEffect ==
    ASSUME Typed, NEW rec \in Records, Appends(rec), UNCHANGED copies
    PROVE  /\ journal' \in Folds /\ tail' \in Folds
           /\ torn' \in BOOLEAN /\ (DOMAIN tail' # {} => torn')
           /\ lapses' \in [Ids -> Nat]
           /\ OnFile' \subseteq OnFile \cup {rec.id}
           /\ \A i \in DOMAIN journal' :
                 journal'[i] = rec \/ (i \in DOMAIN journal /\ journal'[i] = journal[i])
           /\ \A i \in DOMAIN tail' :
                 tail'[i] = rec \/ (i \in DOMAIN tail /\ tail'[i] = tail[i])
           /\ \A i \in Ids : lapses'[i] >= lapses[i]
           /\ \A i \in Ids \ {rec.id} :
                 \/ lapses'[i] = lapses[i] + 1
                 \/ ServedOnFile(i)' = ServedOnFile(i)
           /\ \/ lapses'[rec.id] = lapses[rec.id] + 1
              \/ ServedOnFile(rec.id)' = rec.served
  <1>1. /\ journal \in Folds /\ tail \in Folds /\ lapses \in [Ids -> Nat]
        /\ torn \in BOOLEAN /\ (DOMAIN tail # {} => torn)
        /\ NoLine \in Folds /\ DOMAIN NoLine = {} /\ rec.id \in Ids
        /\ Line(rec) \in Folds /\ DOMAIN Line(rec) = {rec.id} /\ Line(rec)[rec.id] = rec
    BY NoLineIsFold, LineIsFold, RecordFields DEF Typed
  <1>2. \A i : /\ i \in OnFile' <=> i \in DOMAIN journal' \cup DOMAIN tail'
               /\ i \in OnFile <=> i \in DOMAIN journal \cup DOMAIN tail
               /\ ServedOnFile(i) = IF i \in DOMAIN tail THEN tail[i].served
                                    ELSE IF i \in DOMAIN journal THEN journal[i].served
                                    ELSE {}
               /\ ServedOnFile(i)' = IF i \in DOMAIN tail' THEN tail'[i].served
                                     ELSE IF i \in DOMAIN journal' THEN journal'[i].served
                                     ELSE {}
    BY DEF OnFile, ServedOnFile, Load
  <1>3. CASE UNCHANGED <<journal, tail, torn>> /\ Lapse({rec.id})
    BY <1>1, <1>2, <1>3, LapseCounts
  <1>4. CASE /\ ~torn /\ DOMAIN tail = {}
             /\ journal' = Put(journal, rec) /\ tail' = NoLine
             /\ torn' = FALSE /\ Lapse({})
    <2>1. /\ journal' \in Folds /\ tail' \in Folds /\ DOMAIN tail' = {}
          /\ DOMAIN journal' = DOMAIN journal \cup {rec.id}
          /\ journal'[rec.id] = rec
          /\ \A i \in DOMAIN journal : i # rec.id => journal'[i] = journal[i]
      <3>1. journal' = Put(journal, rec) /\ tail' = NoLine
        BY <1>4
      <3>2. /\ Put(journal, rec) \in Folds
            /\ DOMAIN Put(journal, rec) = DOMAIN journal \cup {rec.id}
            /\ Put(journal, rec)[rec.id] = rec
            /\ \A i \in DOMAIN journal : i # rec.id => Put(journal, rec)[i] = journal[i]
        BY <1>1, PutIsFold
      <3> QED
        BY <1>1, <3>1, <3>2
    <2>2. lapses' \in [Ids -> Nat] /\ \A i \in Ids : lapses'[i] >= lapses[i]
      BY <1>1, <1>4, LapseCounts
    <2>3. \A i : i # rec.id => (ServedOnFile(i)' = ServedOnFile(i))
      <3> SUFFICES ASSUME NEW i, i # rec.id PROVE ServedOnFile(i)' = ServedOnFile(i)
        OBVIOUS
      <3>1. i \in DOMAIN journal' <=> i \in DOMAIN journal
        BY <2>1
      <3>2. i \in DOMAIN journal => journal'[i] = journal[i]
        BY <2>1
      <3>3. i \notin DOMAIN tail /\ i \notin DOMAIN tail'
        BY <1>4, <2>1
      <3> QED
        BY <1>2, <3>1, <3>2, <3>3
    <2>4. ServedOnFile(rec.id)' = rec.served
      BY <1>2, <2>1
    <2>5. /\ OnFile' \subseteq OnFile \cup {rec.id}
          /\ \A i \in DOMAIN journal' :
                 journal'[i] = rec \/ (i \in DOMAIN journal /\ journal'[i] = journal[i])
      BY <1>2, <2>1
    <2> QED
      BY <1>4, <2>1, <2>2, <2>3, <2>4, <2>5
  <1>5. CASE /\ ~torn /\ DOMAIN tail = {}
             /\ journal' = journal /\ tail' \in {NoLine, Line(rec)}
             /\ torn' = TRUE /\ Lapse({rec.id})
    <2>1. /\ journal' \in Folds /\ tail' \in Folds /\ DOMAIN tail' \subseteq {rec.id}
          /\ \A i \in DOMAIN tail' : tail'[i] = rec
      BY <1>1, <1>5
    <2>2. /\ lapses' \in [Ids -> Nat] /\ \A i \in Ids : lapses'[i] >= lapses[i]
          /\ lapses'[rec.id] = lapses[rec.id] + 1
      BY <1>1, <1>5, LapseCounts
    <2>3. \A i : i # rec.id => (ServedOnFile(i)' = ServedOnFile(i))
      BY <1>2, <1>5, <2>1
    <2>4. OnFile' \subseteq OnFile \cup {rec.id}
      BY <1>2, <1>5, <2>1
    <2> QED
      BY <1>5, <2>1, <2>2, <2>3, <2>4
  <1>6. CASE /\ torn /\ journal' = journal /\ tail' = NoLine
             /\ torn' \in BOOLEAN /\ Lapse(DOMAIN tail \cup {rec.id})
    <2>1. journal' \in Folds /\ tail' \in Folds /\ DOMAIN tail' = {}
      BY <1>1, <1>6
    <2>2. /\ lapses' \in [Ids -> Nat] /\ \A i \in Ids : lapses'[i] >= lapses[i]
          /\ \A i \in Ids : i \in DOMAIN tail \cup {rec.id}
                            => lapses'[i] = lapses[i] + 1
      BY <1>1, <1>6, LapseCounts
    <2>3. \A i : i \notin DOMAIN tail => (ServedOnFile(i)' = ServedOnFile(i))
      BY <1>2, <1>6, <2>1
    <2>4. OnFile' \subseteq OnFile \cup {rec.id}
      BY <1>2, <1>6, <2>1
    <2> QED
      BY <1>1, <1>6, <2>1, <2>2, <2>3, <2>4
  <1> QED
    BY <1>3, <1>4, <1>5, <1>6, AppendForms

\* One that is cut inside its line is not forgotten.
LEMMA AppendWhole ==
    ASSUME Typed, NEW rec, Appends(rec)
    PROVE  WholeOK'
  <1>1. whole \in BOOLEAN
    BY DEF Typed, WholeOK
  <1>2. CASE AppendRecord(rec)
    BY <1>1, <1>2 DEF AppendRecord, WholeOK
  <1>3. ASSUME NEW cut \in Cuts, AppendCut(rec, cut) PROVE WholeOK'
    <2>1. whole' = (whole /\ ~torn')
      BY <1>3 DEF AppendCut
    <2> QED
      BY <2>1, Zenon DEF WholeOK
  <1> QED
    BY <1>2, <1>3 DEF Appends

\* What an operation turns to after an append: nothing, the same record as
\* it was written, or the next of those that Recover has to do.
TurnsTo(rec, o) ==
    \/ o = Idle
    \/ /\ o \in Operations
       /\ o.kind = op.kind /\ o.records = op.records /\ o.pc # "journal"
       /\ o.kind = "recover" => o.pc \in {"fan", "wake"}
       /\ o.pc # "wake" => o.last = {}
       /\ o.last \subseteq o.rec.served /\ o.rest \subseteq op.rest \ {o.rec.id}
       /\ \/ o.rec = rec
          \/ /\ o.kind = "recover" /\ o.rec.id \in op.rest
             /\ o.rec = op.records[o.rec.id]

\* Whatever an append leaves on file, the invariant holds after it.
LEMMA AppendKeeps ==
    ASSUME IInv, Busy, op.pc # "prune",
           NEW rec \in Records, Alike(rec, op.rec), rec.to = op.rec.to,
           rec.served = op.rec.served, Appends(rec),
           UNCHANGED <<interests, now, bus>>,
           NEW o, op' = o, TurnsTo(rec, o)
    PROVE  IInv'
  <1> DEFINE Cov(i, served) ==
                \A s \in Subscribers :
                   copies'[i][s] <= lapses'[i] + IF s \in served THEN 1 ELSE 0
  <1>1. Typed /\ UNCHANGED <<interests, now, copies, steered>>
    BY DEF IInv, bus
  <1>2. /\ op.rec \in Records /\ op.records \in Folds
        /\ rec.id = op.rec.id /\ rec.id \in Ids /\ DOMAIN op.records \subseteq Ids
        /\ \A i \in DOMAIN op.records : op.records[i] \in Records /\ op.records[i].id = i
    BY BusyFields, RecordFields, FoldIs DEF Alike
  <1>3. /\ journal' \in Folds /\ tail' \in Folds
        /\ torn' \in BOOLEAN /\ (DOMAIN tail' # {} => torn')
        /\ lapses' \in [Ids -> Nat]
        /\ OnFile' \subseteq OnFile \cup {rec.id}
    BY <1>1, AppendEffect
  <1>4. /\ \A i \in DOMAIN journal' :
              journal'[i] = rec \/ (i \in DOMAIN journal /\ journal'[i] = journal[i])
        /\ \A i \in DOMAIN tail' :
              tail'[i] = rec \/ (i \in DOMAIN tail /\ tail'[i] = tail[i])
    BY <1>1, AppendEffect
  <1>5. /\ \A i \in Ids : lapses'[i] >= lapses[i]
        /\ \A i \in Ids \ {rec.id} :
              \/ lapses'[i] = lapses[i] + 1
              \/ ServedOnFile(i)' = ServedOnFile(i)
        /\ \/ lapses'[rec.id] = lapses[rec.id] + 1
           \/ ServedOnFile(rec.id)' = rec.served
    BY <1>1, AppendEffect
  <1>6. /\ \A i \in Ids : lapses[i] \in Nat /\ lapses'[i] \in Nat
        /\ \A i \in Ids, s \in Subscribers : copies[i][s] \in Nat
        /\ copies' = copies
    BY <1>1, <1>3 DEF Typed
  <1>7. /\ op' = Idle \/ Busy'
        /\ op' # Idle => o \in Operations
    BY DEF TurnsTo, Busy
  <1>8. Typed'
    BY <1>1, <1>3, <1>7, AppendWhole DEF Typed
  <1>9. Busy' => op' # Idle
    BY DEF Busy, Operations, Idle
  <1>10. OpFits'
    <2> SUFFICES ASSUME o # Idle
                 PROVE  OpFits'
      BY <1>9 DEF OpFits
    <2>1. /\ op.rest \subseteq DOMAIN op.records \ {op.rec.id}
          /\ op.kind = "emit" => op.rest = {}
          /\ op.kind = "recover" => op.rec.id \in DOMAIN op.records
          /\ op.rec.id \in DOMAIN op.records => op.records[op.rec.id].to = op.rec.to
          /\ OnFile \subseteq DOMAIN op.records \cup {op.rec.id}
      BY DEF IInv, OpFits
    <2>2. /\ o.kind = op.kind /\ o.records = op.records /\ o.pc # "journal"
          /\ o.kind = "recover" => o.pc \in {"fan", "wake"}
          /\ o.pc # "wake" => o.last = {}
          /\ o.last \subseteq o.rec.served /\ o.rest \subseteq op.rest \ {o.rec.id}
          /\ \/ o.rec = rec
             \/ /\ o.kind = "recover" /\ o.rec.id \in op.rest
                /\ o.rec = op.records[o.rec.id]
      BY DEF TurnsTo
    <2>3. o.rest \subseteq DOMAIN o.records \ {o.rec.id}
      BY <2>1, <2>2
    <2>4. /\ o.kind = "recover" => o.rec.id \in DOMAIN o.records
          /\ o.rec.id \in DOMAIN o.records => o.records[o.rec.id].to = o.rec.to
      BY <1>2, <2>1, <2>2
    <2>5. OnFile' \subseteq DOMAIN o.records \cup {o.rec.id}
      BY <1>2, <1>3, <2>1, <2>2
    <2> QED
      BY <2>1, <2>2, <2>3, <2>4, <2>5 DEF OpFits
  <1>11. /\ op.rec \in Versions /\ \A i \in DOMAIN op.records : op.records[i] \in Versions
         /\ \A v \in Versions : v \in Records
         /\ \A i \in DOMAIN journal : journal[i] \in Versions
         /\ \A i \in DOMAIN tail : tail[i] \in Versions
    BY <1>1, VersionsTyped
  <1>12. \A v \in Versions' : v = rec \/ v \in Versions
    <2> SUFFICES ASSUME NEW v \in Versions' PROVE v = rec \/ v \in Versions
      OBVIOUS
    <2>1. \/ \E i \in DOMAIN journal' : v = journal'[i]
          \/ \E i \in DOMAIN tail' : v = tail'[i]
          \/ o # Idle /\ (v = o.rec \/ \E i \in DOMAIN o.records : v = o.records[i])
      BY DEF Versions
    <2>2. o # Idle => /\ o.records = op.records
                      /\ o.rec = rec \/ (o.rec.id \in op.rest
                                         /\ o.rec = op.records[o.rec.id])
      BY DEF TurnsTo
    <2>3. op.rest \subseteq DOMAIN op.records
      BY DEF IInv, OpFits
    <2> QED
      BY <1>4, <1>11, <2>1, <2>2, <2>3
  <1>13. Numbered'
    <2>1. \A v \in Versions' : \E r \in Versions : Alike(v, r)
      BY <1>11, <1>12 DEF Alike
    <2> QED
      BY <2>1, NumbersStay DEF IInv
  <1>14. ServedHolds'
    <2>1. \A r \in Versions : \A s \in r.served : copies[r.id][s] > 0
      BY DEF IInv, ServedHolds
    <2>2. \A s \in rec.served : copies[rec.id][s] > 0
      BY <1>2, <1>11, <2>1
    <2>3. \A v \in Versions' : \A s \in v.served : copies[v.id][s] > 0
      BY <1>12, <2>1, <2>2
    <2> QED
      BY <1>1, <2>3 DEF ServedHolds
  <1>15. ASSUME NEW i \in Ids, NEW S, Covered(i, S)
         PROVE  /\ Cov(i, S)
                /\ lapses'[i] = lapses[i] + 1 => \A T : Cov(i, T)
    <2>1. \A s \in Subscribers :
             /\ copies[i][s] <= lapses[i] + IF s \in S THEN 1 ELSE 0
             /\ copies[i][s] \in Nat
      BY <1>6, <1>15 DEF Covered
    <2>2. lapses'[i] >= lapses[i] /\ lapses[i] \in Nat /\ lapses'[i] \in Nat
      BY <1>5, <1>6
    <2> QED
      BY <1>6, <2>1, <2>2
  <1>16. Covered(rec.id, rec.served)
    BY <1>2 DEF IInv, Excused
  <1>17. ASSUME NEW i \in Ids
         PROVE  \E T : Cov(i, T) /\ T = ServedOnFile(i)'
    <2>1. CASE i = rec.id
      BY <1>5, <1>15, <1>16, <2>1
    <2>2. CASE i # rec.id
      <3>1. Covered(i, ServedOnFile(i))
        BY <1>2, <2>2 DEF IInv, Excused
      <3> QED
        BY <1>5, <1>15, <2>2, <3>1
    <2> QED
      BY <2>1, <2>2
  <1>18. ASSUME o # Idle
         PROVE  /\ Cov(o.rec.id, o.rec.served)
                /\ \A i \in DOMAIN o.records \ {o.rec.id} :
                      o.kind = "emit" \/ i \in o.rest => Cov(i, o.records[i].served)
    <2>1. /\ o.kind = op.kind /\ o.records = op.records
          /\ o.rest \subseteq op.rest \ {o.rec.id}
          /\ \/ o.rec = rec
             \/ /\ o.kind = "recover" /\ o.rec.id \in op.rest
                /\ o.rec = op.records[o.rec.id]
      BY <1>18 DEF TurnsTo
    <2>2. op.rest \subseteq DOMAIN op.records \ {op.rec.id}
          /\ op.kind \in {"emit", "recover"}
      BY BusyFields DEF IInv, OpFits
    <2>3. \A i \in DOMAIN op.records \ {op.rec.id} :
             op.kind = "emit" \/ i \in op.rest => Covered(i, op.records[i].served)
      BY DEF IInv, Excused
    <2>4. \A i \in DOMAIN op.records \ {op.rec.id} :
             op.kind = "emit" \/ i \in op.rest => Cov(i, op.records[i].served)
      BY <1>2, <1>15, <2>3
    <2>5. Cov(rec.id, rec.served)
      BY <1>2, <1>15, <1>16
    <2> HIDE DEF Cov
    <2>6. CASE o.rec = rec
      BY <1>2, <2>1, <2>4, <2>5, <2>6
    <2>7. CASE /\ o.kind = "recover" /\ o.rec.id \in op.rest
               /\ o.rec = op.records[o.rec.id]
      BY <2>1, <2>2, <2>4, <2>7
    <2> QED
      BY <2>1, <2>6, <2>7
  <1>19. Excused'
    <2>1. \A i \in Ids : Covered(i, ServedOnFile(i))'
      <3> SUFFICES ASSUME NEW i \in Ids PROVE Covered(i, ServedOnFile(i))'
        OBVIOUS
      <3> QED
        BY <1>17 DEF Covered
    <2>2. Busy' => /\ Covered(op.rec.id, op.rec.served)'
                   /\ (\A i \in DOMAIN op.records \ {op.rec.id} :
                         op.kind = "emit" \/ i \in op.rest
                         => Covered(i, op.records[i].served))'
      BY <1>9, <1>18 DEF Covered
    <2> QED
      BY <2>1, <2>2 DEF Excused
  <1>20. WakeFollowsCopy'
    BY <1>1 DEF IInv, WakeFollowsCopy
  <1> QED
    BY <1>8, <1>10, <1>13, <1>14, <1>19, <1>20 DEF IInv

LEMMA JournalFirstKeeps ==
    ASSUME IInv, JournalFirst
    PROVE  IInv'
  <1>1. Busy /\ op.pc = "journal"
    BY BusyOr DEF IInv, JournalFirst
  <1>2. op.rec \in Records /\ Alike(op.rec, op.rec)
    BY <1>1, BusyFields DEF Alike
  <1>3. Appends(op.rec) /\ UNCHANGED <<interests, now, bus>>
    BY DEF JournalFirst, Appends
  <1>4. op.kind # "recover"
    BY <1>1 DEF IInv, OpFits
  <1>5. /\ op.last = {}
        /\ op.rest \subseteq DOMAIN op.records \ {op.rec.id}
    BY <1>1 DEF IInv, OpFits
  <1> DEFINE o == [op EXCEPT !.pc = "fan"]
  <1>6. /\ o \in Operations /\ o.kind = op.kind /\ o.records = op.records
        /\ o.pc = "fan" /\ o.rec = op.rec /\ o.last = op.last /\ o.rest = op.rest
        /\ op' = o
    BY <1>1 DEF Busy, Operations, JournalFirst
  <1> HIDE DEF o
  <1>7. TurnsTo(op.rec, o)
    BY <1>4, <1>5, <1>6 DEF TurnsTo
  <1> QED
    BY <1>1, <1>2, <1>3, <1>6, <1>7, AppendKeeps

\* The line that says what was delivered is of the record in memory.
LEMMA DecidedIs ==
    ASSUME Busy
    PROVE  /\ Decided \in Records /\ Alike(Decided, op.rec)
           /\ Decided.to = op.rec.to /\ Decided.served = op.rec.served
           /\ Decided.published <=> DOMAIN op.rec.to \subseteq op.rec.served
  BY BusyFields DEF Decided, Records, Alike

LEMMA ConcludeKeeps ==
    ASSUME IInv, Conclude
    PROVE  IInv'
  <1>1. Busy /\ op.pc = "fan"
    BY BusyOr DEF IInv, Conclude, AllTried
  <1>2. /\ Decided \in Records /\ Alike(Decided, op.rec)
        /\ Decided.to = op.rec.to /\ Decided.served = op.rec.served
    BY <1>1, DecidedIs
  <1>3. Appends(Decided) /\ UNCHANGED <<interests, now, bus>>
    BY DEF Conclude, Appends
  <1>4. /\ op.last = {}
        /\ op.rest \subseteq DOMAIN op.records \ {op.rec.id}
        /\ op.kind = "emit" => op.rest = {}
        /\ op.rec.id = Decided.id
    BY <1>1, <1>2 DEF IInv, OpFits, Alike
  <1>5. ASSUME op.kind = "emit", op' = [op EXCEPT !.pc = "prune", !.rec = Decided]
        PROVE  TurnsTo(Decided, op')
    <2> DEFINE o == [op EXCEPT !.pc = "prune", !.rec = Decided]
    <2>1. /\ o \in Operations /\ o.kind = op.kind /\ o.records = op.records
          /\ o.pc = "prune" /\ o.rec = Decided /\ o.last = op.last /\ o.rest = op.rest
      BY <1>1, <1>2 DEF Busy, Operations
    <2>2. op' = o
      BY <1>5
    <2> HIDE DEF o
    <2> QED
      BY <1>2, <1>4, <1>5, <2>1, <2>2 DEF TurnsTo
  <1>6. ASSUME op.kind = "recover", Onward
        PROVE  TurnsTo(Decided, op')
    <2>1. CASE op' = Idle
      BY <2>1 DEF TurnsTo
    <2>2. ASSUME NEW i \in op.rest,
                 op' = [op EXCEPT !.rec = op.records[i], !.rest = @ \ {i}, !.tried = {}]
          PROVE  TurnsTo(Decided, op')
      <3> DEFINE o == [op EXCEPT !.rec = op.records[i], !.rest = @ \ {i}, !.tried = {}]
      <3>1. op.records[i] \in Records /\ op.records[i].id = i
        BY <1>1, <1>4, BusyFields, FoldIs
      <3>2. /\ o \in Operations /\ o.kind = op.kind /\ o.records = op.records
            /\ o.pc = op.pc /\ o.rec = op.records[i] /\ o.last = op.last
            /\ o.rest = op.rest \ {i}
        BY <1>1, <3>1 DEF Busy, Operations
      <3>3. op' = o
        BY <2>2
      <3> HIDE DEF o
      <3> QED
        BY <1>1, <1>4, <1>6, <3>1, <3>2, <3>3 DEF TurnsTo
    <2> QED
      BY <1>6, <2>1, <2>2 DEF Onward
  <1>7. TurnsTo(Decided, op')
    BY <1>5, <1>6 DEF Conclude
  <1> QED
    BY <1>1, <1>2, <1>3, <1>7, AppendKeeps

LEMMA AppendFailsKeeps ==
    ASSUME IInv, NEW cut \in Cuts, AppendFails(cut)
    PROVE  IInv'
  <1>1. Busy /\ op' = Idle /\ UNCHANGED <<interests, now, bus>>
    BY BusyOr DEF IInv, AppendFails
  <1>2. CASE op.pc = "journal" /\ AppendCut(op.rec, cut)
    <2>1. op.rec \in Records /\ Alike(op.rec, op.rec)
      BY <1>1, BusyFields DEF Alike
    <2>2. Appends(op.rec) /\ TurnsTo(op.rec, Idle)
      BY <1>2 DEF Appends, TurnsTo
    <2> QED
      BY <1>1, <1>2, <2>1, <2>2, AppendKeeps
  <1>3. CASE AllTried /\ AppendCut(Decided, cut)
    <2>1. Appends(Decided) /\ TurnsTo(Decided, Idle) /\ op.pc # "prune"
      BY <1>3 DEF Appends, TurnsTo, AllTried
    <2> QED
      BY <1>1, <2>1, DecidedIs, AppendKeeps
  <1> QED
    BY <1>2, <1>3 DEF AppendFails

(***************************************************************************)
(* The rewriting of the file, and what touches neither it nor the bus.     *)
(***************************************************************************)
\* An operation ends: no version comes to light that there was not.
LEMMA EndKeeps ==
    ASSUME IInv, op' = Idle, UNCHANGED <<interests, now, bus>>,
           journal' \in Folds, tail' \in Folds,
           torn' \in BOOLEAN, DOMAIN tail' # {} => torn', WholeOK',
           lapses' \in [Ids -> Nat],
           \A i \in DOMAIN journal' : journal'[i] \in Versions,
           \A i \in DOMAIN tail' : tail'[i] \in Versions,
           \A i \in Ids, s \in Subscribers :
              copies[i][s] <= lapses'[i] + IF s \in ServedOnFile(i)' THEN 1 ELSE 0
    PROVE  IInv'
  <1>1. Typed /\ UNCHANGED <<interests, now, copies, steered>>
    BY DEF IInv, bus
  <1>2. ~Busy'
    BY DEF Busy, Operations, Idle
  <1>3. Typed'
    BY <1>1 DEF Typed
  <1>4. OpFits'
    BY <1>2 DEF OpFits
  <1>5. \A v \in Versions' : v \in Versions
    BY DEF Versions
  <1>6. Numbered' /\ ServedHolds'
    BY <1>1, <1>5 DEF IInv, Numbered, ServedHolds, Fits
  <1>7. Excused'
    BY <1>1, <1>2 DEF Excused, Covered
  <1>8. WakeFollowsCopy'
    BY <1>1 DEF IInv, WakeFollowsCopy
  <1> QED
    BY <1>3, <1>4, <1>6, <1>7, <1>8 DEF IInv

\* What the rewritten file holds.
LEMMA RewriteEffect ==
    ASSUME Typed, Busy, NEW gone \in SUBSET DOMAIN op.records, Rewrite(gone)
    PROVE  /\ journal' \in Folds /\ tail' \in Folds
           /\ DOMAIN tail' = {} /\ torn' = FALSE
           /\ DOMAIN journal' = (DOMAIN op.records \ gone) \cup {op.rec.id}
           /\ journal'[op.rec.id] = op.rec
           /\ \A i \in DOMAIN op.records \ gone :
                 i # op.rec.id => journal'[i] = op.records[i]
  <1> DEFINE f == [i \in DOMAIN op.records \ gone |-> op.records[i]]
  <1>1. op.rec \in Records /\ op.records \in Folds
    BY BusyFields
  <1>2. /\ DOMAIN op.records \subseteq Ids
        /\ \A i \in DOMAIN op.records : op.records[i] \in Records /\ op.records[i].id = i
    BY <1>1, FoldIs
  <1>3. /\ f = [i \in DOMAIN f |-> f[i]] /\ DOMAIN f = DOMAIN op.records \ gone
        /\ \A i \in DOMAIN f : f[i] = op.records[i]
    OBVIOUS
  <1>4. journal' = Put(f, op.rec) /\ tail' = NoLine /\ torn' = FALSE
    BY DEF Rewrite
  <1> HIDE DEF f
  <1>5. f \in Folds
    BY <1>2, <1>3, FoldIs
  <1>6. /\ Put(f, op.rec) \in Folds
        /\ DOMAIN Put(f, op.rec) = DOMAIN f \cup {op.rec.id}
        /\ Put(f, op.rec)[op.rec.id] = op.rec
        /\ \A i \in DOMAIN f : i # op.rec.id => Put(f, op.rec)[i] = f[i]
    BY <1>1, <1>5, PutIsFold
  <1> QED
    BY <1>3, <1>4, <1>6, NoLineIsFold

\* A record that is pruned leaves its copies excused.
LEMMA RewriteKeeps ==
    ASSUME IInv, Busy, op.pc = "prune", op' = Idle, UNCHANGED <<interests, now, bus>>,
           NEW gone \in SUBSET DOMAIN op.records, Rewrite(gone)
    PROVE  IInv'
  <1>1. Typed
    BY DEF IInv
  <1>2. /\ journal' \in Folds /\ tail' \in Folds
        /\ DOMAIN tail' = {} /\ torn' = FALSE
        /\ DOMAIN journal' = (DOMAIN op.records \ gone) \cup {op.rec.id}
        /\ journal'[op.rec.id] = op.rec
        /\ \A i \in DOMAIN op.records \ gone :
                 i # op.rec.id => journal'[i] = op.records[i]
    BY <1>1, RewriteEffect
  <1>3. /\ lapses' \in [Ids -> Nat]
        /\ \A i \in Ids : /\ lapses'[i] >= lapses[i]
                          /\ i \in gone => lapses'[i] = lapses[i] + 1
    BY <1>1, LapseCounts DEF Typed, Rewrite
  <1>4. /\ op.rec \in Versions /\ \A i \in DOMAIN op.records : op.records[i] \in Versions
    BY <1>1, VersionsTyped
  <1>5. \A i \in DOMAIN journal' : journal'[i] \in Versions
    BY <1>2, <1>4
  <1>6. op.kind = "emit" /\ op # Idle
    BY BusyFields DEF IInv, OpFits
  <1>7. /\ Covered(op.rec.id, op.rec.served)
        /\ \A i \in DOMAIN op.records \ {op.rec.id} : Covered(i, op.records[i].served)
        /\ \A i \in Ids : i # op.rec.id => Covered(i, ServedOnFile(i))
    BY <1>6 DEF IInv, Excused
  <1>8. ASSUME NEW i \in Ids, NEW s \in Subscribers
        PROVE  copies[i][s] <= lapses'[i] + IF s \in ServedOnFile(i)' THEN 1 ELSE 0
    <2>1. /\ copies[i][s] \in Nat /\ lapses[i] \in Nat /\ lapses'[i] \in Nat
          /\ lapses'[i] >= lapses[i]
      BY <1>1, <1>3 DEF Typed
    <2>2. ServedOnFile(i)' = IF i \in DOMAIN journal' THEN journal'[i].served ELSE {}
      BY <1>2 DEF ServedOnFile, OnFile, Load
    <2>3. CASE i = op.rec.id
      <3>1. ServedOnFile(i)' = op.rec.served
        BY <1>2, <2>2, <2>3
      <3>2. copies[i][s] <= lapses[i] + IF s \in op.rec.served THEN 1 ELSE 0
        BY <1>7, <2>3 DEF Covered
      <3> QED
        BY <2>1, <3>1, <3>2
    <2>4. CASE i # op.rec.id /\ i \in DOMAIN op.records
      <3>1. copies[i][s] <= lapses[i] + IF s \in op.records[i].served THEN 1 ELSE 0
        BY <1>7, <2>4 DEF Covered
      <3>2. CASE i \in gone
        BY <1>3, <2>1, <3>1, <3>2
      <3>3. CASE i \notin gone
        <4>1. ServedOnFile(i)' = op.records[i].served
          BY <1>2, <2>2, <2>4, <3>3
        <4> QED
          BY <2>1, <3>1, <4>1
      <3> QED
        BY <3>2, <3>3
    <2>5. CASE i # op.rec.id /\ i \notin DOMAIN op.records
      <3>1. i \notin OnFile
        BY <2>5 DEF IInv, OpFits
      <3>2. copies[i][s] <= lapses[i] + IF s \in {} THEN 1 ELSE 0
        BY <1>7, <2>5, <3>1 DEF Covered, ServedOnFile
      <3> QED
        BY <2>1, <3>2
    <2> QED
      BY <2>3, <2>4, <2>5
  <1>9. WholeOK'
    BY <1>1, <1>2 DEF Typed, WholeOK, Rewrite
  <1> QED
    BY <1>2, <1>3, <1>5, <1>8, <1>9, EndKeeps

LEMMA PruneKeeps ==
    ASSUME IInv, Prune
    PROVE  IInv'
  <1>1. /\ Busy /\ op.pc = "prune" /\ op' = Idle /\ UNCHANGED <<interests, now, bus>>
        /\ Typed
    BY BusyOr DEF IInv, Prune
  <1>2. CASE Excess > 0
    <2>1. PICK ids \in SUBSET DOMAIN op.records :
             Rewrite({i \in ids : op.records[i].published})
      BY <1>2 DEF Prune
    <2> QED
      BY <1>1, <2>1, RewriteKeeps
  <1>3. CASE ~(Excess > 0)
    <2>1. UNCHANGED <<journal, tail, torn, whole, lapses, copies>>
      BY <1>1, <1>3 DEF Prune, file, bus
    <2>2. /\ \A i \in DOMAIN journal : journal[i] \in Versions
          /\ \A i \in DOMAIN tail : tail[i] \in Versions
      BY <1>1, VersionsTyped
    <2>3. ASSUME NEW i \in Ids, NEW s \in Subscribers
          PROVE  copies[i][s] <= lapses'[i] + IF s \in ServedOnFile(i)' THEN 1 ELSE 0
      <3>1. Covered(i, ServedOnFile(i))
        BY <1>1 DEF IInv, Excused
      <3> QED
        BY <2>1, <3>1 DEF Covered, ServedOnFile, OnFile, Load
    <2> QED
      BY <1>1, <2>1, <2>2, <2>3, EndKeeps DEF Typed, WholeOK
  <1> QED
    BY <1>2, <1>3

\* The copies of an event whose delivery is cut short are excused.
LEMMA KilledKeeps ==
    ASSUME IInv, Killed
    PROVE  IInv'
  <1>1. /\ Busy /\ op' = Idle /\ UNCHANGED <<interests, now, bus>> /\ Typed
        /\ UNCHANGED <<journal, tail, torn, whole, copies>>
        /\ Lapse(IF op.pc = "prune" THEN {} ELSE {op.rec.id})
    BY BusyOr DEF IInv, Killed, file, bus
  <1>2. /\ \A i \in DOMAIN journal : journal[i] \in Versions
        /\ \A i \in DOMAIN tail : tail[i] \in Versions
    BY <1>1, VersionsTyped
  <1>3. /\ lapses' \in [Ids -> Nat]
        /\ \A i \in Ids :
              /\ lapses'[i] >= lapses[i]
              /\ op.pc # "prune" /\ i = op.rec.id => lapses'[i] = lapses[i] + 1
    BY <1>1, LapseCounts DEF Typed
  <1>4. ASSUME NEW i \in Ids, NEW s \in Subscribers
        PROVE  copies[i][s] <= lapses'[i] + IF s \in ServedOnFile(i)' THEN 1 ELSE 0
    <2>1. /\ copies[i][s] \in Nat /\ lapses[i] \in Nat /\ lapses'[i] \in Nat
          /\ lapses'[i] >= lapses[i]
      BY <1>1, <1>3 DEF Typed
    <2>2. ServedOnFile(i)' = ServedOnFile(i)
      BY <1>1 DEF ServedOnFile, OnFile, Load
    <2>3. CASE i = op.rec.id /\ op.pc # "prune"
      <3>1. copies[i][s] <= lapses[i] + IF s \in op.rec.served THEN 1 ELSE 0
        BY <1>1, <2>3 DEF IInv, Excused, Covered
      <3> QED
        BY <1>3, <2>1, <2>3, <3>1
    <2>4. CASE ~(i = op.rec.id /\ op.pc # "prune")
      <3>1. copies[i][s] <= lapses[i] + IF s \in ServedOnFile(i) THEN 1 ELSE 0
        BY <2>4 DEF IInv, Excused, Covered
      <3> QED
        BY <2>1, <2>2, <3>1
    <2> QED
      BY <2>3, <2>4
  <1> QED
    BY <1>1, <1>2, <1>3, <1>4, EndKeeps DEF Typed, WholeOK

\* A declaration, its withdrawal, or the clock.
LEMMA AsideKeeps ==
    ASSUME IInv, UNCHANGED <<file, op, bus, lapses>>,
           DOMAIN interests' \subseteq Subscribers, now' \in Nat
    PROVE  IInv'
  <1>1. UNCHANGED <<journal, tail, torn, whole, op, copies, steered, lapses>>
    BY DEF file, bus
  <1>2. OnFile' = OnFile /\ Load' = Load /\ Versions' = Versions /\ (Busy' <=> Busy)
    BY <1>1 DEF OnFile, Load, Versions, Busy
  <1>3. Typed'
    BY <1>1, <1>2 DEF IInv, Typed, WholeOK
  <1>4. OpFits' /\ Numbered' /\ ServedHolds' /\ WakeFollowsCopy'
    BY <1>1, <1>2 DEF IInv, OpFits, Numbered, ServedHolds, WakeFollowsCopy
  <1>5. \A i \in Ids : ServedOnFile(i)' = ServedOnFile(i)
    BY <1>2 DEF ServedOnFile
  <1>6. Excused'
    BY <1>1, <1>2, <1>5 DEF IInv, Excused, Covered
  <1> QED
    BY <1>3, <1>4, <1>6 DEF IInv

LEMMA InterestsKeep ==
    ASSUME IInv, NEW s \in Subscribers,
           Unsubscribe(s) \/ \E d \in Declarations : Subscribe(s, d)
    PROVE  IInv'
  <1>1. DOMAIN interests \subseteq Subscribers /\ now \in Nat
    BY DEF IInv, Typed
  <1>2. CASE Unsubscribe(s)
    <2>1. DOMAIN interests' \subseteq Subscribers
      BY <1>1, <1>2 DEF Unsubscribe
    <2> QED
      BY <1>1, <1>2, <2>1, AsideKeeps DEF Unsubscribe
  <1>3. ASSUME NEW d \in Declarations, Subscribe(s, d) PROVE IInv'
    <2>1. DOMAIN interests' \subseteq Subscribers
      BY <1>1, <1>3 DEF Subscribe
    <2> QED
      BY <1>1, <1>3, <2>1, AsideKeeps DEF Subscribe
  <1> QED
    BY <1>2, <1>3

\* IInv is inductive.
LEMMA InvNext == ASSUME IInv, [Next]_vars PROVE IInv'
  <1>1. DOMAIN interests \subseteq Subscribers /\ now \in Nat
    BY DEF IInv, Typed
  <1>2. CASE UNCHANGED vars
    BY <1>1, <1>2, AsideKeeps DEF vars
  <1>3. CASE Tick
    BY <1>1, <1>3, AsideKeeps DEF Tick
  <1>4. CASE Emit
    BY <1>4, EmitNewKeeps, EmitResumedKeeps DEF Emit
  <1>5. CASE Delivery
    BY <1>5, JournalFirstKeeps, ConcludeKeeps, PruneKeeps, PublishKeeps, WakeKeeps
       DEF Delivery
  <1>6. CASE Interests
    BY <1>6, InterestsKeep DEF Interests
  <1>7. CASE Faults
    BY <1>7, KilledKeeps, AppendFailsKeeps, PublishFailsKeeps DEF Faults
  <1> QED
    BY <1>2, <1>3, <1>4, <1>5, <1>6, <1>7, RecoverKeeps DEF Next

(***************************************************************************)
(* What holds whatever a failed append leaves on file.                     *)
(***************************************************************************)
LEMMA InvAlways == Spec => []IInv
  <1>1. Init => IInv
    BY InvInit
  <1>2. IInv /\ [Next]_vars => IInv'
    BY InvNext
  <1> QED
    BY <1>1, <1>2, PTL DEF Spec

LEMMA FoldsAreOK == ASSUME NEW f \in Folds PROVE FoldOK(f) /\ DOMAIN f \subseteq Ids
  BY FoldIs, RecordFields DEF FoldOK, RecordOK

LEMMA InvTyped == ASSUME IInv PROVE TypeOK
  <1>1. Typed
    BY DEF IInv
  <1>2. FoldOK(journal) /\ FoldOK(tail)
    BY <1>1, FoldsAreOK DEF Typed
  <1>3. ASSUME op # Idle
        PROVE  /\ op.kind \in {"emit", "recover"}
               /\ op.pc \in {"journal", "fan", "wake", "prune"}
               /\ RecordOK(op.rec) /\ FoldOK(op.records)
               /\ op.tried \cup op.last \subseteq Subscribers
               /\ op.rest \subseteq DOMAIN op.records
    <2>1. Busy
      BY <1>1, <1>3, BusyOr
    <2>2. /\ op.kind \in {"emit", "recover"}
          /\ op.pc \in {"journal", "fan", "wake", "prune"}
          /\ op.rec \in Records /\ op.records \in Folds
          /\ op.tried \subseteq Subscribers /\ op.last \subseteq Subscribers
      BY <2>1, BusyFields
    <2>3. op.rest \subseteq DOMAIN op.records
      BY <2>1 DEF IInv, OpFits
    <2>4. RecordOK(op.rec) /\ FoldOK(op.records)
      BY <2>2, FoldsAreOK, RecordFields DEF RecordOK
    <2> QED
      BY <2>2, <2>3, <2>4
  <1> QED
    BY <1>1, <1>2, <1>3 DEF Typed, WholeOK, TypeOK

\* Every line that can be read is a record of an announced event, and an
\* operation under way works on one (load, append, prune).
THEOREM OutboxTyped == Spec => []TypeOK
  BY InvAlways, InvTyped, PTL

\* No two records on file of one source share a number, also where a torn line
\* took the latest along and an older one came to light (nextSeq).
THEOREM NumbersDiffer == Spec => []SequencesDiffer
  <1>1. ASSUME IInv PROVE SequencesDiffer
    <2> SUFFICES ASSUME NEW i \in OnFile, NEW j \in OnFile, i # j,
                        Load[i].env.source = Load[j].env.source
                 PROVE  Load[i].seq # Load[j].seq
      BY DEF SequencesDiffer
    <2>1. Load[i] \in Versions /\ Load[j] \in Versions
      BY <1>1, VersionsTyped DEF IInv
    <2>2. Load[i].id = i /\ Load[j].id = j
      BY <1>1, LoadIsFold DEF IInv, Typed
    <2>3. Fits(Load[i], Load[j])
      BY <1>1, <2>1 DEF IInv, Numbered
    <2> QED
      BY <2>2, <2>3 DEF Fits
  <1> QED
    BY <1>1, InvAlways, PTL

\* A recipient holds no copy too many, but for a delivery cut short, a line
\* lost or a record pruned, and no frame was pushed at it before its copy.
THEOREM DeliveriesAreRight == Spec => []DeliveredRight
  <1>1. ASSUME IInv PROVE DeliveredRight
    <2>1. Typed /\ WakeFollowsCopy
      BY <1>1 DEF IInv
    <2>2. ASSUME NEW i \in Ids, NEW s \in Subscribers
          PROVE  copies[i][s] <= 1 + lapses[i]
      <3>1. \E S : Covered(i, S)
        <4>1. CASE op = Idle \/ i # op.rec.id \/ op.pc = "prune"
          BY <1>1, <4>1 DEF IInv, Excused
        <4>2. CASE op # Idle /\ i = op.rec.id
          BY <1>1, <2>1, <4>2, BusyOr DEF IInv, Excused
        <4> QED
          BY <4>1, <4>2
      <3>2. PICK S : copies[i][s] <= lapses[i] + IF s \in S THEN 1 ELSE 0
        BY <3>1 DEF Covered
      <3>3. copies[i][s] \in Nat /\ lapses[i] \in Nat
        BY <2>1 DEF Typed
      <3> QED
        BY <3>2, <3>3
    <2> QED
      BY <2>1, <2>2 DEF DeliveredRight, CopiesAreExcused
  <1> QED
    BY <1>1, InvAlways, PTL

\* One that is routed for several reasons is woken if any of them allows it
\* (resolveRecipients, reasonPrecedence against wakeReasons).
THEOREM WakesAreNeverOutranked == Spec => []WakeIsNotOutranked
  <1>1. ASSUME IInv PROVE WakeIsNotOutranked
    BY <1>1, WakesAreKept DEF IInv, Typed
  <1> QED
    BY <1>1, InvAlways, PTL

(***************************************************************************)
(* Until an append is first cut inside its line, the file follows the      *)
(* record in memory, and the outbox is the at-least-once channel.          *)
(***************************************************************************)
FInv == IInv /\ Followed

WInv == IInv /\ (whole => Followed)

\* Without a torn line, load reads the journal.
LEMMA QuietFile ==
    ASSUME Typed, ~torn
    PROVE  DOMAIN tail = {} /\ OnFile = DOMAIN journal /\ Load = journal
  <1>1. DOMAIN tail = {} /\ OnFile = DOMAIN journal
    BY DEF Typed, OnFile
  <1>2. journal = [i \in DOMAIN journal |-> journal[i]]
    BY FoldIs DEF Typed
  <1>3. Load = [i \in DOMAIN journal |-> journal[i]]
    BY <1>1 DEF Load
  <1> QED
    BY <1>1, <1>2, <1>3

\* What an append does to the file then: all or nothing.
LEMMA CleanAppend ==
    ASSUME Typed, ~torn, NEW rec \in Records, AppendRecord(rec)
    PROVE  /\ ~torn' /\ tail' = NoLine
           /\ DOMAIN journal' = DOMAIN journal \cup {rec.id}
           /\ journal'[rec.id] = rec
           /\ \A i \in DOMAIN journal : i # rec.id => journal'[i] = journal[i]
  <1>1. journal' = Put(journal, rec) /\ tail' = NoLine /\ torn' = FALSE
    BY DEF AppendRecord
  <1>2. /\ DOMAIN Put(journal, rec) = DOMAIN journal \cup {rec.id}
        /\ Put(journal, rec)[rec.id] = rec
        /\ \A i \in DOMAIN journal : i # rec.id => Put(journal, rec)[i] = journal[i]
    BY PutIsFold DEF Typed
  <1> QED
    BY <1>1, <1>2

\* One that fails and leaves the file whole leaves nothing.
LEMMA NoCut ==
    ASSUME Typed, NEW cut \in Cuts, AppendFails(cut), whole'
    PROVE  whole /\ op' = Idle /\ UNCHANGED <<journal, tail, torn, copies>>
  <1>1. cut \in {"nothing", "fragment", "unended"}
    BY OutboxConstants
  <1>2. PICK rec : AppendCut(rec, cut)
    BY DEF AppendFails
  <1>3. whole' = (whole /\ ~torn')
    BY <1>2 DEF AppendCut
  <1>4. whole /\ ~torn'
    BY <1>3
  <1>5. cut = "nothing"
    BY <1>1, <1>2, <1>4 DEF AppendCut
  <1> QED
    BY <1>2, <1>4, <1>5 DEF AppendCut, AppendFails, bus

LEMMA FollowedInit == ASSUME Init PROVE Followed
  BY BusyFields DEF Init, Followed

\* An operation that begins has just read the file.
LEMMA OpeningFollows ==
    ASSUME FInv, op = Idle,
           NEW kind, NEW pc \in {"journal", "fan"},
           NEW rec \in Records, NEW rest \in SUBSET OnFile,
           op' = Operation(kind, pc, rec, rest), UNCHANGED file,
           pc = "journal" => rec.id \notin OnFile,
           pc = "fan" => rec.id \in OnFile /\ rec = Load[rec.id] /\ ~rec.published,
           \A i \in rest : ~Load[i].published
    PROVE  Followed'
  <1>1. /\ OnFile = DOMAIN journal /\ Load = journal
        /\ UNCHANGED <<journal, torn>> /\ ~torn
    BY QuietFile DEF FInv, IInv, Followed, file
  <1>2. /\ op'.kind = kind /\ op'.pc = pc /\ op'.rec = rec
        /\ op'.records = journal /\ op'.rest = rest
    BY <1>1 DEF Operation
  <1> QED
    BY <1>1, <1>2 DEF Followed

LEMMA BeginningFollows ==
    ASSUME FInv, Recover \/ Emit
    PROVE  Followed'
  <1>1. /\ \A i \in OnFile : Load[i] \in Records /\ Load[i].id = i
        /\ Typed
    BY LoadIsFold DEF FInv, IInv, Typed
  <1>2. ASSUME NEW e \in Envelopes, EmitNew(e) PROVE Followed'
    <2>1. /\ op = Idle /\ op' = Operation("emit", "journal", NewRecord(e), {})
          /\ e.id \notin OnFile /\ UNCHANGED file
      BY <1>2 DEF EmitNew
    <2>2. NewRecord(e).id = e.id
      BY DEF NewRecord
    <2>3. NewRecord(e) \in Records
      <3>1. Route(e, interests) \in Routes /\ e.id \in Ids /\ now \in Nat
        BY <1>1, RouteTyped DEF Typed, Ids
      <3>2. \A i \in OnFile : Load[i].seq \in Nat \ {0}
        BY <1>1, RecordFields
      <3>3. NextSeq(Load, e.source) \in Nat \ {0}
        BY <1>1, <3>2, LoadIsFold, NextSeqIsNew DEF Typed
      <3> QED
        BY <3>1, <3>3 DEF NewRecord, Records
    <2> QED
      BY <2>1, <2>2, <2>3, OpeningFollows
  <1>3. ASSUME NEW e \in Envelopes, EmitResumed(e) PROVE Followed'
    BY <1>1, <1>3, OpeningFollows DEF EmitResumed
  <1>4. CASE Recover
    <2> DEFINE owing == {j \in OnFile : ~Load[j].published}
    <2>1. PICK i \in owing :
             op = Idle /\ op' = Operation("recover", "fan", Load[i], owing \ {i})
             /\ UNCHANGED file
      BY <1>4 DEF Recover, Redrive
    <2>2. /\ i \in OnFile /\ ~Load[i].published /\ owing \ {i} \in SUBSET OnFile
          /\ \A j \in owing \ {i} : ~Load[j].published
      OBVIOUS
    <2> HIDE DEF owing
    <2> QED
      BY <1>1, <2>1, <2>2, OpeningFollows
  <1> QED
    BY <1>2, <1>3, <1>4 DEF Emit

\* In memory: the file stays, and of the history only the record at work moves.
LEMMA MemoryFollows ==
    ASSUME FInv, Busy, op.pc \in {"fan", "wake"}, UNCHANGED file,
           op'.pc \in {"fan", "wake"}, op'.kind = op.kind, op'.rest = op.rest,
           op'.rec.id = op.rec.id, op'.rec.to = op.rec.to,
           DOMAIN op'.records = DOMAIN op.records,
           \A i \in DOMAIN op.records :
              i # op.rec.id => op'.records[i] = op.records[i]
    PROVE  Followed'
  <1>1. UNCHANGED <<journal, torn>> /\ Followed
        /\ op.rest \subseteq DOMAIN op.records \ {op.rec.id}
    BY DEF FInv, IInv, OpFits, file
  <1> QED
    BY <1>1 DEF Followed

LEMMA DeliveryFollows ==
    ASSUME FInv, NEW s \in Subscribers, Publish(s) \/ PublishFails(s) \/ Wake(s)
    PROVE  Followed'
  <1>1. Busy /\ op.pc \in {"fan", "wake"} /\ UNCHANGED file
    BY BusyOr DEF FInv, IInv, Publish, PublishFails, Wake
  <1>2. CASE Publish(s)
    <2>1. /\ op'.kind = op.kind /\ op'.rest = op.rest /\ op'.records = op.records
          /\ op'.rec.id = op.rec.id /\ op'.rec.to = op.rec.to
          /\ op'.pc \in {"fan", "wake"}
      BY <1>1, <1>2, BusyFields DEF Publish, Busy, Operations, Records
    <2> QED
      BY <1>1, <2>1, MemoryFollows
  <1>3. CASE PublishFails(s)
    <2>1. /\ op'.kind = op.kind /\ op'.rest = op.rest /\ op'.records = op.records
          /\ op'.rec = op.rec /\ op'.pc = op.pc
      BY <1>1, <1>3 DEF PublishFails, Busy, Operations
    <2> QED
      BY <1>1, <2>1, MemoryFollows
  <1>4. CASE Wake(s)
    <2>1. /\ op'.kind = op.kind /\ op'.rest = op.rest
          /\ op'.rec.id = op.rec.id /\ op'.rec.to = op.rec.to
          /\ op'.pc = "fan"
          /\ op'.records = op.records \/ op'.records = WithWake(op.records, s)
      <3>1. CASE op' = [op EXCEPT !.rec.woken = @ \cup {s}, !.pc = "fan", !.last = {},
                                  !.records = WithWake(op.records, s)]
        <4> DEFINE g == WithWake(op.records, s)
        <4>1. op' = [op EXCEPT !.rec = [op.rec EXCEPT !.woken = @ \cup {s}],
                               !.pc = "fan", !.last = {}, !.records = g]
          BY <1>1, <3>1 DEF Busy, Operations
        <4> HIDE DEF g
        <4>2. op'.records = g /\ op'.kind = op.kind /\ op'.rest = op.rest /\ op'.pc = "fan"
              /\ op'.rec = [op.rec EXCEPT !.woken = @ \cup {s}]
          BY <1>1, <4>1 DEF Busy, Operations
        <4>3. op'.rec.id = op.rec.id /\ op'.rec.to = op.rec.to
          BY <1>1, <4>2, BusyFields DEF Records
        <4> QED
          BY <4>2, <4>3 DEF g
      <3>2. CASE op' = [op EXCEPT !.pc = "fan", !.last = {}]
        BY <1>1, <3>2 DEF Busy, Operations
      <3> QED
        BY <1>4, <3>1, <3>2 DEF Wake
    <2>2. /\ DOMAIN op'.records = DOMAIN op.records
          /\ \A i \in DOMAIN op.records :
                i # op.rec.id => op'.records[i] = op.records[i]
      BY <2>1 DEF WithWake
    <2> QED
      BY <1>1, <2>1, <2>2, MemoryFollows
  <1> QED
    BY <1>2, <1>3, <1>4

LEMMA JournalFirstFollows ==
    ASSUME FInv, JournalFirst
    PROVE  Followed'
  <1>1. Busy /\ op.pc = "journal" /\ Typed /\ ~torn
    BY BusyOr DEF FInv, IInv, JournalFirst, Followed
  <1>2. op.rec \in Records /\ ~op.rec.published /\ op.kind = "emit" /\ op.rest = {}
    BY <1>1, BusyFields DEF FInv, IInv, OpFits
  <1>3. /\ ~torn'
        /\ DOMAIN journal' = DOMAIN journal \cup {op.rec.id}
        /\ journal'[op.rec.id] = op.rec
        /\ \A i \in DOMAIN journal : i # op.rec.id => journal'[i] = journal[i]
    BY <1>1, <1>2, CleanAppend DEF JournalFirst
  <1>4. /\ op'.kind = op.kind /\ op'.rest = op.rest /\ op'.records = op.records
        /\ op'.rec = op.rec /\ op'.pc = "fan"
    BY <1>1 DEF JournalFirst, Busy, Operations
  <1>5. \A i \in Ids \ {op.rec.id} :
           /\ i \in DOMAIN journal <=> i \in DOMAIN op.records
           /\ i \in DOMAIN journal => journal[i] = op.records[i]
    BY <1>1, <1>2 DEF FInv, Followed
  <1> QED
    BY <1>2, <1>3, <1>4, <1>5 DEF Followed

LEMMA ConcludeFollows ==
    ASSUME FInv, Conclude
    PROVE  Followed'
  <1>1. Busy /\ op.pc = "fan" /\ Typed /\ ~torn
    BY BusyOr DEF FInv, IInv, Conclude, AllTried, Followed
  <1>2. /\ Decided \in Records /\ Decided.id = op.rec.id
        /\ op.rec.id \in Ids
        /\ op.rest \subseteq DOMAIN op.records \ {op.rec.id}
        /\ \A i \in op.rest : op.records[i].id = i
    BY <1>1, DecidedIs, BusyFields, RecordFields, FoldIs
       DEF FInv, IInv, OpFits, Alike
  <1>3. /\ ~torn'
        /\ DOMAIN journal' = DOMAIN journal \cup {op.rec.id}
        /\ journal'[op.rec.id] = Decided
        /\ \A i \in DOMAIN journal : i # op.rec.id => journal'[i] = journal[i]
    BY <1>1, <1>2, CleanAppend DEF Conclude
  <1>4. CASE op.kind = "emit" /\ op' = [op EXCEPT !.pc = "prune", !.rec = Decided]
    <2>1. /\ op'.kind = "emit" /\ op'.rest = op.rest /\ op'.records = op.records
          /\ op'.rec = Decided /\ op'.pc = "prune"
      BY <1>1, <1>4 DEF Busy, Operations
    <2>2. \A i \in Ids \ {op.rec.id} :
             /\ i \in DOMAIN journal <=> i \in DOMAIN op.records
             /\ i \in DOMAIN journal => journal[i] = op.records[i]
      BY <1>1, <1>4 DEF FInv, Followed
    <2>3. op.rest = {}
      BY <1>1, <1>4 DEF FInv, IInv, OpFits
    <2> QED
      BY <1>2, <1>3, <2>1, <2>2, <2>3 DEF Followed
  <1>5. CASE op' = Idle
    BY <1>3, <1>5 DEF Followed, Busy, Operations, Idle
  <1>6. ASSUME op.kind = "recover", NEW i \in op.rest,
               op' = [op EXCEPT !.rec = op.records[i], !.rest = @ \ {i}, !.tried = {}]
        PROVE  Followed'
    <2>1. /\ op'.kind = "recover" /\ op'.rest = op.rest \ {i}
          /\ op'.records = op.records /\ op'.rec = op.records[i] /\ op'.pc = "fan"
      BY <1>1, <1>6 DEF Busy, Operations
    <2>2. \A j \in op.rest : /\ j \in DOMAIN journal /\ journal[j] = op.records[j]
                             /\ ~journal[j].published /\ j # op.rec.id
      BY <1>1, <1>2 DEF FInv, Followed
    <2>3. \A j \in op.rest : /\ j \in DOMAIN journal' /\ journal'[j] = op.records[j]
                             /\ ~journal'[j].published
      BY <1>3, <2>2
    <2>4. op.records[i].id = i
      BY <1>2
    <2> QED
      BY <1>3, <2>1, <2>3, <2>4 DEF Followed
  <1> QED
    BY <1>4, <1>5, <1>6 DEF Conclude, Onward

\* A file that is whole after a step was whole before it.
LEMMA WholeBefore ==
    ASSUME Typed, [Next]_vars, whole'
    PROVE  whole
  <1>1. CASE UNCHANGED file
    BY <1>1 DEF file
  <1>2. CASE JournalFirst \/ Conclude
    BY <1>2 DEF JournalFirst, Conclude, AppendRecord
  <1>3. CASE Prune
    BY <1>3 DEF Prune, Rewrite, file
  <1>4. CASE \E cut \in Cuts : AppendFails(cut)
    BY <1>4, NoCut
  <1>5. CASE Emit \/ Recover
    BY <1>1, <1>5 DEF Emit, EmitNew, EmitResumed, Recover, Redrive
  <1>6. CASE \E s \in Subscribers : Publish(s) \/ PublishFails(s) \/ Wake(s)
    BY <1>1, <1>6 DEF Publish, PublishFails, Wake
  <1>7. CASE Killed \/ Interests \/ Tick \/ UNCHANGED vars
    BY <1>1, <1>7 DEF Killed, Interests, Subscribe, Unsubscribe, Tick, vars
  <1> QED
    BY <1>2, <1>3, <1>4, <1>5, <1>6, <1>7 DEF Next, Delivery, Faults

\* With that, Followed is inductive along IInv for as long as the file is whole.
LEMMA FollowedNext ==
    ASSUME FInv, [Next]_vars, whole'
    PROVE  Followed'
  <1>1. op' = Idle => ~Busy'
    BY DEF Busy, Operations, Idle
  <1>2. UNCHANGED <<op, file>> => Followed'
    BY DEF FInv, Followed, Busy, file
  <1>3. op' = Idle /\ ~torn' => Followed'
    BY <1>1 DEF Followed
  <1>4. ~torn /\ Typed
    BY DEF FInv, IInv, Followed
  <1>5. CASE Prune
    <2>1. op' = Idle
      BY <1>5 DEF Prune
    <2>2. ~torn'
      BY <1>4, <1>5 DEF Prune, Rewrite, file
    <2> QED
      BY <1>3, <2>1, <2>2
  <1>6. CASE Killed
    BY <1>3, <1>4, <1>6 DEF Killed, file
  <1>7. ASSUME NEW cut \in Cuts, AppendFails(cut) PROVE Followed'
    BY <1>3, <1>4, <1>7, NoCut
  <1>8. CASE Interests \/ Tick \/ UNCHANGED vars
    BY <1>2, <1>8 DEF Interests, Subscribe, Unsubscribe, Tick, vars
  <1>9. CASE Emit \/ Recover
    BY <1>9, BeginningFollows
  <1>10. CASE Delivery
    BY <1>5, <1>10, JournalFirstFollows, ConcludeFollows, DeliveryFollows DEF Delivery
  <1>11. CASE Faults
    BY <1>6, <1>7, <1>11, DeliveryFollows DEF Faults
  <1> QED
    BY <1>8, <1>9, <1>10, <1>11 DEF Next

LEMMA WholeNext == ASSUME WInv, [Next]_vars PROVE WInv'
  <1>1. IInv' /\ Typed
    BY InvNext DEF WInv, IInv
  <1>2. ASSUME whole' PROVE Followed'
    BY <1>1, <1>2, WholeBefore, FollowedNext DEF WInv, FInv
  <1> QED
    BY <1>1, <1>2 DEF WInv

(***************************************************************************)
(* The outbox implements the at-least-once channel.                        *)
(***************************************************************************)
Owed == [i \in {j \in OnFile : ~Load[j].published} |-> DOMAIN Load[i].to]
Settled == {j \in OnFile : Load[j].published}

\* Both as they are read off the journal.
ReadOff ==
    /\ DOMAIN Owed = {j \in DOMAIN journal : ~journal[j].published}
    /\ \A i \in DOMAIN Owed : Owed[i] = DOMAIN journal[i].to
    /\ Owed = [i \in DOMAIN Owed |-> Owed[i]]
    /\ Settled = {j \in DOMAIN journal : journal[j].published}

LEMMA OwedIs == Typed /\ ~torn => ReadOff
  BY QuietFile DEF Owed, Settled, ReadOff

LEMMA OwedIsNext == Typed' /\ ~torn' => ReadOff'
  BY OwedIs, PTL

\* Nothing that the channel sees.
LEMMA Unseen ==
    ASSUME UNCHANGED <<journal, tail, copies>>
    PROVE  UNCHANGED <<Owed, Settled, copies>>
  BY DEF Owed, Settled, OnFile, Load

\* JournalFirst takes the debt on.
LEMMA JournalFirstAccepts ==
    ASSUME FInv, FInv', JournalFirst
    PROVE  Channel!Accept(op.rec.id, DOMAIN op.rec.to)
  <1>1. Busy /\ op.pc = "journal" /\ Typed /\ ~torn /\ Typed' /\ ~torn'
    BY BusyOr DEF FInv, IInv, JournalFirst, Followed
  <1>2. op.rec \in Records /\ ~op.rec.published /\ op.rec.id \notin DOMAIN journal
    BY <1>1, BusyFields DEF FInv, IInv, OpFits, Followed
  <1>3. /\ DOMAIN journal' = DOMAIN journal \cup {op.rec.id}
        /\ journal'[op.rec.id] = op.rec
        /\ \A i \in DOMAIN journal : i # op.rec.id => journal'[i] = journal[i]
        /\ copies' = copies
    BY <1>1, <1>2, CleanAppend DEF JournalFirst, bus
  <1>4. /\ DOMAIN Owed = {j \in DOMAIN journal : ~journal[j].published}
        /\ \A i \in DOMAIN Owed : Owed[i] = DOMAIN journal[i].to
        /\ Settled = {j \in DOMAIN journal : journal[j].published}
    BY <1>1, OwedIs DEF ReadOff
  <1>5. /\ DOMAIN Owed' = {j \in DOMAIN journal' : ~journal'[j].published}
        /\ \A i \in DOMAIN Owed' : Owed'[i] = DOMAIN journal'[i].to
        /\ Owed' = [i \in DOMAIN Owed' |-> Owed'[i]]
        /\ Settled' = {j \in DOMAIN journal' : journal'[j].published}
    BY <1>1, OwedIsNext DEF ReadOff
  <1>6. Settled' = Settled
    BY <1>2, <1>3, <1>4, <1>5
  <1>7. /\ DOMAIN Owed' = DOMAIN Owed \cup {op.rec.id}
        /\ \A i \in DOMAIN Owed' :
              Owed'[i] = IF i = op.rec.id THEN DOMAIN op.rec.to ELSE Owed[i]
    BY <1>2, <1>3, <1>4, <1>5
  <1>8. op.rec.id \notin DOMAIN Owed \cup Settled
    BY <1>2, <1>4
  <1>9. Owed' = [j \in DOMAIN Owed \cup {op.rec.id} |->
                    IF j = op.rec.id THEN DOMAIN op.rec.to ELSE Owed[j]]
    BY <1>5, <1>7
  <1> QED
    BY <1>3, <1>6, <1>8, <1>9 DEF Channel!Accept, Owed, Settled

\* Publish hands a copy over to one that the event is owed to.
LEMMA PublishHandsOver ==
    ASSUME FInv, NEW s \in Subscribers, Publish(s)
    PROVE  Channel!HandOver(op.rec.id, s)
  <1>1. Busy /\ op.pc = "fan" /\ Typed /\ ~torn
    BY BusyOr DEF FInv, IInv, Publish, Followed
  <1>2. /\ op.rec.id \in DOMAIN journal /\ ~journal[op.rec.id].published
        /\ journal[op.rec.id].to = op.rec.to
    BY <1>1 DEF FInv, Followed
  <1>3. op.rec.id \in DOMAIN Owed /\ Owed[op.rec.id] = DOMAIN op.rec.to
    BY <1>1, <1>2, OwedIs DEF ReadOff
  <1>4. /\ s \in DOMAIN op.rec.to
        /\ copies' = [copies EXCEPT ![op.rec.id][s] = @ + 1]
        /\ UNCHANGED <<journal, tail>>
    BY DEF Publish, Up, Waiting, file
  <1>5. Owed' = Owed /\ Settled' = Settled
    BY <1>4 DEF Owed, Settled, OnFile, Load
  <1> QED
    BY <1>3, <1>4, <1>5 DEF Channel!HandOver, Owed, Settled

\* Conclude settles a debt when everybody was served, and only then.
LEMMA ConcludeSettles ==
    ASSUME FInv, FInv', Conclude
    PROVE  Channel!Settle(op.rec.id) \/ UNCHANGED <<Owed, Settled, copies>>
  <1>1. Busy /\ op.pc = "fan" /\ Typed /\ ~torn /\ Typed' /\ ~torn'
    BY BusyOr DEF FInv, IInv, Conclude, AllTried, Followed
  <1>2. /\ Decided \in Records /\ Decided.id = op.rec.id /\ Decided.to = op.rec.to
        /\ Decided.published <=> DOMAIN op.rec.to \subseteq op.rec.served
    BY <1>1, DecidedIs DEF Alike
  <1>3. /\ op.rec.id \in DOMAIN journal /\ ~journal[op.rec.id].published
        /\ journal[op.rec.id].to = op.rec.to
    BY <1>1 DEF FInv, Followed
  <1>4. /\ DOMAIN journal' = DOMAIN journal
        /\ journal'[op.rec.id] = Decided
        /\ \A i \in DOMAIN journal : i # op.rec.id => journal'[i] = journal[i]
        /\ copies' = copies
    BY <1>1, <1>2, <1>3, CleanAppend DEF Conclude, bus
  <1>5. /\ DOMAIN Owed = {j \in DOMAIN journal : ~journal[j].published}
        /\ \A i \in DOMAIN Owed : Owed[i] = DOMAIN journal[i].to
        /\ Owed = [i \in DOMAIN Owed |-> Owed[i]]
        /\ Settled = {j \in DOMAIN journal : journal[j].published}
    BY <1>1, OwedIs DEF ReadOff
  <1>6. /\ DOMAIN Owed' = {j \in DOMAIN journal' : ~journal'[j].published}
        /\ \A i \in DOMAIN Owed' : Owed'[i] = DOMAIN journal'[i].to
        /\ Owed' = [i \in DOMAIN Owed' |-> Owed'[i]]
        /\ Settled' = {j \in DOMAIN journal' : journal'[j].published}
    BY <1>1, OwedIsNext DEF ReadOff
  <1>7. CASE Decided.published
    <2>1. op.rec.id \in DOMAIN Owed /\ Owed[op.rec.id] = DOMAIN op.rec.to
      BY <1>3, <1>5
    <2>2. \A s \in Owed[op.rec.id] : copies[op.rec.id][s] > 0
      BY <1>1, <1>2, <1>7, <2>1, VersionsTyped DEF FInv, IInv, ServedHolds
    <2>3. Settled' = Settled \cup {op.rec.id}
      BY <1>3, <1>4, <1>5, <1>6, <1>7
    <2>4. /\ DOMAIN Owed' = DOMAIN Owed \ {op.rec.id}
          /\ \A i \in DOMAIN Owed' : Owed'[i] = Owed[i]
      BY <1>4, <1>5, <1>6, <1>7
    <2>5. Owed' = [j \in DOMAIN Owed \ {op.rec.id} |-> Owed[j]]
      BY <1>6, <2>4
    <2> QED
      BY <1>4, <2>1, <2>2, <2>3, <2>5 DEF Channel!Settle, Owed, Settled
  <1>8. CASE ~Decided.published
    <2>1. Settled' = Settled
      BY <1>3, <1>4, <1>5, <1>6, <1>8
    <2>2. /\ DOMAIN Owed' = DOMAIN Owed
          /\ \A i \in DOMAIN Owed' : Owed'[i] = Owed[i]
      BY <1>2, <1>3, <1>4, <1>5, <1>6, <1>8
    <2>3. Owed' = Owed
      BY <1>5, <1>6, <2>2
    <2> QED
      BY <1>4, <2>1, <2>3
  <1> QED
    BY <1>7, <1>8

\* Prune forgets settled events and nothing else.
LEMMA PruneForgets ==
    ASSUME FInv, FInv', Prune
    PROVE  \/ \E gone \in SUBSET Settled : Channel!Forget(gone)
           \/ UNCHANGED <<Owed, Settled, copies>>
  <1>1. /\ Busy /\ op.pc = "prune" /\ Typed /\ ~torn /\ Typed' /\ ~torn'
        /\ copies' = copies
    BY BusyOr DEF FInv, IInv, Prune, Followed, bus
  <1>2. CASE ~(Excess > 0)
    BY <1>1, <1>2, Unseen DEF Prune, file
  <1>3. CASE Excess > 0
    <2>1. PICK ids \in SUBSET DOMAIN op.records :
             Rewrite({i \in ids : op.records[i].published})
      BY <1>3 DEF Prune
    <2> DEFINE all == {i \in ids : op.records[i].published}
    <2> PICK gone : gone = all \ {op.rec.id}
      OBVIOUS
    <2>2. /\ DOMAIN journal' = (DOMAIN op.records \ all) \cup {op.rec.id}
          /\ journal'[op.rec.id] = op.rec
          /\ \A i \in DOMAIN op.records \ all :
                i # op.rec.id => journal'[i] = op.records[i]
      BY <1>1, <2>1, RewriteEffect
    <2>3. /\ op.kind = "emit" /\ op.rec.id \in DOMAIN journal
          /\ journal[op.rec.id] = op.rec
          /\ DOMAIN journal \subseteq Ids /\ DOMAIN op.records \subseteq Ids
      BY <1>1, BusyFields, FoldIs DEF FInv, IInv, OpFits, Followed, Typed
    <2>4. \A i \in Ids \ {op.rec.id} :
             /\ i \in DOMAIN journal <=> i \in DOMAIN op.records
             /\ i \in DOMAIN journal => journal[i] = op.records[i]
      BY <1>1, <2>3 DEF FInv, Followed
    <2>5. /\ gone \subseteq DOMAIN journal
          /\ \A i \in gone : journal[i].published
          /\ DOMAIN journal' = DOMAIN journal \ gone
          /\ \A i \in DOMAIN journal' : journal'[i] = journal[i]
      <3>1. gone \subseteq DOMAIN journal /\ \A i \in gone : journal[i].published
        BY <2>3, <2>4
      <3>2. \A i \in Ids : i \in DOMAIN journal' <=> i \in DOMAIN journal \ gone
        BY <2>2, <2>3, <2>4
      <3>3. DOMAIN journal' \subseteq Ids
        BY <2>2, <2>3
      <3>4. DOMAIN journal' = DOMAIN journal \ gone
        BY <2>3, <3>2, <3>3
      <3>5. \A i \in DOMAIN journal' : journal'[i] = journal[i]
        BY <2>2, <2>3, <2>4, <3>3, <3>4
      <3> QED
        BY <3>1, <3>4, <3>5
    <2>6. /\ DOMAIN Owed = {j \in DOMAIN journal : ~journal[j].published}
          /\ \A i \in DOMAIN Owed : Owed[i] = DOMAIN journal[i].to
          /\ Owed = [i \in DOMAIN Owed |-> Owed[i]]
          /\ Settled = {j \in DOMAIN journal : journal[j].published}
      BY <1>1, OwedIs DEF ReadOff
    <2>7. /\ DOMAIN Owed' = {j \in DOMAIN journal' : ~journal'[j].published}
          /\ \A i \in DOMAIN Owed' : Owed'[i] = DOMAIN journal'[i].to
          /\ Owed' = [i \in DOMAIN Owed' |-> Owed'[i]]
          /\ Settled' = {j \in DOMAIN journal' : journal'[j].published}
      BY <1>1, OwedIsNext DEF ReadOff
    <2>8. gone \subseteq Settled /\ Settled' = Settled \ gone
      BY <2>5, <2>6, <2>7
    <2>9. DOMAIN Owed' = DOMAIN Owed /\ \A i \in DOMAIN Owed' : Owed'[i] = Owed[i]
      BY <2>5, <2>6, <2>7
    <2>10. Owed' = Owed
      BY <2>6, <2>7, <2>9
    <2>11. Channel!Forget(gone)
      BY <1>1, <2>8, <2>10 DEF Channel!Forget, Owed, Settled
    <2> QED
      BY <2>8, <2>11
  <1> QED
    BY <1>2, <1>3

\* Every step is a step of the channel, or none.
LEMMA ChannelStep ==
    ASSUME FInv, FInv', [Next]_vars, whole'
    PROVE  [Channel!ChannelNext]_(Channel!channel)
  <1>0. UNCHANGED <<Owed, Settled, copies>> => UNCHANGED Channel!channel
    BY DEF Channel!channel, Owed, Settled
  <1>1. UNCHANGED <<file, copies>> => UNCHANGED Channel!channel
    BY <1>0, Unseen DEF file
  <1>2. Busy => op.rec.id \in Ids /\ DOMAIN op.rec.to \in SUBSET Subscribers
    BY BusyFields, RecordFields
  <1>3. CASE JournalFirst
    <2>1. Busy
      BY <1>3, BusyOr DEF FInv, IInv, JournalFirst
    <2> QED
      <3>1. PICK i \in Ids, to \in SUBSET Subscribers :
               i = op.rec.id /\ to = DOMAIN op.rec.to
        BY <1>2, <2>1
      <3>2. Channel!Accept(i, to)
        BY <1>3, <3>1, JournalFirstAccepts DEF Channel!Accept
      <3> QED
        BY <3>2 DEF Channel!ChannelNext
  <1>4. ASSUME NEW s \in Subscribers, Publish(s)
        PROVE  [Channel!ChannelNext]_(Channel!channel)
    <2>1. Busy
      BY <1>4, BusyOr DEF FInv, IInv, Publish
    <2> QED
      BY <1>2, <1>4, <2>1, PublishHandsOver DEF Channel!ChannelNext
  <1>5. CASE Conclude
    <2>1. Busy
      BY <1>5, BusyOr DEF FInv, IInv, Conclude, AllTried
    <2> QED
      <3>1. CASE UNCHANGED <<Owed, Settled, copies>>
        BY <1>0, <3>1
      <3>2. PICK i \in Ids : i = op.rec.id
        BY <1>2, <2>1
      <3>3. Channel!Settle(i) => Channel!ChannelNext
        BY DEF Channel!ChannelNext
      <3> QED
        BY <1>5, <3>1, <3>2, <3>3, ConcludeSettles DEF Channel!Settle
  <1>6. CASE Prune
    <2>1. CASE UNCHANGED <<Owed, Settled, copies>>
      BY <1>0, <2>1
    <2>2. ASSUME NEW gone \in SUBSET Settled, Channel!Forget(gone)
          PROVE  Channel!ChannelNext
      BY <2>2 DEF Channel!ChannelNext, Settled
    <2> QED
      BY <1>6, <2>1, <2>2, PruneForgets
  <1>7. CASE Killed
    BY <1>1, <1>7 DEF Killed, bus
  <1>8. ASSUME NEW cut \in Cuts, AppendFails(cut)
        PROVE  UNCHANGED Channel!channel
    BY <1>0, <1>8, NoCut, Unseen DEF FInv, IInv
  <1>9. ASSUME NEW s \in Subscribers, PublishFails(s) \/ Wake(s)
        PROVE  UNCHANGED Channel!channel
    BY <1>1, <1>9 DEF PublishFails, Wake, bus
  <1>10. CASE Emit \/ Recover
    BY <1>1, <1>10 DEF Emit, EmitNew, EmitResumed, Recover, Redrive, bus
  <1>11. CASE Interests \/ Tick \/ UNCHANGED vars
    BY <1>1, <1>11 DEF Interests, Subscribe, Unsubscribe, Tick, vars, bus
  <1> QED
    BY <1>3, <1>4, <1>5, <1>6, <1>7, <1>8, <1>9, <1>10, <1>11
       DEF Next, Delivery, Faults

LEMMA NothingOwedFirst == ASSUME Init PROVE Channel!ChannelInit
  <1>1. DOMAIN journal = {} /\ DOMAIN tail = {}
    BY NoLineIsFold DEF Init
  <1>2. OnFile = {} /\ {j \in OnFile : ~Load[j].published} = {}
        /\ {j \in OnFile : Load[j].published} = {}
    BY <1>1 DEF OnFile
  <1>3. copies = [i \in Ids |-> [s \in Subscribers |-> 0]]
    BY DEF Init
  <1> QED
    BY <1>2, <1>3 DEF Channel!ChannelInit, Channel!NothingOwed

\* Until an append is first cut inside its line, a debt is taken on once, kept
\* with its recipients through every kill and failure, settled only when all of
\* them are served, and only settled events are pruned (Emit, deliver, Recover,
\* prune).
THEOREM OutboxImplementsChannel == Spec => OutboxIsAChannel
  <1>1. Init => WInv /\ Channel!ChannelInit
    BY InvInit, FollowedInit, NothingOwedFirst DEF WInv
  <1>2. WInv /\ [Next]_vars => WInv'
    BY WholeNext
  <1>3. WInv /\ WInv' /\ [Next]_vars
        => [whole' => Channel!ChannelNext]_(Channel!channel)
    <2> SUFFICES ASSUME WInv, WInv', [Next]_vars, whole'
                 PROVE  [Channel!ChannelNext]_(Channel!channel)
      OBVIOUS
    <2>1. Typed
      BY DEF WInv, IInv
    <2>2. FInv /\ FInv'
      BY <2>1, WholeBefore DEF WInv, FInv
    <2> QED
      BY <2>2, ChannelStep
  <1> QED
    BY <1>1, <1>2, <1>3, PTL DEF Spec, OutboxIsAChannel

\* Where an append that fails leaves nothing on file, that is for good.
THEOREM OutboxStaysAChannel ==
    Cuts \subseteq {"nothing"} /\ Spec => Channel!ChannelSpec
  <1> SUFFICES ASSUME Cuts \subseteq {"nothing"}
               PROVE  Spec => Channel!ChannelSpec
    OBVIOUS
  <1>1. Init => IInv /\ whole
    BY InvInit DEF Init
  <1>2. IInv /\ whole /\ [Next]_vars => (IInv /\ whole)'
    <2> SUFFICES ASSUME IInv, whole, [Next]_vars PROVE whole'
      BY InvNext
    <2>1. whole = TRUE /\ ~torn
      BY DEF IInv, Typed, WholeOK
    <2>2. UNCHANGED file => whole'
      BY DEF file
    <2>3. ASSUME NEW cut \in Cuts, AppendFails(cut) PROVE whole'
      <3>1. PICK rec : AppendCut(rec, cut)
        BY <2>3 DEF AppendFails
      <3>2. cut = "nothing"
        OBVIOUS
      <3>3. torn' = torn /\ whole' = (whole /\ ~torn')
        BY <3>1, <3>2 DEF AppendCut
      <3> QED
        BY <2>1, <3>3
    <2>4. CASE JournalFirst \/ Conclude \/ Prune
      BY <2>2, <2>4 DEF JournalFirst, Conclude, Prune, AppendRecord, Rewrite
    <2>5. CASE Emit \/ Recover
      BY <2>2, <2>5 DEF Emit, EmitNew, EmitResumed, Recover, Redrive
    <2>6. CASE \E s \in Subscribers : Publish(s) \/ PublishFails(s) \/ Wake(s)
      BY <2>2, <2>6 DEF Publish, PublishFails, Wake
    <2>7. CASE Killed \/ Interests \/ Tick \/ UNCHANGED vars
      BY <2>2, <2>7 DEF Killed, Interests, Subscribe, Unsubscribe, Tick, vars
    <2> QED
      BY <2>3, <2>4, <2>5, <2>6, <2>7 DEF Next, Delivery, Faults
  <1>3. whole' /\ [whole' => Channel!ChannelNext]_(Channel!channel)
        => [Channel!ChannelNext]_(Channel!channel)
    OBVIOUS
  <1> QED
    BY <1>1, <1>2, <1>3, OutboxImplementsChannel, PTL
       DEF Spec, OutboxIsAChannel, Channel!ChannelSpec
=============================================================================
