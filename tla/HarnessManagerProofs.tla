------------------------ MODULE HarnessManagerProofs ------------------------
(***************************************************************************)
(* What holds of the jobs of one harness root for any number of callers,   *)
(* jobs, requests and chunks of input, with crashes at any step: the       *)
(* command of a job is started at most once, it reads its input in         *)
(* sequence, what is acknowledged was read, a stop is a barrier, and the   *)
(* outcome on file is final.                                               *)
(*                                                                         *)
(* None of these is inductive.  They rest on three orders of the code.     *)
(* Before a job is attached its directory is made and its record written,  *)
(* all with m.mu held (Reserved, Admitting, StartedHasDir): nothing starts *)
(* or attaches a job twice.  The record in memory follows the goroutine of *)
(* the job, and the record on disk is never ahead of it (OnRecord): a      *)
(* terminal outcome is read only of a job that is over.  And inputMu is    *)
(* held from the check of a chunk to its record (Locks, Feeding, InOrder): *)
(* the recorded input is what the command has read, less the one chunk of  *)
(* the writer that is about to record it.                                  *)
(***************************************************************************)
EXTENDS HarnessManager, SequenceTheorems, TLAPS

Sections == {"idle", "reserve", "wait", "report", "load", "check", "input",
             "pipe", "record"}
Stops == {"signal", "cancel"}
Outcomes == Terminal \cup {"running", "ambiguous"}

\* A call has the fields of Call, whatever they hold.
IsCall(r) ==
    \E pc, op, j, arg, seen, said :
        r = [pc |-> pc, op |-> op, job |-> j, arg |-> arg, seen |-> seen,
             said |-> said]

\* Every call is in shape and about a job.
CallsOK ==
    /\ calls = [c \in Clients |-> calls[c]]
    /\ \A c \in Clients :
          \/ calls[c] = NoCall
          \/ IsCall(calls[c]) /\ calls[c].job \in Jobs /\ calls[c].pc \in Sections

\* The types of the state of the jobs.
StateOK ==
    /\ attached = {j \in Jobs : run[j] \in {"await", "settle"}}
    /\ live \in [Jobs -> Records \cup {NoRecord}]
    /\ disk \in [Jobs -> Records \cup {NoRecord}]
    /\ dirs \subseteq Jobs /\ closed \subseteq Jobs
    /\ ctx \in [Jobs -> {"open", "cancelled", "deadline"}]
    /\ session \in [Jobs -> {"none", "running", "abandoned", "ended"}]
    /\ run \in [Jobs -> {"none", "await", "settle", "close", "end"}]
    /\ starts \in [Jobs -> Nat]
    /\ fed \in [Jobs -> Seq(Chunks)]

\* m.mu is held from a reservation to the start and while WriteStdin waits for
\* the input mutex; that one from the check of a chunk to its record.
Locks ==
    /\ mu \in Clients \cup {Free}
    /\ inputMu \in [Jobs -> Clients \cup {Free}]
    /\ \A c \in Clients :
          /\ mu = c <=> At(c, "reserve") \/ At(c, "input")
          /\ \A j \in Jobs :
                inputMu[j] = c <=> /\ At(c, "pipe") \/ At(c, "record")
                                   /\ calls[c].job = j

\* An admission under way has made the directory of its job.
Reserved == \A c \in Clients : At(c, "reserve") => calls[c].job \in dirs

\* Nothing starts without a directory, which nothing removes.
StartedHasDir == \A j \in Jobs : j \notin dirs => starts[j] = 0

\* The goroutine of the job is over, or the job is on file and was left behind
\* by a process that is gone: it is not attached, and never will be.
Over(j) ==
    \/ run[j] \in {"close", "end"}
    \/ run[j] = "none" /\ disk[j] # NoRecord

\* The command has read a chunk that is not yet on record.
Unrecorded(j) == \E c \in Clients : At(c, "record") /\ calls[c].job = j

\* What an admission is about to attach was never started nor recorded.
Admitting(r) ==
    r.pc = "reserve" =>
        /\ r.op \in {"execute", "start"} /\ r.arg \in Intents
        /\ run[r.job] = "none" /\ disk[r.job] = NoRecord /\ starts[r.job] = 0

\* A chunk at the pipe is the next one; a chunk that was read is the last one.
Feeding(r) ==
    /\ r.pc \in {"input", "pipe", "record"} =>
          r.arg \in Chunks /\ run[r.job] # "none"
    /\ r.pc = "pipe" => r.arg.seq = Len(live[r.job].inputs) + 1
    /\ r.pc = "record" =>
          /\ Len(fed[r.job]) = Len(live[r.job].inputs) + 1
          /\ fed[r.job][Len(fed[r.job])] = r.arg

\* What a call waits for and what it is going to report.
Reading(r) ==
    /\ r.pc = "wait" => r.seen = Pointer /\ run[r.job] # "none"
    /\ r.pc = "check" => r.op = "poll" /\ r.seen \in Records
    /\ r.pc = "report" =>
          \/ /\ r.seen = Pointer /\ run[r.job] # "none"
             /\ r.op \in Stops => run[r.job] = "end"
          \/ /\ r.seen # Pointer /\ r.seen.outcome \in Outcomes
             /\ r.op \in Stops /\ r.seen.outcome \in Terminal => Over(r.job)

\* What a call has answered still holds.
Answered(r) ==
    /\ r.said \in Terminal /\ r.op \in Stops => Over(r.job)
    /\ r.said = "accepted" =>
          \E n \in DOMAIN fed[r.job] : fed[r.job][n] = r.arg

CallInv(r) == Admitting(r) /\ Feeding(r) /\ Reading(r) /\ Answered(r)

\* The record in memory follows the goroutine, and the one on disk follows it.
OnRecord(j) ==
    /\ run[j] = "none" <=> live[j] = NoRecord
    /\ run[j] \in {"await", "settle"} => live[j].outcome = "running"
    /\ run[j] \in {"close", "end"} => live[j].outcome \in Terminal
    /\ run[j] # "none" => disk[j] # NoRecord /\ starts[j] # 0
    /\ disk[j].outcome \in Terminal =>
          /\ run[j] \in {"none", "close", "end"}
          /\ run[j] # "none" => live[j].outcome = disk[j].outcome

\* The input on record is what the command has read.
InOrder(j) ==
    /\ \A n \in DOMAIN fed[j] : fed[j][n].seq = n
    /\ starts[j] = 0 => fed[j] = <<>>
    /\ run[j] # "none" =>
          /\ \A n \in DOMAIN live[j].inputs :
                n \in DOMAIN fed[j] /\ fed[j][n].digest = live[j].inputs[n]
          /\ ~Unrecorded(j) => Len(fed[j]) = Len(live[j].inputs)

IInv ==
    /\ StateOK
    /\ CallsOK
    /\ Locks
    /\ Reserved /\ StartedHasDir /\ AtMostOnce
    /\ \A c \in Clients : CallInv(calls[c])
    /\ \A j \in Jobs : OnRecord(j) /\ InOrder(j)

(***************************************************************************)
(* Records.                                                                *)
(***************************************************************************)
\* What a record holds, and that it is neither absent nor a pointer.
LEMMA RecordFacts ==
    ASSUME NEW rec \in Records
    PROVE  /\ rec # NoRecord /\ rec # Pointer
           /\ rec.outcome \in Terminal \cup {"running"}
           /\ rec.inputs \in Seq(Digests)
  BY DEF Records, NoRecord, Pointer, Terminal

\* The absence of a record has no terminal outcome.
LEMMA NoRecordFacts ==
    /\ NoRecord # Pointer
    /\ NoRecord.outcome \notin Terminal /\ NoRecord.outcome # "running"
  BY DEF NoRecord, Pointer, Terminal

\* The record of a job that was admitted.
LEMMA NewRecordFacts ==
    ASSUME NEW i \in Intents
    PROVE  /\ NewRecord(i) \in Records
           /\ NewRecord(i).outcome = "running" /\ NewRecord(i).inputs = <<>>
  BY DEF NewRecord, Records

\* The record of a job that is settled.
SettledAs(rec, outcome) == [rec EXCEPT !.outcome = outcome]
LEMMA SettledFacts ==
    ASSUME NEW rec \in Records, NEW o \in Terminal
    PROVE  /\ SettledAs(rec, o) \in Records
           /\ SettledAs(rec, o).outcome = o /\ SettledAs(rec, o).inputs = rec.inputs
  BY DEF SettledAs, Records

\* The record of a job that was given a chunk of input.
WithInput(rec, digest) == [rec EXCEPT !.inputs = Append(@, digest)]
LEMMA WithInputFacts ==
    ASSUME NEW rec \in Records, NEW d \in Digests
    PROVE  /\ WithInput(rec, d) \in Records
           /\ WithInput(rec, d).outcome = rec.outcome
           /\ WithInput(rec, d).inputs = Append(rec.inputs, d)
<1>1. Append(rec.inputs, d) \in Seq(Digests)
  BY RecordFacts
<1>. QED BY <1>1 DEF WithInput, Records

(***************************************************************************)
(* Calls: what Begin, Goto, Answer and Reply put in the place of a call.   *)
(***************************************************************************)
\* The same operation of the same job with the same argument.
SameCall(s, r) == s.op = r.op /\ s.job = r.job /\ s.arg = r.arg

\* A call that begins.
LEMMA CallShape ==
    ASSUME NEW op, NEW j, NEW arg, NEW pc, NEW seen
    PROVE  /\ IsCall(Call(op, j, arg, pc, seen))
           /\ Call(op, j, arg, pc, seen).pc = pc
           /\ Call(op, j, arg, pc, seen).op = op
           /\ Call(op, j, arg, pc, seen).job = j
           /\ Call(op, j, arg, pc, seen).arg = arg
           /\ Call(op, j, arg, pc, seen).seen = seen
           /\ Call(op, j, arg, pc, seen).said = "nothing"
<1>1. IsCall(Call(op, j, arg, pc, seen))
  BY DEF IsCall, Call
<1>. QED BY <1>1 DEF Call

\* A call that is answered as it begins.
Refused(op, j, arg, said) ==
    [Call(op, j, arg, "idle", NoRecord) EXCEPT !.said = said]
LEMMA RefusedShape ==
    ASSUME NEW op, NEW j, NEW arg, NEW said
    PROVE  /\ IsCall(Refused(op, j, arg, said))
           /\ Refused(op, j, arg, said).pc = "idle"
           /\ Refused(op, j, arg, said).op = op
           /\ Refused(op, j, arg, said).job = j
           /\ Refused(op, j, arg, said).said = said
<1>1. Refused(op, j, arg, said)
        = [pc |-> "idle", op |-> op, job |-> j, arg |-> arg, seen |-> NoRecord,
           said |-> said]
  BY DEF Refused, Call
<1>2. IsCall(Refused(op, j, arg, said))
  BY <1>1 DEF IsCall
<1>. QED BY <1>1, <1>2

\* A call that goes on to another section.
Went(r, pc) == [r EXCEPT !.pc = pc]
LEMMA WentShape ==
    ASSUME NEW r, IsCall(r), NEW pc
    PROVE  /\ IsCall(Went(r, pc)) /\ SameCall(Went(r, pc), r)
           /\ Went(r, pc).pc = pc /\ Went(r, pc).seen = r.seen
           /\ Went(r, pc).said = r.said
<1>1. PICK p, op, j, arg, sn, sd :
      r = [pc |-> p, op |-> op, job |-> j, arg |-> arg, seen |-> sn,
           said |-> sd]
  BY DEF IsCall
<1>2. Went(r, pc)
        = [pc |-> pc, op |-> op, job |-> j, arg |-> arg, seen |-> sn,
           said |-> sd]
  BY <1>1 DEF Went
<1>3. IsCall(Went(r, pc))
  BY <1>2 DEF IsCall
<1>. QED BY <1>1, <1>2, <1>3 DEF SameCall

\* A call that has read a record.
Saw(r, seen) == [r EXCEPT !.seen = seen]
LEMMA SawShape ==
    ASSUME NEW r, IsCall(r), NEW seen
    PROVE  /\ IsCall(Saw(r, seen)) /\ SameCall(Saw(r, seen), r)
           /\ Saw(r, seen).pc = r.pc /\ Saw(r, seen).seen = seen
           /\ Saw(r, seen).said = r.said
<1>1. PICK p, op, j, arg, sn, sd :
      r = [pc |-> p, op |-> op, job |-> j, arg |-> arg, seen |-> sn,
           said |-> sd]
  BY DEF IsCall
<1>2. Saw(r, seen)
        = [pc |-> p, op |-> op, job |-> j, arg |-> arg, seen |-> seen,
           said |-> sd]
  BY <1>1 DEF Saw
<1>3. IsCall(Saw(r, seen))
  BY <1>2 DEF IsCall
<1>. QED BY <1>1, <1>2, <1>3 DEF SameCall

\* A call that has its answer.
Ended(r, said) == [r EXCEPT !.pc = "idle", !.seen = NoRecord, !.said = said]
LEMMA EndedShape ==
    ASSUME NEW r, IsCall(r), NEW said
    PROVE  /\ IsCall(Ended(r, said)) /\ SameCall(Ended(r, said), r)
           /\ Ended(r, said).pc = "idle" /\ Ended(r, said).said = said
<1>1. PICK p, op, j, arg, sn, sd :
      r = [pc |-> p, op |-> op, job |-> j, arg |-> arg, seen |-> sn,
           said |-> sd]
  BY DEF IsCall
<1>2. Went(r, "idle")
        = [pc |-> "idle", op |-> op, job |-> j, arg |-> arg, seen |-> sn,
           said |-> sd]
  BY <1>1 DEF Went
<1>3. Saw(Went(r, "idle"), NoRecord)
        = [pc |-> "idle", op |-> op, job |-> j, arg |-> arg, seen |-> NoRecord,
           said |-> sd]
  BY <1>2 DEF Saw
<1>4. Ended(r, said) = [Saw(Went(r, "idle"), NoRecord) EXCEPT !.said = said]
  BY DEF Ended, Saw, Went
<1>5. Ended(r, said)
        = [pc |-> "idle", op |-> op, job |-> j, arg |-> arg, seen |-> NoRecord,
           said |-> said]
  BY <1>3, <1>4
<1>6. IsCall(Ended(r, said))
  BY <1>5 DEF IsCall
<1>. QED BY <1>1, <1>5, <1>6 DEF SameCall

\* A client whose call is under way has one, of the shape and about a job.
LEMMA UnderWay ==
    ASSUME CallsOK, NEW c \in Clients, NEW pc, At(c, pc), pc # "idle"
    PROVE  /\ IsCall(calls[c]) /\ calls[c].job \in Jobs /\ calls[c].pc = pc
           /\ pc \in Sections
  BY DEF CallsOK, NoCall, At

(***************************************************************************)
(* What a step leaves alone.                                               *)
(***************************************************************************)
\* The mutexes, when the call of one client becomes another one: each is kept,
\* taken while it is free, or given up by its holder.
LEMMA LockStep ==
    ASSUME Locks, CallsOK, NEW c \in Clients, NEW r,
           calls' = [calls EXCEPT ![c] = r],
           \/ /\ mu' = mu
              /\ calls[c].pc \in {"reserve", "input"} <=> r.pc \in {"reserve", "input"}
           \/ mu = Free /\ mu' = c /\ r.pc \in {"reserve", "input"}
           \/ /\ calls[c].pc \in {"reserve", "input"} /\ mu' = Free
              /\ r.pc \notin {"reserve", "input"},
           \/ /\ UNCHANGED inputMu
              /\ calls[c].pc \notin {"pipe", "record"}
              /\ r.pc \notin {"pipe", "record"}
           \/ /\ UNCHANGED inputMu /\ r.job = calls[c].job
              /\ calls[c].pc \in {"pipe", "record"} /\ r.pc \in {"pipe", "record"}
           \/ /\ r.job \in Jobs /\ inputMu[r.job] = Free
              /\ inputMu' = [inputMu EXCEPT ![r.job] = c]
              /\ calls[c].pc \notin {"pipe", "record"}
              /\ r.pc \in {"pipe", "record"}
           \/ /\ calls[c].job \in Jobs
              /\ inputMu' = [inputMu EXCEPT ![calls[c].job] = Free]
              /\ calls[c].pc \in {"pipe", "record"}
              /\ r.pc \notin {"pipe", "record"}
    PROVE  Locks'
<1>1. /\ calls'[c] = r
      /\ \A d \in Clients \ {c} : calls'[d] = calls[d]
  BY DEF CallsOK
<1>2. mu' \in Clients \cup {Free}
  BY DEF Locks
<1>3. inputMu' \in [Jobs -> Clients \cup {Free}]
  BY DEF Locks
<1>4. ASSUME NEW d \in Clients
      PROVE  (mu = d <=> At(d, "reserve") \/ At(d, "input"))'
  BY <1>1, HarnessConstants DEF Locks, At
<1>5. ASSUME NEW d \in Clients, NEW j \in Jobs
      PROVE  (inputMu[j] = d <=> /\ At(d, "pipe") \/ At(d, "record")
                                 /\ calls[d].job = j)'
  BY <1>1, HarnessConstants DEF Locks, At
<1>. QED BY <1>2, <1>3, <1>4, <1>5 DEF Locks

\* A call goes from one section to another, other than those about input that
\* was read, and leaves the jobs alone.
LEMMA TurnStep ==
    ASSUME IInv, NEW c \in Clients, NEW r,
           calls' = [calls EXCEPT ![c] = r],
           IsCall(r), r.job \in Jobs, r.pc \in Sections \ {"record"},
           calls[c].pc # "record",
           CallInv(r),
           Locks',
           dirs \subseteq dirs', dirs' \subseteq Jobs,
           r.pc = "reserve" => r.job \in dirs',
           closed' \subseteq Jobs,
           ctx' \in [Jobs -> {"open", "cancelled", "deadline"}],
           UNCHANGED <<attached, live, disk, session, run, starts, fed>>
    PROVE  IInv'
<1>. USE DEF IInv
<1>1. /\ calls'[c] = r
      /\ \A d \in Clients \ {c} : calls'[d] = calls[d]
      /\ calls' = [d \in Clients |-> calls'[d]]
  BY DEF CallsOK
<1>2. CallsOK'
  BY <1>1 DEF CallsOK
<1>3. StateOK'
  BY DEF StateOK
<1>4. Reserved' /\ StartedHasDir' /\ AtMostOnce'
  BY <1>1 DEF Reserved, StartedHasDir, AtMostOnce, At
<1>5. ASSUME NEW d \in Clients PROVE CallInv(calls[d])'
  <2>1. calls'[d] = r \/ calls'[d] = calls[d]
    BY <1>1
  <2>2. CallInv(calls[d]) /\ CallInv(r)
    OBVIOUS
  <2>3. Admitting(calls[d])'
    BY <2>1, <2>2 DEF CallInv, Admitting
  <2>4. Feeding(calls[d])'
    BY <2>1, <2>2 DEF CallInv, Feeding
  <2>5. Reading(calls[d])'
    BY <2>1, <2>2 DEF CallInv, Reading, Over
  <2>6. Answered(calls[d])'
    BY <2>1, <2>2 DEF CallInv, Answered, Over
  <2>. QED BY <2>3, <2>4, <2>5, <2>6 DEF CallInv
<1>6. ASSUME NEW j \in Jobs PROVE (OnRecord(j) /\ InOrder(j))'
  <2>1. Unrecorded(j)' <=> Unrecorded(j)
    BY <1>1 DEF Unrecorded, At
  <2>2. OnRecord(j) /\ InOrder(j)
    OBVIOUS
  <2>. QED BY <2>1, <2>2 DEF OnRecord, InOrder
<1>. QED BY <1>2, <1>3, <1>4, <1>5, <1>6

\* A job goes from one state to another that it can come to, on which no call
\* relies to be otherwise, and its input is left alone.
LEMMA JobStep ==
    ASSUME IInv, NEW j \in Jobs, StateOK', UNCHANGED <<calls, mu, inputMu>>,
           dirs' = dirs, starts' = starts, fed' = fed,
           \A k \in Jobs \ {j} : /\ run'[k] = run[k] /\ live'[k] = live[k]
                                 /\ disk'[k] = disk[k]
                                 /\ OnRecord(k)',
           run[j] # "none" => run'[j] # "none" /\ live'[j].inputs = live[j].inputs,
           run[j] = "none" => run'[j] = "none" /\ disk'[j] = disk[j],
           run[j] = "end" => run'[j] = "end",
           run[j] = "close" => run'[j] \in {"close", "end"},
           OnRecord(j)'
    PROVE  IInv'
<1>. USE DEF IInv
<1>1. CallsOK' /\ Locks' /\ Reserved' /\ StartedHasDir' /\ AtMostOnce'
  BY DEF CallsOK, Locks, Reserved, StartedHasDir, AtMostOnce, At
<1>2. \A k \in Jobs : Over(k) => Over(k)'
  BY DEF Over
<1>3. ASSUME NEW c \in Clients PROVE CallInv(calls[c])'
  <2>1. CallInv(calls[c])
    OBVIOUS
  <2>2. calls[c] = NoCall \/ calls[c].job \in Jobs
    BY DEF CallsOK
  <2>3. Admitting(calls[c])'
    BY <2>1, <2>2 DEF CallInv, Admitting, NoCall
  <2>4. Feeding(calls[c])'
    <3>1. CASE calls[c].pc \in {"input", "pipe", "record"}
      <4>. DEFINE k == calls[c].job
      <4>1. k \in Jobs /\ run[k] # "none" /\ Feeding(calls[c])
        BY <2>1, <2>2, <3>1 DEF CallInv, Feeding, NoCall
      <4>2. run'[k] # "none" /\ live'[k].inputs = live[k].inputs
        BY <4>1
      <4>. QED BY <4>1, <4>2 DEF Feeding
    <3>2. CASE calls[c].pc \notin {"input", "pipe", "record"}
      BY <3>2 DEF Feeding
    <3>. QED BY <3>1, <3>2
  <2>5. Reading(calls[c])'
    BY <1>2, <2>1, <2>2 DEF CallInv, Reading, NoCall
  <2>6. Answered(calls[c])'
    BY <1>2, <2>1, <2>2 DEF CallInv, Answered, NoCall, Terminal
  <2>. QED BY <2>3, <2>4, <2>5, <2>6 DEF CallInv
<1>4. ASSUME NEW k \in Jobs PROVE InOrder(k)'
  <2>1. Unrecorded(k)' <=> Unrecorded(k)
    BY DEF Unrecorded, At
  <2>2. InOrder(k) /\ OnRecord(k)
    OBVIOUS
  <2>. QED BY <2>1, <2>2 DEF InOrder
<1>. QED BY <1>1, <1>3, <1>4

(***************************************************************************)
(* The steps, one lemma for each operation.                                *)
(***************************************************************************)
\* No call, no job, no record.
LEMMA InitOK == Init => IInv
<1>. SUFFICES ASSUME Init PROVE IInv
  OBVIOUS
<1>. USE DEF Init
<1>1. StateOK
  BY DEF StateOK
<1>2. CallsOK /\ Reserved /\ StartedHasDir /\ AtMostOnce
  BY DEF CallsOK, Reserved, StartedHasDir, AtMostOnce, NoCall, At
<1>3. Locks
  BY HarnessConstants DEF Locks, NoCall, At
<1>4. \A c \in Clients : CallInv(calls[c])
  BY DEF CallInv, Admitting, Feeding, Reading, Answered, NoCall, Terminal
<1>5. \A j \in Jobs : OnRecord(j) /\ InOrder(j)
  BY NoRecordFacts DEF OnRecord, InOrder
<1>. QED BY <1>1, <1>2, <1>3, <1>4, <1>5 DEF IInv

\* A call that is refused as it begins.
LEMMA RefusedKeeps ==
    ASSUME IInv, NEW c \in Clients, Idle(c), NEW op, NEW j \in Jobs, NEW arg,
           NEW said \in {"bindingMismatch", "unavailable"},
           Reply(c, op, j, arg, said),
           UNCHANGED <<memory, files, locks, history>>
    PROVE  IInv'
<1>. DEFINE r == Refused(op, j, arg, said)
<1>1. /\ IsCall(r) /\ r.pc = "idle" /\ r.job = j /\ r.said = said
  BY RefusedShape
<1>2. calls' = [calls EXCEPT ![c] = r]
  BY DEF Reply, Begin, Refused
<1>. HIDE DEF r
<1>3. CallInv(r)
  BY <1>1 DEF CallInv, Admitting, Feeding, Reading, Answered, Terminal
<1>4. calls[c].pc = "idle"
  BY DEF Idle
<1>5. Locks'
  BY <1>1, <1>2, <1>4, LockStep DEF IInv, locks
<1>. QED BY <1>1, <1>2, <1>3, <1>4, <1>5, TurnStep
         DEF IInv, StateOK, Sections, memory, files, history

\* A call that begins in a section that holds no mutex.
LEMMA BegunKeeps ==
    ASSUME IInv, NEW c \in Clients, Idle(c), NEW op, NEW j \in Jobs, NEW arg,
           NEW pc \in {"wait", "report", "check", "load"}, NEW seen,
           Begin(c, Call(op, j, arg, pc, seen)),
           Reading(Call(op, j, arg, pc, seen)),
           closed' \subseteq Jobs,
           ctx' \in [Jobs -> {"open", "cancelled", "deadline"}],
           UNCHANGED <<attached, live, session, run, files, locks, history>>
    PROVE  IInv'
<1>. DEFINE r == Call(op, j, arg, pc, seen)
<1>1. IsCall(r) /\ r.pc = pc /\ r.job = j /\ r.said = "nothing"
  BY CallShape
<1>2. calls' = [calls EXCEPT ![c] = r] /\ Reading(r)
  BY DEF Begin
<1>. HIDE DEF r
<1>3. CallInv(r)
  BY <1>1, <1>2 DEF CallInv, Admitting, Feeding, Answered, Terminal
<1>4. calls[c].pc = "idle"
  BY DEF Idle
<1>5. Locks'
  BY <1>1, <1>2, <1>4, LockStep DEF IInv, locks
<1>. QED BY <1>1, <1>2, <1>3, <1>4, <1>5, TurnStep
         DEF IInv, StateOK, Sections, files, history

\* What a call under way leads to when it is answered by something other than a
\* stop's report or an acceptance.
LEMMA EndedKeeps ==
    ASSUME IInv, NEW c \in Clients, NEW pc \in Sections \ {"idle", "record"},
           At(c, pc), NEW said, Answer(c, said),
           said \in Terminal /\ calls[c].op \in Stops => Over(calls[c].job),
           said = "accepted" =>
               \E n \in DOMAIN fed[calls[c].job] :
                   fed[calls[c].job][n] = calls[c].arg,
           IF pc \in {"reserve", "input"} THEN mu' = Free ELSE UNCHANGED mu,
           IF pc = "pipe"
           THEN inputMu' = [inputMu EXCEPT ![calls[c].job] = Free]
           ELSE UNCHANGED inputMu,
           UNCHANGED <<memory, files, history>>
    PROVE  IInv'
<1>. DEFINE r == Ended(calls[c], said)
<1>1. IsCall(calls[c]) /\ calls[c].job \in Jobs /\ calls[c].pc = pc
  BY UnderWay DEF IInv
<1>2. IsCall(r) /\ SameCall(r, calls[c]) /\ r.pc = "idle" /\ r.said = said
  BY <1>1, EndedShape
<1>3. calls' = [calls EXCEPT ![c] = r]
  BY DEF Answer, Ended
<1>. HIDE DEF r
<1>4. Answered(r)
  BY <1>2 DEF Answered, SameCall
<1>5. CallInv(r)
  BY <1>2, <1>4 DEF CallInv, Admitting, Feeding, Reading
<1>6. Locks'
  <2>1. CASE pc = "pipe"
    BY <1>1, <1>2, <1>3, <2>1, LockStep DEF IInv, SameCall
  <2>2. CASE pc \in {"reserve", "input"}
    BY <1>1, <1>2, <1>3, <2>2, LockStep DEF IInv
  <2>3. CASE pc \notin {"pipe", "reserve", "input"}
    BY <1>1, <1>2, <1>3, <2>3, LockStep DEF IInv
  <2>. QED BY <2>1, <2>2, <2>3
<1>. QED BY <1>1, <1>2, <1>3, <1>5, <1>6, TurnStep
         DEF IInv, StateOK, Sections, SameCall, memory, files, history

\* A call under way that goes on to read or to wait.
LEMMA WentKeeps ==
    ASSUME IInv, NEW c \in Clients, NEW pc \in {"wait", "load", "check"}, At(c, pc),
           NEW r, IsCall(r), SameCall(r, calls[c]), r.pc \in {"check", "report"},
           r.said = calls[c].said,
           calls' = [calls EXCEPT ![c] = r],
           Reading(r),
           UNCHANGED <<memory, files, locks, history>>
    PROVE  IInv'
<1>1. calls[c].job \in Jobs /\ calls[c].pc = pc
  BY UnderWay DEF IInv
<1>2. Answered(r)
  BY DEF IInv, CallInv, Answered, SameCall
<1>3. CallInv(r)
  BY <1>2 DEF CallInv, Admitting, Feeding
<1>4. Locks'
  BY <1>1, LockStep DEF IInv, locks
<1>. QED BY <1>1, <1>3, <1>4, TurnStep
         DEF IInv, StateOK, Sections, SameCall, memory, files, history

\* The record of an attached job says that it is running.
LEMMA AttachedFacts ==
    ASSUME IInv, NEW j \in attached
    PROVE  /\ j \in Jobs /\ run[j] \in {"await", "settle"}
           /\ live[j] \in Records /\ live[j].outcome = "running"
<1>1. j \in Jobs /\ run[j] \in {"await", "settle"}
  BY DEF IInv, StateOK
<1>2. OnRecord(j) /\ live[j] \in Records \cup {NoRecord}
  BY <1>1 DEF IInv, StateOK
<1>. QED BY <1>1, <1>2 DEF OnRecord

\* A record on disk is a record, and terminal only of a job that is over.
LEMMA DiskFacts ==
    ASSUME IInv, NEW j \in Jobs, disk[j] # NoRecord
    PROVE  /\ disk[j] \in Records /\ disk[j] # Pointer
           /\ disk[j].outcome \in Outcomes
           /\ disk[j].outcome \in Terminal => Over(j)
<1>1. disk[j] \in Records /\ OnRecord(j)
  BY DEF IInv, StateOK
<1>. QED BY <1>1, RecordFacts DEF OnRecord, Over, Outcomes

\* begin finds the job live or on disk.
LEMMA KnownKeeps ==
    ASSUME IInv, NEW c \in Clients, NEW op \in {"execute", "start"},
           NEW j \in Jobs, NEW i, BeginKnown(c, op, j, i)
    PROVE  IInv'
<1>. DEFINE record == IF j \in attached THEN live[j] ELSE disk[j]
            seen == IF j \in attached THEN Pointer ELSE record
<1>1. CASE record.intent # i
  <2>1. Reply(c, op, j, i, "bindingMismatch")
    BY <1>1 DEF BeginKnown
  <2>. QED BY <2>1, RefusedKeeps DEF BeginKnown
<1>2. CASE record.intent = i
  <2>1. Begin(c, Call(op, j, i, "report", seen))
    BY <1>2 DEF BeginKnown
  <2>2. \/ seen = Pointer /\ run[j] # "none"
        \/ seen # Pointer /\ seen.outcome \in Outcomes
    BY AttachedFacts, DiskFacts DEF BeginKnown
  <2>. HIDE DEF seen
  <2>3. Reading(Call(op, j, i, "report", seen))
    <3>. DEFINE r == Call(op, j, i, "report", seen)
    <3>1. r.pc = "report" /\ r.op = op /\ r.job = j /\ r.seen = seen
      BY CallShape
    <3>. HIDE DEF r
    <3>2. Reading(r)
      BY <2>2, <3>1 DEF Reading, Stops
    <3>. QED BY <3>2 DEF r
  <2>4. closed' \subseteq Jobs /\ ctx' \in [Jobs -> {"open", "cancelled", "deadline"}]
    BY DEF BeginKnown, memory, IInv, StateOK
  <2>. QED BY <2>1, <2>3, <2>4, BegunKeeps DEF BeginKnown, memory
<1>. QED BY <1>1, <1>2

\* A job without a directory was never started, and m.mu was free.
LEMMA ReserveKeeps ==
    ASSUME IInv, NEW c \in Clients, NEW op \in {"execute", "start"},
           NEW j \in Jobs, NEW i \in Intents, Reserve(c, op, j, i)
    PROVE  IInv'
<1>. DEFINE r == Call(op, j, i, "reserve", NoRecord)
<1>1. /\ IsCall(r) /\ r.pc = "reserve" /\ r.op = op /\ r.job = j /\ r.arg = i
      /\ r.said = "nothing"
  BY CallShape
<1>2. calls' = [calls EXCEPT ![c] = r]
  BY DEF Reserve, Begin
<1>. HIDE DEF r
<1>3. calls[c].pc = "idle" /\ mu = Free /\ mu' = c /\ UNCHANGED inputMu
  BY DEF Reserve, Idle
<1>4. disk[j] = NoRecord /\ starts[j] = 0 /\ run[j] = "none"
  <2>1. OnRecord(j)
    BY DEF IInv
  <2>. QED BY <2>1 DEF Reserve, Fresh, IInv, StartedHasDir, OnRecord
<1>5. CallInv(r)
  BY <1>1, <1>4 DEF CallInv, Admitting, Feeding, Reading, Answered, Terminal
<1>6. Locks'
  BY <1>1, <1>2, <1>3, LockStep DEF IInv
<1>7. dirs' = dirs \cup {j} /\ UNCHANGED <<memory, disk, history>>
  BY DEF Reserve
<1>. QED BY <1>1, <1>2, <1>3, <1>5, <1>6, <1>7, TurnStep
         DEF IInv, StateOK, Sections, memory, history

\* The directory is there without a record, or cannot be filled.
LEMMA UnreservedKeeps ==
    ASSUME IInv, NEW c \in Clients
    PROVE  /\ ReserveFails(c) => IInv'
           /\ \A op, i : \A j \in Jobs : ReserveRefused(c, op, j, i) => IInv'
<1>1. ASSUME ReserveFails(c) PROVE IInv'
  BY <1>1, EndedKeeps DEF ReserveFails, Sections, Terminal
<1>2. ASSUME NEW op, NEW i, NEW j \in Jobs, ReserveRefused(c, op, j, i)
      PROVE  IInv'
  BY <1>2, RefusedKeeps DEF ReserveRefused
<1>. QED BY <1>1, <1>2

\* Poll, Signal and Cancel.
LEMMA PollKeeps ==
    ASSUME IInv, NEW c \in Clients, NEW j \in Jobs, PollFind(c, j)
    PROVE  IInv'
<1>1. closed' \subseteq Jobs /\ ctx' \in [Jobs -> {"open", "cancelled", "deadline"}]
  BY DEF PollFind, memory, IInv, StateOK
<1>2. CASE j \in attached
  <2>1. Reading(Call("poll", j, j, "check", live[j]))
    BY <1>2, CallShape, AttachedFacts DEF Reading
  <2>. QED BY <1>1, <1>2, <2>1, BegunKeeps DEF PollFind, memory
<1>3. CASE j \notin attached
  <2>1. Reading(Call("poll", j, j, "load", NoRecord))
    BY CallShape DEF Reading
  <2>. QED BY <1>1, <1>3, <2>1, BegunKeeps DEF PollFind, memory
<1>. QED BY <1>2, <1>3

\* A stop of a job that is attached waits for its goroutine.
LEMMA StopKeeps ==
    ASSUME IInv, NEW c \in Clients, NEW op \in {"signal", "cancel"}, NEW j \in Jobs,
           Stop(c, op, j)
    PROVE  IInv'
<1>1. closed' \subseteq Jobs /\ ctx' \in [Jobs -> {"open", "cancelled", "deadline"}]
  BY DEF Stop, IInv, StateOK
<1>2. CASE j \in attached
  <2>1. Reading(Call(op, j, j, "wait", Pointer))
    BY <1>2, CallShape, AttachedFacts DEF Reading
  <2>. QED BY <1>1, <1>2, <2>1, BegunKeeps DEF Stop
<1>3. CASE j \notin attached
  <2>1. Reading(Call(op, j, j, "load", NoRecord))
    BY CallShape DEF Reading
  <2>. QED BY <1>1, <1>3, <2>1, BegunKeeps DEF Stop
<1>. QED BY <1>2, <1>3

\* The goroutine of the job is over before the wait is.
LEMMA WaitKeeps ==
    ASSUME IInv, NEW c \in Clients, Wait(c)
    PROVE  IInv'
<1>. DEFINE r == Went(calls[c], "report")
<1>1. IsCall(calls[c]) /\ calls[c].pc = "wait"
  BY UnderWay DEF Wait, IInv
<1>2. /\ IsCall(r) /\ SameCall(r, calls[c]) /\ r.pc = "report"
      /\ r.seen = calls[c].seen /\ r.said = calls[c].said
  BY <1>1, WentShape
<1>3. calls' = [calls EXCEPT ![c] = r]
  BY DEF Wait, Goto, Went
<1>. HIDE DEF r
<1>4. Reading(r)
  <2>1. Reading(calls[c]) /\ run[calls[c].job] = "end"
    BY DEF IInv, CallInv, Wait
  <2>. QED BY <1>1, <1>2, <2>1 DEF Reading, SameCall
<1>. QED BY <1>2, <1>3, <1>4, WentKeeps DEF Wait

\* The answer of every operation that looked at a job.
LEMMA ReportKeeps ==
    ASSUME IInv, NEW c \in Clients, Report(c)
    PROVE  IInv'
<1>. DEFINE j == calls[c].job
            seen == calls[c].seen
            record == IF seen = Pointer THEN live[j] ELSE seen
            said == IF calls[c].op = "cancel" /\ seen = Pointer
                    THEN "cancelled" ELSE record.outcome
<1>1. calls[c].job \in Jobs /\ calls[c].pc = "report"
  BY UnderWay DEF Report, IInv
<1>2. Answer(c, said)
  BY DEF Report
<1>3. Reading(calls[c]) /\ OnRecord(j) /\ live[j] \in Records \cup {NoRecord}
  BY <1>1 DEF IInv, CallInv, StateOK
<1>4. CASE seen = Pointer
  <2>1. /\ run[j] # "none" /\ live[j] \in Records
        /\ calls[c].op \in Stops => run[j] = "end"
    BY <1>1, <1>3, <1>4 DEF Reading, OnRecord
  <2>2. said \in Outcomes /\ (calls[c].op \in Stops => Over(j))
    BY <1>4, <2>1, RecordFacts DEF Outcomes, Over, Terminal
  <2>3. said # "accepted"
    BY <2>2 DEF Outcomes, Terminal
  <2>. HIDE DEF said
  <2>. QED BY <1>2, <2>2, <2>3, EndedKeeps DEF Report, Sections, locks
<1>5. CASE seen # Pointer
  <2>1. /\ said \in Outcomes
        /\ calls[c].op \in Stops /\ said \in Terminal => Over(j)
    BY <1>1, <1>3, <1>5 DEF Reading
  <2>2. said # "accepted"
    BY <2>1 DEF Outcomes, Terminal
  <2>. HIDE DEF said
  <2>. QED BY <1>2, <2>1, <2>2, EndedKeeps DEF Report, Sections, locks
<1>. QED BY <1>4, <1>5

\* A job that is not attached is looked up on disk.
LEMMA LoadKeeps ==
    ASSUME IInv, NEW c \in Clients, Load(c)
    PROVE  IInv'
<1>. DEFINE j == calls[c].job
            record == disk[j]
<1>1. IsCall(calls[c]) /\ j \in Jobs /\ calls[c].pc = "load"
  BY UnderWay DEF Load, IInv
<1>2. CASE record = NoRecord
  <2>1. Answer(c, "jobNotFound")
    BY <1>2 DEF Load
  <2>. QED BY <2>1, EndedKeeps DEF Load, Sections, Terminal, locks
<1>3. CASE record # NoRecord
  <2>. DEFINE pc == IF calls[c].op = "poll" THEN "check" ELSE "report"
              r == Went(Saw(calls[c], record), pc)
  <2>1. calls' = [calls EXCEPT ![c] = r]
    BY <1>3 DEF Load, Went, Saw
  <2>2. /\ IsCall(Saw(calls[c], record)) /\ SameCall(Saw(calls[c], record), calls[c])
        /\ Saw(calls[c], record).seen = record
        /\ Saw(calls[c], record).said = calls[c].said
    BY <1>1, SawShape
  <2>3. /\ IsCall(r) /\ SameCall(r, calls[c]) /\ r.pc = pc /\ r.seen = record
        /\ r.said = calls[c].said
    BY <2>2, WentShape DEF SameCall
  <2>4. /\ record \in Records /\ record # Pointer /\ record.outcome \in Outcomes
        /\ record.outcome \in Terminal => Over(j)
    BY <1>1, <1>3, DiskFacts
  <2>. HIDE DEF r, record
  <2>5. Reading(r)
    BY <2>3, <2>4 DEF Reading, SameCall
  <2>. QED BY <2>1, <2>3, <2>5, WentKeeps DEF Load
<1>. QED BY <1>2, <1>3

\* Poll looks at the record again before it reports.
LEMMA CheckKeeps ==
    ASSUME IInv, NEW c \in Clients, PollCheck(c)
    PROVE  IInv'
<1>. DEFINE seen == calls[c].seen
            record == IF seen.outcome = "running" /\ calls[c].job \notin attached
                      THEN [seen EXCEPT !.outcome = "ambiguous"] ELSE seen
            r == Saw(Went(calls[c], "report"), record)
<1>1. IsCall(calls[c]) /\ calls[c].pc = "check"
  BY UnderWay DEF PollCheck, IInv
<1>2. seen \in Records /\ calls[c].op = "poll"
  BY <1>1 DEF IInv, CallInv, Reading
<1>3. calls' = [calls EXCEPT ![c] = r]
  BY DEF PollCheck, Went, Saw
<1>4. /\ IsCall(Went(calls[c], "report")) /\ SameCall(Went(calls[c], "report"), calls[c])
      /\ Went(calls[c], "report").pc = "report"
      /\ Went(calls[c], "report").said = calls[c].said
  BY <1>1, WentShape
<1>5. /\ IsCall(r) /\ SameCall(r, calls[c]) /\ r.pc = "report" /\ r.seen = record
      /\ r.said = calls[c].said
  BY <1>4, SawShape DEF SameCall
<1>6. [seen EXCEPT !.outcome = "ambiguous"].outcome = "ambiguous"
  BY <1>2 DEF Records
<1>7. record.outcome \in Outcomes
  BY <1>2, <1>6, RecordFacts DEF Outcomes
<1>8. record # Pointer
  BY <1>7 DEF Pointer, Outcomes, Terminal
<1>. HIDE DEF r, record
<1>9. Reading(r)
  BY <1>2, <1>5, <1>7, <1>8 DEF Reading, SameCall, Stops
<1>. QED BY <1>3, <1>5, <1>9, WentKeeps DEF PollCheck

\* WriteStdin takes m.mu and keeps it while it waits for inputMu.
LEMMA WriteFindKeeps ==
    ASSUME IInv, NEW c \in Clients, NEW j \in Jobs, NEW chunk \in Chunks,
           WriteFind(c, j, chunk)
    PROVE  IInv'
<1>1. CASE j \in attached
  <2>. DEFINE r == Call("stdin", j, chunk, "input", NoRecord)
  <2>1. /\ IsCall(r) /\ r.pc = "input" /\ r.job = j /\ r.arg = chunk
        /\ r.said = "nothing"
    BY CallShape
  <2>2. mu' = c /\ mu = Free /\ calls[c].pc = "idle"
        /\ calls' = [calls EXCEPT ![c] = r]
    BY <1>1 DEF WriteFind, Begin, Idle
  <2>. HIDE DEF r
  <2>3. CallInv(r)
    BY <1>1, <2>1, AttachedFacts
       DEF CallInv, Admitting, Feeding, Reading, Answered, Terminal
  <2>4. UNCHANGED <<memory, files, inputMu, history>>
    BY DEF WriteFind
  <2>5. Locks'
    BY <2>1, <2>2, <2>4, LockStep DEF IInv
  <2>. QED BY <2>1, <2>2, <2>3, <2>4, <2>5, TurnStep
           DEF IInv, StateOK, Sections, memory, files, history
<1>2. CASE j \notin attached
  BY <1>2, RefusedKeeps DEF WriteFind, locks
<1>. QED BY <1>1, <1>2

\* A chunk that is refused changes nothing; one that is resent was read.
LEMMA RefusalFacts ==
    ASSUME IInv, NEW j \in Jobs, run[j] # "none", NEW chunk \in Chunks
    PROVE  /\ Refusal(live[j], chunk) \notin Terminal
           /\ Refusal(live[j], chunk) = "accepted" =>
                 \E n \in DOMAIN fed[j] : fed[j][n] = chunk
           /\ Refusal(live[j], chunk) = "none" =>
                 chunk.seq = Len(live[j].inputs) + 1
<1>. DEFINE inputs == live[j].inputs
            n == chunk.seq
<1>1. /\ live[j] \in Records /\ inputs \in Seq(Digests)
      /\ fed[j] \in Seq(Chunks) /\ InOrder(j)
  <2>1. OnRecord(j) /\ InOrder(j) /\ live[j] \in Records \cup {NoRecord}
    BY DEF IInv, StateOK
  <2>. QED BY <2>1, RecordFacts DEF OnRecord, IInv, StateOK
<1>2. n \in 1 .. MaxInput /\ chunk = [seq |-> n, digest |-> chunk.digest]
  BY DEF Chunks
<1>3. ASSUME n \in DOMAIN inputs, inputs[n] = chunk.digest
      PROVE  \E k \in DOMAIN fed[j] : fed[j][k] = chunk
  <2>1. n \in DOMAIN fed[j] /\ fed[j][n].digest = inputs[n] /\ fed[j][n].seq = n
    BY <1>1, <1>3 DEF InOrder
  <2>2. fed[j][n] \in Chunks
    BY <1>1, <2>1
  <2>3. fed[j][n] = [seq |-> fed[j][n].seq, digest |-> fed[j][n].digest]
    BY <2>2 DEF Chunks
  <2>. QED BY <1>2, <1>3, <2>1, <2>3
<1>4. ASSUME n \notin DOMAIN inputs, n \in 1 .. Len(inputs) + 1
      PROVE  n = Len(inputs) + 1
  BY <1>1, <1>4, <1>2, HarnessConstants
<1>5. Refusal(live[j], chunk) \notin Terminal
  BY DEF Refusal, Terminal
<1>6. Refusal(live[j], chunk) = "accepted" =>
          n \in DOMAIN inputs /\ inputs[n] = chunk.digest
  BY DEF Refusal
<1>7. Refusal(live[j], chunk) = "none" =>
          n \notin DOMAIN inputs /\ n \in 1 .. Len(inputs) + 1
  BY DEF Refusal
<1>. QED BY <1>3, <1>4, <1>5, <1>6, <1>7

\* With inputMu, WriteStdin gives m.mu up: refused, or on its way to the pipe.
LEMMA WriteLockKeeps ==
    ASSUME IInv, NEW c \in Clients, WriteLock(c)
    PROVE  IInv'
<1>. DEFINE j == calls[c].job
            refusal == Refusal(live[j], calls[c].arg)
<1>1. IsCall(calls[c]) /\ j \in Jobs /\ calls[c].pc = "input"
  BY UnderWay DEF WriteLock, IInv
<1>2. calls[c].arg \in Chunks /\ run[j] # "none"
  BY <1>1 DEF IInv, CallInv, Feeding
<1>3. /\ refusal \notin Terminal
      /\ refusal = "accepted" => \E n \in DOMAIN fed[j] : fed[j][n] = calls[c].arg
      /\ refusal = "none" => calls[c].arg.seq = Len(live[j].inputs) + 1
  BY <1>1, <1>2, RefusalFacts
<1>4. IF refusal # "none"
      THEN Answer(c, refusal) /\ UNCHANGED inputMu
      ELSE Goto(c, "pipe") /\ inputMu' = [inputMu EXCEPT ![j] = c]
  BY DEF WriteLock, InputLock
<1>5. mu' = Free /\ inputMu[j] = Free /\ UNCHANGED <<memory, files, history>>
  BY DEF WriteLock
<1>. HIDE DEF refusal
<1>6. CASE refusal # "none"
  BY <1>3, <1>4, <1>5, <1>6, EndedKeeps DEF WriteLock, Sections
<1>7. CASE refusal = "none"
  <2>. DEFINE r == Went(calls[c], "pipe")
  <2>1. /\ IsCall(r) /\ SameCall(r, calls[c]) /\ r.pc = "pipe"
        /\ r.said = calls[c].said
    BY <1>1, WentShape
  <2>2. calls' = [calls EXCEPT ![c] = r]
    BY <1>4, <1>7 DEF Goto, Went
  <2>. HIDE DEF r
  <2>3. Answered(r)
    BY <2>1 DEF IInv, CallInv, Answered, SameCall
  <2>4. CallInv(r)
    BY <1>2, <1>3, <1>7, <2>1, <2>3
       DEF CallInv, Admitting, Feeding, Reading, SameCall
  <2>5. Locks'
    BY <1>1, <1>4, <1>5, <1>7, <2>1, <2>2, LockStep DEF IInv, SameCall
  <2>. QED BY <1>1, <1>5, <2>1, <2>2, <2>4, <2>5, TurnStep
           DEF IInv, StateOK, Sections, SameCall, memory, files, history
<1>. QED BY <1>6, <1>7

\* The pipe was closed before the command read the chunk.
LEMMA WriteClosedKeeps ==
    ASSUME IInv, NEW c \in Clients, WriteClosed(c)
    PROVE  IInv'
<1>1. /\ At(c, "pipe") /\ Answer(c, "unavailable") /\ UNCHANGED mu
      /\ inputMu' = [inputMu EXCEPT ![calls[c].job] = Free]
      /\ UNCHANGED <<memory, files, history>>
  BY DEF WriteClosed
<1>. DEFINE pc == "pipe"
            said == "unavailable"
<1>2. /\ pc \in Sections \ {"idle", "record"} /\ pc \notin {"reserve", "input"}
      /\ pc = "pipe" /\ At(c, pc)
  BY <1>1 DEF Sections
<1>3. said \notin Terminal /\ said # "accepted" /\ Answer(c, said)
  BY <1>1 DEF Terminal
<1>. HIDE DEF pc, said
<1>. QED BY <1>1, <1>2, <1>3, EndedKeeps

\* The admission that reserved the job is the only one: it starts and attaches
\* the job once, with its record on disk.
LEMMA AdmitKeeps ==
    ASSUME IInv, NEW c \in Clients, Admit(c)
    PROVE  IInv'
<1>. DEFINE j == calls[c].job
            i == calls[c].arg
            pc == IF calls[c].op = "execute" THEN "wait" ELSE "report"
            r == Saw(Went(calls[c], pc), Pointer)
<1>1. IsCall(calls[c]) /\ j \in Jobs /\ calls[c].pc = "reserve"
  BY UnderWay DEF Admit, IInv
<1>2. /\ calls[c].op \in {"execute", "start"} /\ i \in Intents
      /\ run[j] = "none" /\ disk[j] = NoRecord /\ starts[j] = 0
      /\ j \in dirs /\ mu = c
  BY <1>1 DEF IInv, CallInv, Admitting, Reserved, Locks, At
<1>3. OnRecord(j) /\ InOrder(j)
  BY <1>1 DEF IInv
<1>4. live[j] = NoRecord /\ fed[j] = <<>>
  BY <1>2, <1>3 DEF OnRecord, InOrder
<1>5. /\ IsCall(Went(calls[c], pc)) /\ SameCall(Went(calls[c], pc), calls[c])
      /\ Went(calls[c], pc).pc = pc /\ Went(calls[c], pc).said = calls[c].said
  BY <1>1, WentShape
<1>6. /\ IsCall(r) /\ SameCall(r, calls[c]) /\ r.pc = pc /\ r.seen = Pointer
      /\ r.said = calls[c].said
  BY <1>5, SawShape DEF SameCall
<1>7. calls' = [calls EXCEPT ![c] = r]
  BY DEF Admit, Went, Saw
<1>8. pc \in {"wait", "report"}
  OBVIOUS
<1>. HIDE DEF r, pc
<1>9. /\ calls'[c] = r
      /\ \A d \in Clients \ {c} : calls'[d] = calls[d]
      /\ calls' = [d \in Clients |-> calls'[d]]
  BY <1>7 DEF IInv, CallsOK
<1>10. \A d \in Clients \ {c} : ~At(d, "reserve") /\ ~At(d, "input")
  BY <1>2 DEF IInv, Locks
<1>11. /\ NewRecord(i) \in Records /\ NewRecord(i) # NoRecord
       /\ NewRecord(i).outcome = "running" /\ NewRecord(i).inputs = <<>>
  BY <1>2, NewRecordFacts, RecordFacts
<1>12. /\ run' = [run EXCEPT ![j] = "await"]
       /\ disk' = [disk EXCEPT ![j] = NewRecord(i)]
       /\ live' = [live EXCEPT ![j] = NewRecord(i)]
       /\ starts' = [starts EXCEPT ![j] = @ + 1]
       /\ UNCHANGED <<dirs, fed, inputMu>> /\ mu' = Free
  BY DEF Admit
<1>13. /\ run'[j] = "await" /\ disk'[j] = NewRecord(i) /\ live'[j] = NewRecord(i)
       /\ starts'[j] = 1
       /\ \A k \in Jobs \ {j} : /\ run'[k] = run[k] /\ disk'[k] = disk[k]
                                /\ live'[k] = live[k] /\ starts'[k] = starts[k]
  BY <1>1, <1>2, <1>12 DEF IInv, StateOK
<1>14. StateOK'
  <2>1. attached' = {k \in Jobs : run'[k] \in {"await", "settle"}}
    BY <1>1, <1>13 DEF Admit, IInv, StateOK
  <2>2. /\ live' \in [Jobs -> Records \cup {NoRecord}]
        /\ disk' \in [Jobs -> Records \cup {NoRecord}]
    <3>. HIDE DEF i
    <3>. QED BY <1>11, <1>12 DEF IInv, StateOK
  <2>3. run' \in [Jobs -> {"none", "await", "settle", "close", "end"}]
    BY <1>12 DEF IInv, StateOK
  <2>5. starts' \in [Jobs -> Nat]
    <3>. HIDE DEF j
    <3>. QED BY <1>1, <1>12 DEF IInv, StateOK
  <2>4. /\ ctx' \in [Jobs -> {"open", "cancelled", "deadline"}]
        /\ session' \in [Jobs -> {"none", "running", "abandoned", "ended"}]
        /\ closed' \subseteq Jobs
    BY DEF Admit, IInv, StateOK
  <2>. QED BY <1>12, <2>1, <2>2, <2>3, <2>4, <2>5 DEF IInv, StateOK
<1>15. CallsOK'
  BY <1>1, <1>6, <1>8, <1>9 DEF IInv, CallsOK, SameCall, Sections
<1>16. Locks'
  BY <1>1, <1>6, <1>7, <1>8, <1>12, LockStep DEF IInv
<1>17. Reserved' /\ StartedHasDir' /\ AtMostOnce'
  BY <1>2, <1>6, <1>8, <1>9, <1>12, <1>13
     DEF IInv, Reserved, StartedHasDir, AtMostOnce, At
<1>18. \A k \in Jobs : Over(k) => Over(k)'
  BY <1>2, <1>13 DEF Over
<1>19. CallInv(calls[c])'
  <2>1. Answered(calls[c])
    BY DEF IInv, CallInv
  <2>2. Answered(calls[c])'
    BY <1>1, <1>6, <1>9, <1>12, <1>18, <2>1 DEF Answered, SameCall
  <2>3. Reading(calls[c])'
    BY <1>1, <1>2, <1>6, <1>8, <1>9, <1>13 DEF Reading, SameCall, Stops
  <2>4. Admitting(calls[c])' /\ Feeding(calls[c])'
    BY <1>6, <1>8, <1>9 DEF Admitting, Feeding
  <2>. QED BY <2>2, <2>3, <2>4 DEF CallInv
<1>20. ASSUME NEW d \in Clients \ {c} PROVE CallInv(calls[d])'
  <2>1. /\ calls'[d] = calls[d] /\ CallInv(calls[d])
        /\ calls[d] = NoCall \/ calls[d].job \in Jobs
    BY <1>9 DEF IInv, CallsOK
  <2>2. Admitting(calls[d])'
    BY <1>10, <2>1 DEF Admitting, At
  <2>3. Feeding(calls[d])'
    <3>1. CASE calls[d].pc \in {"input", "pipe", "record"}
      <4>1. calls[d].job \in Jobs \ {j} /\ Feeding(calls[d])
        BY <1>2, <2>1, <3>1 DEF CallInv, Feeding, NoCall
      <4>. QED BY <1>12, <1>13, <2>1, <4>1 DEF Feeding
    <3>2. CASE calls[d].pc \notin {"input", "pipe", "record"}
      BY <2>1, <3>2 DEF Feeding
    <3>. QED BY <3>1, <3>2
  <2>4. Reading(calls[d])'
    <3>1. CASE calls[d] = NoCall
      BY <2>1, <3>1 DEF Reading, NoCall
    <3>2. CASE calls[d].job = j
      BY <1>1, <1>2, <1>13, <1>18, <2>1, <3>2 DEF CallInv, Reading
    <3>3. CASE calls[d].job \in Jobs \ {j}
      BY <1>13, <1>18, <2>1, <3>3 DEF CallInv, Reading
    <3>. QED BY <2>1, <3>1, <3>2, <3>3
  <2>5. Answered(calls[d])'
    BY <1>12, <1>18, <2>1 DEF CallInv, Answered, NoCall, Terminal
  <2>. QED BY <2>2, <2>3, <2>4, <2>5 DEF CallInv
<1>21. ASSUME NEW k \in Jobs PROVE (OnRecord(k) /\ InOrder(k))'
  <2>1. Unrecorded(k)' <=> Unrecorded(k)
    BY <1>1, <1>6, <1>8, <1>9 DEF Unrecorded, At
  <2>2. OnRecord(k) /\ InOrder(k)
    BY DEF IInv
  <2>3. CASE k = j
    <3>1. OnRecord(k)'
      BY <1>11, <1>13, <2>3 DEF OnRecord, Terminal
    <3>2. InOrder(k)'
      BY <1>4, <1>11, <1>12, <1>13, <2>3 DEF InOrder
    <3>. QED BY <3>1, <3>2
  <2>4. CASE k # j
    BY <1>12, <1>13, <2>1, <2>2, <2>4 DEF OnRecord, InOrder
  <2>. QED BY <2>3, <2>4
<1>. QED BY <1>14, <1>15, <1>16, <1>17, <1>19, <1>20, <1>21 DEF IInv

\* The command reads the next chunk; its record comes next.
LEMMA WriteFedKeeps ==
    ASSUME IInv, NEW c \in Clients, WriteFed(c)
    PROVE  IInv'
<1>. DEFINE j == calls[c].job
            chunk == calls[c].arg
            r == Went(calls[c], "record")
<1>1. IsCall(calls[c]) /\ j \in Jobs /\ calls[c].pc = "pipe"
  BY UnderWay DEF WriteFed, IInv
<1>2. /\ chunk \in Chunks /\ run[j] # "none"
      /\ chunk.seq = Len(live[j].inputs) + 1
  BY <1>1 DEF IInv, CallInv, Feeding
<1>3. /\ IsCall(r) /\ SameCall(r, calls[c]) /\ r.pc = "record"
      /\ r.said = calls[c].said
  BY <1>1, WentShape
<1>4. calls' = [calls EXCEPT ![c] = r]
  BY DEF WriteFed, Goto, Went
<1>. HIDE DEF r
<1>5. /\ calls'[c] = r
      /\ \A d \in Clients \ {c} : calls'[d] = calls[d]
      /\ calls' = [d \in Clients |-> calls'[d]]
  BY <1>4 DEF IInv, CallsOK
<1>6. UNCHANGED <<memory, files, locks, starts>>
  BY DEF WriteFed
<1>7. \A d \in Clients \ {c} :
          calls[d].pc \in {"pipe", "record"} => calls[d].job # j
  BY <1>1, HarnessConstants DEF IInv, Locks, At
<1>8. ~Unrecorded(j)
  BY <1>1, <1>7 DEF Unrecorded, At
<1>9. /\ fed[j] \in Seq(Chunks) /\ InOrder(j) /\ OnRecord(j)
      /\ live[j] \in Records
  <2>1. live[j] \in Records \cup {NoRecord} /\ OnRecord(j)
    BY <1>1 DEF IInv, StateOK
  <2>. QED BY <1>1, <1>2, <2>1 DEF IInv, StateOK, OnRecord
<1>10. /\ fed' = [fed EXCEPT ![j] = Append(fed[j], chunk)]
       /\ fed'[j] = Append(fed[j], chunk) /\ fed'[j] \in Seq(Chunks)
       /\ \A k \in Jobs \ {j} : fed'[k] = fed[k]
  BY <1>1, <1>2, <1>9 DEF WriteFed, IInv, StateOK
<1>11. /\ Len(fed[j]) = Len(live[j].inputs) /\ Len(fed[j]) \in Nat
       /\ Len(fed'[j]) = Len(fed[j]) + 1 /\ fed'[j][Len(fed[j]) + 1] = chunk
       /\ \A n \in 1 .. Len(fed[j]) : fed'[j][n] = fed[j][n]
       /\ DOMAIN fed[j] = 1 .. Len(fed[j])
       /\ DOMAIN fed'[j] = 1 .. Len(fed[j]) + 1
  BY <1>2, <1>8, <1>9, <1>10 DEF InOrder
<1>12. StateOK'
  BY <1>6, <1>10 DEF IInv, StateOK, memory, files
<1>13. CallsOK'
  BY <1>1, <1>3, <1>5 DEF IInv, CallsOK, SameCall, Sections
<1>14. Locks'
  BY <1>1, <1>3, <1>4, <1>6, LockStep DEF IInv, SameCall, locks
<1>15. Reserved' /\ StartedHasDir' /\ AtMostOnce'
  BY <1>3, <1>5, <1>6 DEF IInv, Reserved, StartedHasDir, AtMostOnce, At, files
<1>16. \A k \in Jobs : Over(k) => Over(k)'
  BY <1>6 DEF Over, memory, files
<1>17. ASSUME NEW k \in Jobs, NEW arg, \E n \in DOMAIN fed[k] : fed[k][n] = arg
       PROVE  \E n \in DOMAIN fed'[k] : fed'[k][n] = arg
  <2>1. CASE k = j
    <3>1. PICK n \in DOMAIN fed[j] : fed[j][n] = arg
      BY <1>17, <2>1
    <3>2. n \in DOMAIN fed'[j] /\ fed'[j][n] = arg
      BY <1>11, <3>1
    <3>. QED BY <2>1, <3>2
  <2>2. CASE k # j
    BY <1>10, <1>17, <2>2
  <2>. QED BY <2>1, <2>2
<1>18. CallInv(calls[c])'
  <2>1. Answered(calls[c])
    BY DEF IInv, CallInv
  <2>2. Answered(calls[c])'
    BY <1>1, <1>3, <1>5, <1>16, <1>17, <2>1 DEF Answered, SameCall
  <2>3. Feeding(calls[c])'
    BY <1>2, <1>3, <1>5, <1>6, <1>11 DEF Feeding, SameCall, memory
  <2>4. Admitting(calls[c])' /\ Reading(calls[c])'
    BY <1>3, <1>5 DEF Admitting, Reading
  <2>. QED BY <2>2, <2>3, <2>4 DEF CallInv
<1>19. ASSUME NEW d \in Clients \ {c} PROVE CallInv(calls[d])'
  <2>1. /\ calls'[d] = calls[d] /\ CallInv(calls[d])
        /\ calls[d] = NoCall \/ calls[d].job \in Jobs
    BY <1>5 DEF IInv, CallsOK
  <2>2. Admitting(calls[d])'
    BY <1>6, <2>1 DEF CallInv, Admitting, memory, files
  <2>3. Feeding(calls[d])'
    <3>1. CASE calls[d].pc = "record"
      <4>1. calls[d].job \in Jobs \ {j} /\ Feeding(calls[d])
        BY <1>7, <2>1, <3>1 DEF CallInv, NoCall
      <4>. QED BY <1>6, <1>10, <2>1, <4>1 DEF Feeding, memory
    <3>2. CASE calls[d].pc # "record"
      BY <1>6, <2>1, <3>2 DEF CallInv, Feeding, memory
    <3>. QED BY <3>1, <3>2
  <2>4. Reading(calls[d])'
    BY <1>6, <1>16, <2>1 DEF CallInv, Reading, NoCall, memory
  <2>5. Answered(calls[d])'
    BY <1>16, <1>17, <2>1 DEF CallInv, Answered, NoCall, Terminal
  <2>. QED BY <2>2, <2>3, <2>4, <2>5 DEF CallInv
<1>20. ASSUME NEW k \in Jobs PROVE (OnRecord(k) /\ InOrder(k))'
  <2>1. OnRecord(k) /\ InOrder(k)
    BY DEF IInv
  <2>2. OnRecord(k)'
    BY <1>6, <2>1 DEF OnRecord, memory, files
  <2>3. CASE k = j
    <3>1. Unrecorded(k)'
      BY <1>3, <1>5, <2>3 DEF Unrecorded, At, SameCall
    <3>2. starts'[j] # 0
      BY <1>2, <1>6, <1>9 DEF OnRecord
    <3>3. \A n \in DOMAIN fed'[j] : fed'[j][n].seq = n
      <4>1. \A n \in 1 .. Len(fed[j]) : fed[j][n].seq = n
        BY <1>9, <1>11 DEF InOrder
      <4>2. ASSUME NEW n \in 1 .. Len(fed[j]) + 1 PROVE fed'[j][n].seq = n
        <5>1. n \in 1 .. Len(fed[j]) \/ n = Len(fed[j]) + 1
          BY <1>11
        <5>2. fed'[j][Len(fed[j]) + 1].seq = Len(fed[j]) + 1
          BY <1>2, <1>11
        <5>. QED BY <1>11, <4>1, <5>1, <5>2
      <4>. QED BY <1>11, <4>2
    <3>4. \A n \in DOMAIN live'[j].inputs :
              n \in DOMAIN fed'[j] /\ fed'[j][n].digest = live'[j].inputs[n]
      <4>1. live'[j] = live[j]
        BY <1>6 DEF memory
      <4>2. \A n \in DOMAIN live[j].inputs :
                n \in DOMAIN fed[j] /\ fed[j][n].digest = live[j].inputs[n]
        BY <1>2, <1>9 DEF InOrder
      <4>3. \A n \in DOMAIN fed[j] :
                n \in DOMAIN fed'[j] /\ fed'[j][n] = fed[j][n]
        BY <1>11
      <4>. HIDE DEF j
      <4>. QED BY <4>1, <4>2, <4>3
    <3>. QED BY <2>2, <2>3, <3>1, <3>2, <3>3, <3>4 DEF InOrder
  <2>4. CASE k # j
    <3>1. Unrecorded(k)' <=> Unrecorded(k)
      BY <1>1, <1>3, <1>5, <2>4 DEF Unrecorded, At, SameCall
    <3>2. /\ fed'[k] = fed[k] /\ starts'[k] = starts[k] /\ run'[k] = run[k]
          /\ live'[k] = live[k]
      BY <1>6, <1>10, <2>4 DEF memory
    <3>3. InOrder(k)'
      BY <2>1, <3>1, <3>2 DEF InOrder
    <3>. QED BY <2>2, <3>3
  <2>. QED BY <2>3, <2>4
<1>. QED BY <1>12, <1>13, <1>14, <1>15, <1>18, <1>19, <1>20 DEF IInv

\* The chunk that was read is recorded, and with that acknowledged; the outcome
\* stays what the goroutine of the job has made it.
LEMMA WriteRecordKeeps ==
    ASSUME IInv, NEW c \in Clients, WriteRecord(c)
    PROVE  IInv'
<1>1. IsCall(calls[c]) /\ calls[c].job \in Jobs /\ calls[c].pc = "record"
  BY UnderWay DEF WriteRecord, IInv
<1>2a. PICK j \in Jobs : j = calls[c].job
  BY <1>1
<1>2. PICK chunk, r :
          /\ j = calls[c].job /\ chunk = calls[c].arg
          /\ r = Ended(calls[c], "accepted")
  BY <1>1, <1>2a
<1>3. /\ chunk \in Chunks /\ run[j] # "none"
      /\ Len(fed[j]) = Len(live[j].inputs) + 1
      /\ fed[j][Len(fed[j])] = chunk
  BY <1>1, <1>2 DEF IInv, CallInv, Feeding
<1>4. /\ IsCall(r) /\ SameCall(r, calls[c]) /\ r.pc = "idle"
      /\ r.said = "accepted"
  BY <1>1, <1>2, EndedShape
<1>5. calls' = [calls EXCEPT ![c] = r]
  BY <1>2 DEF WriteRecord, Answer, Ended
<1>6. /\ calls'[c] = r
      /\ \A d \in Clients \ {c} : calls'[d] = calls[d]
      /\ calls' = [d \in Clients |-> calls'[d]]
  BY <1>5 DEF IInv, CallsOK
<1>7. \A d \in Clients \ {c} :
          calls[d].pc \in {"pipe", "record"} => calls[d].job # j
  BY <1>1, <1>2, HarnessConstants DEF IInv, Locks, At
<1>8. PICK record :
          /\ record = WithInput(live[j], chunk.digest)
          /\ live' = [live EXCEPT ![j] = record]
          /\ disk' = [disk EXCEPT ![j] = record] \/ UNCHANGED disk
  BY <1>2 DEF WriteRecord, Recorded, WithInput, Persist
<1>9. /\ live[j] \in Records /\ fed[j] \in Seq(Chunks)
      /\ OnRecord(j) /\ InOrder(j)
  <2>1. live[j] \in Records \cup {NoRecord} /\ OnRecord(j)
    BY DEF IInv, StateOK
  <2>. QED BY <1>3, <2>1 DEF IInv, StateOK, OnRecord
<1>10. /\ record \in Records /\ record # NoRecord
       /\ record.outcome = live[j].outcome
       /\ record.inputs = Append(live[j].inputs, chunk.digest)
       /\ live[j].inputs \in Seq(Digests)
  <2>1. chunk.digest \in Digests
    BY <1>3 DEF Chunks
  <2>. QED BY <1>8, <1>9, <2>1, WithInputFacts, RecordFacts
<1>11. /\ UNCHANGED <<attached, ctx, closed, session, run, dirs, mu, history>>
       /\ inputMu' = [inputMu EXCEPT ![j] = Free]
  BY <1>2 DEF WriteRecord
<1>12. /\ live'[j] = record /\ disk'[j] \in {record, disk[j]}
       /\ \A k \in Jobs \ {j} : live'[k] = live[k] /\ disk'[k] = disk[k]
  BY <1>8 DEF IInv, StateOK
<1>13. StateOK'
  <2>1. live' \in [Jobs -> Records \cup {NoRecord}]
    BY <1>8, <1>10 DEF IInv, StateOK
  <2>2. disk' \in [Jobs -> Records \cup {NoRecord}]
    BY <1>8, <1>10 DEF IInv, StateOK
  <2>. QED BY <1>11, <2>1, <2>2 DEF IInv, StateOK, history
<1>14. CallsOK'
  BY <1>1, <1>4, <1>6 DEF IInv, CallsOK, SameCall, Sections
<1>15. Locks'
  BY <1>1, <1>2, <1>4, <1>5, <1>11, LockStep DEF IInv
<1>16. Reserved' /\ StartedHasDir' /\ AtMostOnce'
  BY <1>4, <1>6, <1>11
     DEF IInv, Reserved, StartedHasDir, AtMostOnce, At, history
<1>17. \A k \in Jobs : Over(k) => Over(k)'
  BY <1>3, <1>11, <1>12 DEF Over
<1>18. CallInv(calls[c])'
  <2>1. Len(fed[j]) \in DOMAIN fed[j]
    <3>1. Len(live[j].inputs) \in Nat
      BY <1>10
    <3>. QED BY <1>3, <1>9, <3>1
  <2>2. Answered(calls[c])'
    BY <1>2, <1>3, <1>4, <1>6, <1>11, <2>1
       DEF Answered, SameCall, Terminal, history
  <2>. QED BY <1>4, <1>6, <2>2 DEF CallInv, Admitting, Feeding, Reading
<1>19. ASSUME NEW d \in Clients \ {c} PROVE CallInv(calls[d])'
  <2>1. /\ calls'[d] = calls[d] /\ CallInv(calls[d])
        /\ calls[d] = NoCall \/ calls[d].job \in Jobs
    BY <1>6 DEF IInv, CallsOK
  <2>2. Admitting(calls[d])'
    <3>1. CASE calls[d].pc = "reserve"
      <4>1. calls[d].job \in Jobs \ {j} /\ Admitting(calls[d])
        BY <1>3, <2>1, <3>1 DEF CallInv, Admitting, NoCall
      <4>. QED BY <1>11, <1>12, <2>1, <4>1 DEF Admitting, history
    <3>2. CASE calls[d].pc # "reserve"
      BY <2>1, <3>2 DEF Admitting
    <3>. QED BY <3>1, <3>2
  <2>3. Feeding(calls[d])'
    <3>1. CASE calls[d].pc \in {"pipe", "record"}
      <4>1. calls[d].job \in Jobs \ {j} /\ Feeding(calls[d])
        BY <1>7, <2>1, <3>1 DEF CallInv, NoCall
      <4>. QED BY <1>11, <1>12, <2>1, <4>1 DEF Feeding, history
    <3>2. CASE calls[d].pc \notin {"pipe", "record"}
      BY <1>11, <2>1, <3>2 DEF CallInv, Feeding
    <3>. QED BY <3>1, <3>2
  <2>4. Reading(calls[d])'
    BY <1>11, <1>17, <2>1 DEF CallInv, Reading, NoCall
  <2>5. Answered(calls[d])'
    BY <1>11, <1>17, <2>1 DEF CallInv, Answered, NoCall, Terminal, history
  <2>. QED BY <2>2, <2>3, <2>4, <2>5 DEF CallInv
<1>20. ASSUME NEW k \in Jobs PROVE (OnRecord(k) /\ InOrder(k))'
  <2>1. OnRecord(k) /\ InOrder(k)
    BY DEF IInv
  <2>2. CASE k = j
    <3>1. OnRecord(j)'
      <4>1. /\ run'[j] = run[j] /\ starts'[j] = starts[j]
            /\ run[j] # "none" /\ live'[j] # NoRecord
            /\ live'[j].outcome = live[j].outcome
        BY <1>3, <1>10, <1>11, <1>12 DEF history
      <4>2. \/ disk'[j] = disk[j]
            \/ disk'[j] # NoRecord /\ disk'[j].outcome = live[j].outcome
        BY <1>10, <1>12
      <4>3. OnRecord(j) /\ run[j] \in {"none", "await", "settle", "close", "end"}
        BY <1>9 DEF IInv, StateOK
      <4>. QED BY <4>1, <4>2, <4>3 DEF OnRecord, Terminal
    <3>2. Len(live'[j].inputs) = Len(fed[j])
      BY <1>3, <1>10, <1>12
    <3>3. ASSUME NEW n \in DOMAIN live'[j].inputs
          PROVE  n \in DOMAIN fed[j] /\ fed[j][n].digest = live'[j].inputs[n]
      <4>1. /\ n \in 1 .. Len(fed[j]) /\ Len(live[j].inputs) \in Nat
            /\ DOMAIN fed[j] = 1 .. Len(fed[j])
        BY <1>3, <1>9, <1>10, <1>12
      <4>2. CASE n = Len(fed[j])
        <5>1. live'[j].inputs[n] = chunk.digest
          BY <1>3, <1>10, <1>12, <4>2
        <5>. QED BY <1>3, <4>1, <4>2, <5>1
      <4>3. CASE n # Len(fed[j])
        <5>1. n \in DOMAIN live[j].inputs
          BY <1>3, <1>10, <4>1, <4>3
        <5>2. live'[j].inputs[n] = live[j].inputs[n]
          BY <1>10, <1>12, <5>1
        <5>. QED BY <1>3, <1>9, <5>1, <5>2 DEF InOrder
      <4>. QED BY <4>2, <4>3
    <3>4. InOrder(j)'
      BY <1>9, <1>11, <3>2, <3>3 DEF InOrder, history
    <3>. QED BY <2>2, <3>1, <3>4
  <2>3. CASE k # j
    <3>1. Unrecorded(k)' <=> Unrecorded(k)
      BY <1>1, <1>2, <1>4, <1>6, <2>3 DEF Unrecorded, At
    <3>2. /\ fed'[k] = fed[k] /\ starts'[k] = starts[k] /\ run'[k] = run[k]
          /\ live'[k] = live[k] /\ disk'[k] = disk[k]
      BY <1>11, <1>12, <2>3 DEF history
    <3>. QED BY <2>1, <3>1, <3>2 DEF InOrder, OnRecord
  <2>. QED BY <2>2, <2>3
<1>. QED BY <1>13, <1>14, <1>15, <1>16, <1>18, <1>19, <1>20 DEF IInv

\* The command, its context and its deadline.
LEMMA ContextKeeps ==
    ASSUME IInv,
           UNCHANGED <<attached, live, run, files, locks, calls, history>>,
           closed' \subseteq Jobs,
           ctx' \in [Jobs -> {"open", "cancelled", "deadline"}],
           session' \in [Jobs -> {"none", "running", "abandoned", "ended"}]
    PROVE  IInv'
<1>. USE DEF IInv, files, locks, history
<1>1. StateOK'
  BY DEF StateOK
<1>2. CallsOK' /\ Locks' /\ Reserved' /\ StartedHasDir' /\ AtMostOnce'
  BY DEF CallsOK, Locks, Reserved, StartedHasDir, AtMostOnce, At
<1>3. \A c \in Clients : CallInv(calls[c])'
  BY DEF CallInv, Admitting, Feeding, Reading, Answered, Over
<1>4. \A j \in Jobs : (OnRecord(j) /\ InOrder(j))'
  BY DEF OnRecord, InOrder, Unrecorded, At
<1>. QED BY <1>1, <1>2, <1>3, <1>4

\* The goroutine of a job has its command's end, or gives it up, or is done.
LEMMA GoroutineKeeps ==
    ASSUME IInv, NEW j \in Jobs, RunEnded(j) \/ RunAbandon(j) \/ Close(j)
    PROVE  IInv'
<1>1. UNCHANGED <<attached, live, ctx, files, locks, calls, history>>
  BY DEF RunEnded, RunAbandon, Close
<1>2. /\ \/ run[j] = "await" /\ run' = [run EXCEPT ![j] = "settle"]
         \/ run[j] = "close" /\ run' = [run EXCEPT ![j] = "end"]
      /\ closed' \subseteq Jobs
      /\ session' \in [Jobs -> {"none", "running", "abandoned", "ended"}]
  BY DEF RunEnded, RunAbandon, Close, IInv, StateOK
<1>3. /\ \/ run[j] = "await" /\ run'[j] = "settle"
         \/ run[j] = "close" /\ run'[j] = "end"
      /\ \A k \in Jobs \ {j} : run'[k] = run[k]
      /\ run' \in [Jobs -> {"none", "await", "settle", "close", "end"}]
  BY <1>2 DEF IInv, StateOK
<1>4. StateOK'
  <2>1. attached' = {k \in Jobs : run'[k] \in {"await", "settle"}}
    BY <1>1, <1>3 DEF IInv, StateOK
  <2>. QED BY <1>1, <1>2, <1>3, <2>1 DEF IInv, StateOK, files, history
<1>5. \A k \in Jobs : OnRecord(k)'
  BY <1>1, <1>3 DEF IInv, OnRecord, files, history
<1>. QED BY <1>1, <1>3, <1>4, <1>5, JobStep DEF files, locks, history

\* The outcome is recorded, and the job is detached.
LEMMA SettleKeeps ==
    ASSUME IInv, NEW j \in Jobs, Settle(j)
    PROVE  IInv'
<1>1. Outcome(j) \in Terminal
  BY DEF Outcome, Terminal
<1>2. /\ run[j] = "settle" /\ run' = [run EXCEPT ![j] = "close"]
      /\ attached' = attached \ {j}
      /\ UNCHANGED <<ctx, closed, session, dirs, locks, calls, history>>
  BY DEF Settle
<1>3. PICK record :
          /\ record = SettledAs(live[j], Outcome(j))
          /\ live' = [live EXCEPT ![j] = record]
          /\ disk' = [disk EXCEPT ![j] = record] \/ UNCHANGED disk
  BY DEF Settle, SettledAs, Persist
<1>4. live[j] \in Records /\ OnRecord(j)
  <2>1. live[j] \in Records \cup {NoRecord} /\ OnRecord(j)
    BY DEF IInv, StateOK
  <2>. QED BY <1>2, <2>1 DEF OnRecord
<1>5. /\ record \in Records /\ record # NoRecord
      /\ record.outcome \in Terminal /\ record.inputs = live[j].inputs
  BY <1>1, <1>3, <1>4, SettledFacts, RecordFacts
<1>6. /\ run'[j] = "close" /\ live'[j] = record /\ disk'[j] \in {record, disk[j]}
      /\ \A k \in Jobs \ {j} : /\ run'[k] = run[k] /\ live'[k] = live[k]
                               /\ disk'[k] = disk[k]
      /\ run' \in [Jobs -> {"none", "await", "settle", "close", "end"}]
  BY <1>2, <1>3 DEF IInv, StateOK
<1>7. StateOK'
  <2>1. attached' = {k \in Jobs : run'[k] \in {"await", "settle"}}
    BY <1>2, <1>6 DEF IInv, StateOK
  <2>2. live' \in [Jobs -> Records \cup {NoRecord}]
    BY <1>3, <1>5 DEF IInv, StateOK
  <2>3. disk' \in [Jobs -> Records \cup {NoRecord}]
    BY <1>3, <1>5 DEF IInv, StateOK
  <2>. QED BY <1>2, <1>6, <2>1, <2>2, <2>3 DEF IInv, StateOK, history
<1>8. OnRecord(j)'
  BY <1>2, <1>4, <1>5, <1>6 DEF OnRecord, history
<1>9. \A k \in Jobs \ {j} : OnRecord(k)'
  BY <1>2, <1>6 DEF IInv, OnRecord, history
<1>. QED BY <1>2, <1>5, <1>6, <1>7, <1>8, <1>9, JobStep DEF locks, history

\* A crash forgets the calls, the mutexes and the goroutines; records and
\* directories stay, and with them every job that was ever started.
LEMMA CrashKeeps == IInv /\ Crash => IInv'
<1>. SUFFICES ASSUME IInv, Crash PROVE IInv'
  OBVIOUS
<1>. USE DEF IInv, files, history
<1>1. StateOK'
  BY DEF Crash, StateOK
<1>2. CallsOK' /\ Reserved' /\ StartedHasDir' /\ AtMostOnce'
  BY DEF Crash, CallsOK, Reserved, StartedHasDir, AtMostOnce, NoCall, At
<1>3. Locks'
  BY HarnessConstants DEF Crash, Locks, NoCall, At
<1>4. \A c \in Clients : CallInv(calls[c])'
  BY DEF Crash, CallInv, Admitting, Feeding, Reading, Answered, NoCall, Terminal
<1>5. \A j \in Jobs : (OnRecord(j) /\ InOrder(j))'
  <2>. SUFFICES ASSUME NEW j \in Jobs PROVE (OnRecord(j) /\ InOrder(j))'
    OBVIOUS
  <2>1. /\ run'[j] = "none" /\ live'[j] = NoRecord
        /\ UNCHANGED <<disk, starts, fed>>
    BY DEF Crash
  <2>2. OnRecord(j) /\ InOrder(j)
    OBVIOUS
  <2>. QED BY <2>1, <2>2 DEF OnRecord, InOrder
<1>. QED BY <1>1, <1>2, <1>3, <1>4, <1>5

(***************************************************************************)
(* The theorems.                                                           *)
(***************************************************************************)
\* Every operation of manager.go, every step of a job and a crash keep the
\* invariant.
LEMMA NextKeeps == IInv /\ [Next]_vars => IInv'
<1>. SUFFICES ASSUME IInv, [Next]_vars PROVE IInv'
  OBVIOUS
<1>1. ASSUME NEW c \in Clients, Management(c) PROVE IInv'
  <2>1. CASE Admission(c)
    BY <2>1, KnownKeeps, ReserveKeeps, UnreservedKeeps DEF Admission
  <2>. QED BY <1>1, <2>1, PollKeeps, StopKeeps DEF Management
<1>2. ASSUME NEW c \in Clients, Writing(c) PROVE IInv'
  BY <1>2, WriteFindKeeps DEF Writing
<1>3. ASSUME NEW c \in Clients, Continue(c) PROVE IInv'
  BY <1>3, AdmitKeeps, WaitKeeps, ReportKeeps, LoadKeeps, CheckKeeps,
     WriteLockKeeps, WriteClosedKeeps, WriteRecordKeeps DEF Continue
<1>4. ASSUME NEW c \in Clients, Disconnect(c) PROVE IInv'
  <2>1. ctx' \in [Jobs -> {"open", "cancelled", "deadline"}]
    BY <1>4 DEF Disconnect, IInv, StateOK
  <2>. QED BY <1>4, <2>1, ContextKeeps DEF Disconnect, IInv, StateOK
<1>5. ASSUME NEW j \in Jobs, SessionEnds(j) \/ Deadline(j) PROVE IInv'
  <2>1. /\ ctx' \in [Jobs -> {"open", "cancelled", "deadline"}]
        /\ session' \in [Jobs -> {"none", "running", "abandoned", "ended"}]
    BY <1>5 DEF SessionEnds, Deadline, IInv, StateOK
  <2>. QED BY <1>5, <2>1, ContextKeeps DEF SessionEnds, Deadline, IInv, StateOK
<1>6. ASSUME NEW j \in Jobs, Work(j) PROVE IInv'
  BY <1>6, GoroutineKeeps, SettleKeeps DEF Work
<1>7. CASE UNCHANGED vars
  BY <1>7, ContextKeeps DEF vars, memory, IInv, StateOK
<1>8. CASE Next
  BY <1>1, <1>2, <1>3, <1>4, <1>5, <1>6, <1>8, UnreservedKeeps, WriteFedKeeps,
     CrashKeeps DEF Next
<1>. QED BY <1>7, <1>8

\* The orders of reserve, begin, WriteStdin and run hold in every state: a job
\* is attached only by the admission that made its directory and holds m.mu, its
\* records follow its goroutine, and its recorded input is what was read.
THEOREM RecordsFollowJobs == Spec => []IInv
<1>. QED BY InitOK, NextKeeps, PTL DEF Spec

\* A job is attached from its admission until its goroutine settles it, and m.mu
\* and each inputMu are held exactly by the call that took them.
THEOREM MutexesAreHeld == Spec => []TypeOK
<1>1. IInv => TypeOK
  <2>. SUFFICES ASSUME IInv, NEW c \in Clients
                PROVE  calls[c].pc \in Sections /\ (~Idle(c) => calls[c].job \in Jobs)
    BY DEF IInv, StateOK, Locks, TypeOK, Sections
  <2>. QED BY DEF IInv, CallsOK, Idle, NoCall, Sections
<1>. QED BY <1>1, RecordsFollowJobs, PTL

\* The command of a job runs at most once (begin, reserve): whatever callers
\* retry, and wherever the process is killed and started again.
THEOREM JobsRunAtMostOnce == Spec => []AtMostOnce
<1>1. IInv => AtMostOnce
  BY DEF IInv
<1>. QED BY <1>1, RecordsFollowJobs, PTL

\* The command reads its chunks in sequence and none twice (WriteStdin), with any
\* number of callers that send and resend them.
THEOREM InputIsSequential == Spec => []FedInSequence
<1>1. IInv => FedInSequence
  BY DEF IInv, InOrder, FedInSequence
<1>. QED BY <1>1, RecordsFollowJobs, PTL

\* What WriteStdin acknowledges as accepted, at once or as a resend, the command
\* has read.
THEOREM AcceptedInputWasRead == Spec => []AcceptedWasFed
<1>1. IInv => AcceptedWasFed
  BY DEF IInv, CallInv, Answered, AcceptedWasFed
<1>. QED BY <1>1, RecordsFollowJobs, PTL

\* A Signal or Cancel that reports an end comes after the goroutine of the job:
\* the job is not attached, and is not attached again later (stop).
THEOREM StopsAreBarriers == Spec => []StopIsBarrier
<1>1. IInv => StopIsBarrier
  BY DEF IInv, CallInv, Answered, Over, StopIsBarrier, Stops
<1>. QED BY <1>1, RecordsFollowJobs, PTL

\* A terminal outcome on file is not rewritten (persistRecord): by no late record
\* of input, no second settlement, no admission and no crash.
THEOREM OutcomesAreFinal == Spec => OutcomeIsFinal
<1>1. ASSUME IInv, [Next]_vars, NEW j \in Jobs, disk[j].outcome \in Terminal
      PROVE  disk'[j].outcome = disk[j].outcome
  <2>1. OnRecord(j) /\ disk[j] \in Records \cup {NoRecord} /\ disk[j] # NoRecord
    BY <1>1, NoRecordFacts DEF IInv, StateOK
  <2>2. CASE UNCHANGED disk
    BY <2>2
  <2>3. ASSUME NEW c \in Clients, Admit(c)
        PROVE  disk'[j] = disk[j]
    <3>1. calls[c].job \in Jobs /\ disk[calls[c].job] = NoRecord
      BY <1>1, <2>3, UnderWay DEF Admit, IInv, CallInv, Admitting, At
    <3>. QED BY <2>1, <2>3, <3>1 DEF Admit
  <2>4. ASSUME NEW c \in Clients, WriteRecord(c)
        PROVE  disk'[j].outcome = disk[j].outcome
    <3>1a. PICK k \in Jobs : k = calls[c].job
      BY <1>1, <2>4, UnderWay DEF WriteRecord, IInv
    <3>1. PICK record :
              /\ k = calls[c].job /\ record = Recorded(c)
              /\ disk' = [disk EXCEPT ![k] = record] \/ UNCHANGED disk
      BY <1>1, <2>4, <3>1a DEF WriteRecord, Persist
    <3>2. run[k] # "none" /\ calls[c].arg \in Chunks
      BY <1>1, <2>4, <3>1 DEF WriteRecord, IInv, CallInv, Feeding, At
    <3>3. live[k] \in Records
      BY <1>1, <3>2 DEF IInv, StateOK, OnRecord
    <3>4. record.outcome = live[k].outcome
      <4>1. record = WithInput(live[k], calls[c].arg.digest)
        BY <3>1 DEF Recorded, WithInput
      <4>2. calls[c].arg.digest \in Digests
        BY <3>2 DEF Chunks
      <4>. QED BY <3>3, <4>1, <4>2, WithInputFacts
    <3>5. CASE k = j
      <4>1. live[j].outcome = disk[j].outcome
        BY <1>1, <2>1, <3>2, <3>5 DEF OnRecord
      <4>. QED BY <1>1, <3>1, <3>4, <3>5, <4>1 DEF IInv, StateOK
    <3>6. CASE k # j
      BY <1>1, <3>1, <3>6 DEF IInv, StateOK
    <3>. QED BY <3>5, <3>6
  <2>5. ASSUME NEW k \in Jobs, Settle(k)
        PROVE  disk'[j] = disk[j]
    <3>1. k # j
      BY <1>1, <2>1, <2>5 DEF OnRecord, Settle
    <3>. QED BY <1>1, <2>5, <3>1 DEF Settle, Persist, IInv, StateOK
  <2>6. CASE Next
    <3>1. ASSUME NEW c \in Clients,
                 Management(c) \/ Writing(c) \/ Wait(c) \/ Report(c) \/ Load(c)
                     \/ PollCheck(c) \/ WriteLock(c) \/ WriteClosed(c)
                     \/ ReserveFails(c) \/ Disconnect(c) \/ WriteFed(c)
          PROVE  UNCHANGED disk
      <4>1. CASE Management(c) \/ Writing(c)
        BY <4>1 DEF Management, Admission, BeginKnown, Reserve, ReserveRefused,
              PollFind, Stop, Writing, WriteFind, files
      <4>2. CASE ~(Management(c) \/ Writing(c))
        BY <3>1, <4>2 DEF Wait, Report, Load, PollCheck, WriteLock, WriteClosed,
              ReserveFails, Disconnect, WriteFed, files
      <4>. QED BY <4>1, <4>2
    <3>2. ASSUME NEW k \in Jobs,
                 RunEnded(k) \/ RunAbandon(k) \/ Close(k) \/ SessionEnds(k)
                     \/ Deadline(k)
          PROVE  UNCHANGED disk
      BY <3>2 DEF RunEnded, RunAbandon, Close, SessionEnds, Deadline, files
    <3>3. CASE Crash
      BY <2>2, <3>3 DEF Crash, files
    <3>. QED BY <2>2, <2>3, <2>4, <2>5, <2>6, <3>1, <3>2, <3>3
             DEF Next, Continue, Work
  <2>7. CASE UNCHANGED vars
    BY <2>7 DEF vars, files
  <2>. QED BY <1>1, <2>6, <2>7
<1>2. IInv /\ [Next]_vars
        => [\A j \in Jobs : disk[j].outcome \in Terminal
              => disk'[j].outcome = disk[j].outcome]_vars
  BY <1>1
<1>. QED BY <1>2, RecordsFollowJobs, PTL DEF Spec, OutcomeIsFinal

=============================================================================
