--------------------------- MODULE HarnessManager ---------------------------
(***************************************************************************)
(* The job supervisor of the harness runner (pkg/harnessrunner/manager.go):*)
(* concurrent calls to one Manager, the goroutine that runs each job, the  *)
(* command's session, and the record of each job on disk.                  *)
(*                                                                         *)
(* m.mu is free between the steps of a call except where the code blocks   *)
(* or writes files while it holds it: in reserve, and in WriteStdin while  *)
(* it waits for the job's inputMu.  A section that does neither is one     *)
(* step.  The process can be killed anywhere; files and nothing else stay. *)
(*                                                                         *)
(* Abstractions.  Requests are authorised and carry the binding of their   *)
(* job (a call that is refused for its authorization, binding, generation  *)
(* or cursor changes nothing).  A chunk of input is its sequence number    *)
(* and digest, and the admitted input is counted in chunks.  Output and    *)
(* its spools, exit codes and times are left out.                          *)
(***************************************************************************)
EXTENDS Integers, Sequences, FiniteSets

CONSTANTS
    Clients,   \* concurrent callers
    Jobs,      \* job ids: what an idempotency key and a run binding hash to
    Intents,   \* intent digests
    Timed,     \* the intents with Limits.WallTimeMs > 0; 0 is no wall time
    Digests,   \* digests of chunks of input
    MaxInput,  \* Limits.StdinBytes
    Free       \* the owner of a mutex nobody holds

ASSUME HarnessConstants ==
    MaxInput \in Nat /\ Free \notin Clients /\ Timed \subseteq Intents

VARIABLES
    attached,  \* m.jobs
    live,      \* the record in memory of each job admitted by this process
    disk,      \* job.json
    dirs,      \* the job directories
    ctx,       \* the context of each job
    closed,    \* jobs whose standard input pipe is closed
    session,   \* the command of each job
    run,       \* the goroutine of each job
    mu,        \* m.mu
    inputMu,   \* job.inputMu
    calls,     \* the call each client has under way, and its last answer
    starts,    \* history: how often the command of a job was started
    fed        \* history: the chunks the command has read

memory == <<attached, live, ctx, closed, session, run>>
files == <<disk, dirs>>
history == <<starts, fed>>
locks == <<mu, inputMu>>
vars == <<memory, files, locks, calls, history>>

NoRecord == [outcome |-> "none"]
NewRecord(i) == [outcome |-> "running", intent |-> i, inputs |-> <<>>]

\* What a call reports on: a copy of a record, or the record in memory.
Pointer == [outcome |-> "pointer"]

NoCall == [pc |-> "idle", said |-> "nothing"]
Idle(c) == calls[c].pc = "idle"
At(c, pc) == calls[c].pc = pc

Begin(c, call) == calls' = [calls EXCEPT ![c] = call]
Goto(c, pc) == calls' = [calls EXCEPT ![c].pc = pc]

\* The call returns; its answer is kept to state properties of it.
Answer(c, said) ==
    calls' = [calls EXCEPT ![c] = [@ EXCEPT !.pc = "idle", !.seen = NoRecord,
                                            !.said = said]]

Call(op, j, arg, pc, seen) ==
    [pc |-> pc, op |-> op, job |-> j, arg |-> arg, seen |-> seen,
     said |-> "nothing"]

\* A call that is answered by the section it starts with.
Reply(c, op, j, arg, said) ==
    Begin(c, [Call(op, j, arg, "idle", NoRecord) EXCEPT !.said = said])

(***************************************************************************)
(* begin: Execute and Start.                                               *)
(***************************************************************************)
\* The job is live, or its record is on disk: it is never run a second time.
BeginKnown(c, op, j, i) ==
    /\ Idle(c) /\ mu = Free
    /\ j \in attached \/ disk[j] # NoRecord
    /\ LET record == IF j \in attached THEN live[j] ELSE disk[j]
       IN IF record.intent # i THEN Reply(c, op, j, i, "bindingMismatch")
          ELSE Begin(c, Call(op, j, i, "report",
                             IF j \in attached THEN Pointer ELSE record))
    /\ UNCHANGED <<memory, files, locks, history>>

\* Mutant: a record that says "running" and is not attached is run again.
FreshUnlessFinished(j) ==
    j \notin attached /\ disk[j].outcome \in {"none", "running"}

Fresh(j) == j \notin attached /\ disk[j] = NoRecord /\ j \notin dirs

\* reserve creates the directory of the job ...
Reserve(c, op, j, i) ==
    /\ Idle(c) /\ mu = Free /\ Fresh(j)
    /\ dirs' = dirs \cup {j}
    /\ mu' = c
    /\ Begin(c, Call(op, j, i, "reserve", NoRecord))
    /\ UNCHANGED <<memory, disk, inputMu, history>>

\* ... which a former attempt may have left without a record.
ReserveRefused(c, op, j, i) ==
    /\ Idle(c) /\ mu = Free
    /\ j \notin attached /\ disk[j] = NoRecord /\ j \in dirs
    /\ Reply(c, op, j, i, "unavailable")
    /\ UNCHANGED <<memory, files, locks, history>>

\* A spool cannot be created, or the record cannot be written.
ReserveFails(c) ==
    /\ At(c, "reserve")
    /\ mu' = Free
    /\ Answer(c, "unavailable")
    /\ UNCHANGED <<memory, files, inputMu, history>>

\* The record is on disk before the job is attached and its goroutine starts.
Admit(c) ==
    /\ At(c, "reserve")
    /\ LET j == calls[c].job
       IN /\ disk' = [disk EXCEPT ![j] = NewRecord(calls[c].arg)]
          /\ live' = [live EXCEPT ![j] = NewRecord(calls[c].arg)]
          /\ attached' = attached \cup {j}
          /\ ctx' = [ctx EXCEPT ![j] = "open"]
          /\ session' = [session EXCEPT ![j] = "running"]
          /\ run' = [run EXCEPT ![j] = "await"]
          /\ starts' = [starts EXCEPT ![j] = @ + 1]
    /\ mu' = Free
    /\ calls' = [calls EXCEPT ![c] = [@ EXCEPT
                    !.pc = IF calls[c].op = "execute" THEN "wait" ELSE "report",
                    !.seen = Pointer]]
    /\ UNCHANGED <<dirs, closed, inputMu, fed>>

(***************************************************************************)
(* Execute and stop wait for job.done; every operation ends in             *)
(* resultForRecord, which reads the record under m.mu.                     *)
(***************************************************************************)
\* Mutant: job.done is not waited for.
WaitSkipped(c) ==
    /\ At(c, "wait")
    /\ Goto(c, "report")
    /\ UNCHANGED <<memory, files, locks, history>>

Wait(c) ==
    /\ At(c, "wait") /\ run[calls[c].job] = "end"
    /\ Goto(c, "report")
    /\ UNCHANGED <<memory, files, locks, history>>

\* The caller of Execute goes away: its context is the parent of the job's.
Disconnect(c) ==
    /\ At(c, "wait") /\ calls[c].op = "execute"
    /\ ctx[calls[c].job] = "open"
    /\ ctx' = [ctx EXCEPT ![calls[c].job] = "cancelled"]
    /\ UNCHANGED <<attached, live, closed, session, run, files, locks, calls,
                   history>>

\* A Cancel of an attached job reports "cancelled" whatever the record says.
Report(c) ==
    /\ At(c, "report") /\ mu = Free
    /\ LET seen == calls[c].seen
           record == IF seen = Pointer THEN live[calls[c].job] ELSE seen
       IN Answer(c, IF calls[c].op = "cancel" /\ seen = Pointer
                    THEN "cancelled" ELSE record.outcome)
    /\ UNCHANGED <<memory, files, locks, history>>

(***************************************************************************)
(* Poll, and stop: Signal and Cancel.                                      *)
(***************************************************************************)
PollFind(c, j) ==
    /\ Idle(c) /\ mu = Free
    /\ Begin(c, IF j \in attached THEN Call("poll", j, j, "check", live[j])
                ELSE Call("poll", j, j, "load", NoRecord))
    /\ UNCHANGED <<memory, files, locks, history>>

\* The file is read after m.mu was given up.
Load(c) ==
    /\ At(c, "load")
    /\ LET record == disk[calls[c].job]
       IN IF record = NoRecord THEN Answer(c, "jobNotFound")
          ELSE calls' = [calls EXCEPT ![c] = [@ EXCEPT
                   !.seen = record,
                   !.pc = IF calls[c].op = "poll" THEN "check" ELSE "report"]]
    /\ UNCHANGED <<memory, files, locks, history>>

\* A record that says "running" of a job that is not attached is ambiguous.
PollCheck(c) ==
    /\ At(c, "check") /\ mu = Free
    /\ LET seen == calls[c].seen
       IN calls' = [calls EXCEPT ![c] = [@ EXCEPT
              !.pc = "report",
              !.seen = IF seen.outcome = "running" /\ calls[c].job \notin attached
                       THEN [seen EXCEPT !.outcome = "ambiguous"] ELSE seen]]
    /\ UNCHANGED <<memory, files, locks, history>>

Stop(c, op, j) ==
    /\ Idle(c) /\ mu = Free
    /\ IF j \in attached
       THEN /\ ctx' = [ctx EXCEPT ![j] = IF @ = "open" THEN "cancelled" ELSE @]
            /\ closed' = closed \cup {j}
            /\ Begin(c, Call(op, j, j, "wait", Pointer))
       ELSE /\ Begin(c, Call(op, j, j, "load", NoRecord))
            /\ UNCHANGED <<ctx, closed>>
    /\ UNCHANGED <<attached, live, session, run, files, locks, history>>

(***************************************************************************)
(* WriteStdin.                                                             *)
(***************************************************************************)
WriteFind(c, j, chunk) ==
    /\ Idle(c) /\ mu = Free
    /\ IF j \in attached
       THEN /\ mu' = c
            /\ Begin(c, Call("stdin", j, chunk, "input", NoRecord))
       ELSE /\ Reply(c, "stdin", j, chunk, "unavailable")
            /\ UNCHANGED mu
    /\ UNCHANGED <<memory, files, inputMu, history>>

\* Mutant: the job's inputMu is given up together with m.mu.
InputLockGivenUp(c, j) == UNCHANGED inputMu

\* The job's inputMu is kept until the call returns.
InputLock(c, j) == inputMu' = [inputMu EXCEPT ![j] = c]

Refusal(record, chunk) ==
    LET inputs == record.inputs
    IN CASE Len(inputs) + 1 > MaxInput -> "outputLimit"
         [] chunk.seq \in DOMAIN inputs /\ inputs[chunk.seq] = chunk.digest ->
                "accepted"
         [] chunk.seq \in DOMAIN inputs /\ inputs[chunk.seq] # chunk.digest ->
                "bindingMismatch"
         [] chunk.seq \notin 1 .. Len(inputs) + 1 -> "invalidRequest"
         [] OTHER -> "none"

\* m.mu is held while inputMu is waited for.
WriteLock(c) ==
    /\ At(c, "input") /\ inputMu[calls[c].job] = Free
    /\ mu' = Free
    /\ LET j == calls[c].job
           refusal == Refusal(live[j], calls[c].arg)
       IN IF refusal # "none"
          THEN Answer(c, refusal) /\ UNCHANGED inputMu
          ELSE Goto(c, "pipe") /\ InputLock(c, j)
    /\ UNCHANGED <<memory, files, history>>

\* The command reads the chunk from the pipe, or never does.
WriteFed(c) ==
    /\ At(c, "pipe")
    /\ calls[c].job \notin closed
    /\ session[calls[c].job] \in {"running", "abandoned"}
    /\ fed' = [fed EXCEPT ![calls[c].job] = Append(@, calls[c].arg)]
    /\ Goto(c, "record")
    /\ UNCHANGED <<memory, files, locks, starts>>

\* Mutant: a write that failed is reported as accepted.
WriteClosedQuietly(c) ==
    /\ At(c, "pipe") /\ calls[c].job \in closed
    /\ inputMu' = [inputMu EXCEPT ![calls[c].job] = Free]
    /\ Answer(c, "accepted")
    /\ UNCHANGED <<memory, files, mu, history>>

WriteClosed(c) ==
    /\ At(c, "pipe") /\ calls[c].job \in closed
    /\ inputMu' = [inputMu EXCEPT ![calls[c].job] = Free]
    /\ Answer(c, "unavailable")
    /\ UNCHANGED <<memory, files, mu, history>>

\* persistRecord replaces the file in one rename; its error is dropped.
Persist(j, record) == \/ disk' = [disk EXCEPT ![j] = record]
                      \/ UNCHANGED disk

\* Mutant: the record written is the one the job had when it was found.
RecordedStale(c) ==
    LET j == calls[c].job
    IN [live[j] EXCEPT !.inputs = Append(@, calls[c].arg.digest),
                       !.outcome = "running"]

\* The input is recorded in the record in memory, whatever became of the job.
Recorded(c) ==
    LET j == calls[c].job
    IN [live[j] EXCEPT !.inputs = Append(@, calls[c].arg.digest)]

WriteRecord(c) ==
    /\ At(c, "record") /\ mu = Free
    /\ LET j == calls[c].job
       IN /\ live' = [live EXCEPT ![j] = Recorded(c)]
          /\ Persist(j, Recorded(c))
          /\ inputMu' = [inputMu EXCEPT ![j] = Free]
    /\ Answer(c, "accepted")
    /\ UNCHANGED <<attached, ctx, closed, session, run, dirs, mu, history>>

(***************************************************************************)
(* The command, its context, and run.                                      *)
(***************************************************************************)
SessionEnds(j) ==
    /\ session[j] \in {"running", "abandoned"}
    /\ session' = [session EXCEPT ![j] = "ended"]
    /\ UNCHANGED <<attached, live, ctx, closed, run, files, locks, calls, history>>

\* The wall time is over, of a job that has one.
Deadline(j) ==
    /\ run[j] \in {"await", "settle"} /\ ctx[j] = "open"
    /\ live[j].intent \in Timed
    /\ ctx' = [ctx EXCEPT ![j] = "deadline"]
    /\ UNCHANGED <<attached, live, closed, session, run, files, locks, calls,
                   history>>

\* awaitSession returns: the command has ended ...
RunEnded(j) ==
    /\ run[j] = "await" /\ session[j] = "ended"
    /\ run' = [run EXCEPT ![j] = "settle"]
    /\ UNCHANGED <<attached, live, ctx, closed, session, files, locks, calls,
                   history>>

\* Mutant: the command is waited for although its context is done.
RunAbandonNever(j) ==
    /\ run[j] = "await" /\ session[j] = "running" /\ ctx[j] = "none"
    /\ UNCHANGED vars

\* ... or abandonGrace after its context was done it is abandoned.
RunAbandon(j) ==
    /\ run[j] = "await" /\ session[j] = "running" /\ ctx[j] # "open"
    /\ session' = [session EXCEPT ![j] = "abandoned"]
    /\ run' = [run EXCEPT ![j] = "settle"]
    /\ UNCHANGED <<attached, live, ctx, closed, files, locks, calls, history>>

\* The outcome is read off the context, after the command ended.
Outcome(j) == CASE ctx[j] = "deadline" -> "timedOut"
                [] ctx[j] = "cancelled" -> "cancelled"
                [] OTHER -> "completed"

Settle(j) ==
    /\ run[j] = "settle" /\ mu = Free
    /\ LET record == [live[j] EXCEPT !.outcome = Outcome(j)]
       IN /\ live' = [live EXCEPT ![j] = record]
          /\ Persist(j, record)
    /\ attached' = attached \ {j}
    /\ run' = [run EXCEPT ![j] = "close"]
    /\ UNCHANGED <<ctx, closed, session, dirs, locks, calls, history>>

\* The deferred calls: both ends of the pipe are closed, then job.done.
Close(j) ==
    /\ run[j] = "close"
    /\ closed' = closed \cup {j}
    /\ run' = [run EXCEPT ![j] = "end"]
    /\ UNCHANGED <<attached, live, ctx, session, files, locks, calls, history>>

(***************************************************************************)
(* The process is killed, and another one opens the same root.             *)
(***************************************************************************)
Crash ==
    /\ attached' = {} /\ closed' = {}
    /\ live' = [j \in Jobs |-> NoRecord]
    /\ ctx' = [j \in Jobs |-> "open"]
    /\ session' = [j \in Jobs |-> "none"]
    /\ run' = [j \in Jobs |-> "none"]
    /\ mu' = Free /\ inputMu' = [j \in Jobs |-> Free]
    /\ calls' = [c \in Clients |-> NoCall]
    /\ UNCHANGED <<files, history>>

(***************************************************************************)
(* The specification.                                                      *)
(***************************************************************************)
Init ==
    /\ attached = {} /\ closed = {}
    /\ live = [j \in Jobs |-> NoRecord]
    /\ ctx = [j \in Jobs |-> "open"]
    /\ session = [j \in Jobs |-> "none"]
    /\ run = [j \in Jobs |-> "none"]
    /\ mu = Free /\ inputMu = [j \in Jobs |-> Free]
    /\ calls = [c \in Clients |-> NoCall]
    /\ disk = [j \in Jobs |-> NoRecord] /\ dirs = {}
    /\ starts = [j \in Jobs |-> 0]
    /\ fed = [j \in Jobs |-> <<>>]

Chunks == [seq : 1 .. MaxInput, digest : Digests]

Admission(c) ==
    \E op \in {"execute", "start"}, j \in Jobs, i \in Intents :
        BeginKnown(c, op, j, i) \/ Reserve(c, op, j, i) \/ ReserveRefused(c, op, j, i)
Management(c) ==
    \/ Admission(c)
    \/ \E j \in Jobs : PollFind(c, j)
    \/ \E j \in Jobs, op \in {"signal", "cancel"} : Stop(c, op, j)
Writing(c) == \E j \in Jobs, chunk \in Chunks : WriteFind(c, j, chunk)

Continue(c) ==
    \/ Admit(c) \/ Wait(c) \/ Report(c) \/ Load(c) \/ PollCheck(c)
    \/ WriteLock(c) \/ WriteClosed(c) \/ WriteRecord(c)

Work(j) == RunEnded(j) \/ RunAbandon(j) \/ Settle(j) \/ Close(j)

Next ==
    \/ \E c \in Clients : \/ Management(c) \/ Writing(c) \/ Continue(c)
                          \/ ReserveFails(c) \/ Disconnect(c) \/ WriteFed(c)
    \/ \E j \in Jobs : Work(j) \/ SessionEnds(j) \/ Deadline(j)
    \/ Crash

Spec == Init /\ [][Next]_vars

\* Goroutines go on and a wall time, if any, passes.  Whether a command reads
\* its input or ends is its own affair.
Fairness == /\ \A c \in Clients : WF_vars(Continue(c))
            /\ \A j \in Jobs : WF_vars(Work(j)) /\ WF_vars(Deadline(j))

(***************************************************************************)
(* Correctness.                                                            *)
(***************************************************************************)
Terminal == {"completed", "timedOut", "cancelled"}
Records == [outcome : Terminal \cup {"running"}, intent : Intents,
            inputs : Seq(Digests)]

\* The shape of the state: a job is attached while its goroutine has not
\* settled it, and each mutex is held exactly by the call that took it.
TypeOK ==
    /\ attached = {j \in Jobs : run[j] \in {"await", "settle"}}
    /\ live \in [Jobs -> Records \cup {NoRecord}]
    /\ disk \in [Jobs -> Records \cup {NoRecord}]
    /\ dirs \subseteq Jobs /\ closed \subseteq Jobs
    /\ ctx \in [Jobs -> {"open", "cancelled", "deadline"}]
    /\ session \in [Jobs -> {"none", "running", "abandoned", "ended"}]
    /\ run \in [Jobs -> {"none", "await", "settle", "close", "end"}]
    /\ mu \in Clients \cup {Free}
    /\ inputMu \in [Jobs -> Clients \cup {Free}]
    /\ \A c \in Clients :
          /\ calls[c].pc \in {"idle", "reserve", "wait", "report", "load",
                              "check", "input", "pipe", "record"}
          /\ ~Idle(c) => calls[c].job \in Jobs
          /\ mu = c <=> At(c, "reserve") \/ At(c, "input")
          /\ \A j \in Jobs :
                inputMu[j] = c <=> /\ At(c, "pipe") \/ At(c, "record")
                                   /\ calls[c].job = j

\* The command of a job runs at most once, whatever is retried, whoever dies
\* and whenever: not even a job whose record still says "running" is rerun.
AtMostOnce == \A j \in Jobs : starts[j] <= 1

\* The command reads the chunks in sequence and none twice, however many
\* callers send and resend them.
FedInSequence ==
    \A j \in Jobs : \A n \in DOMAIN fed[j] : fed[j][n].seq = n

\* A chunk acknowledged as accepted has been read by the command.
AcceptedWasFed ==
    \A c \in Clients :
        calls[c].said = "accepted" =>
            \E n \in DOMAIN fed[calls[c].job] : fed[calls[c].job][n] = calls[c].arg

\* A stop that reports an end is a barrier: the goroutine of the job has closed
\* its spools and renamed its record, and touches neither again.
StopIsBarrier ==
    \A c \in Clients :
        /\ calls[c].said \in Terminal
        /\ calls[c].op \in {"signal", "cancel"}
        => run[calls[c].job] \in {"none", "close", "end"}

\* The outcome on file is settled once: neither a late record of input nor
\* another call rewrites it.
OutcomeIsFinal ==
    [][\A j \in Jobs : disk[j].outcome \in Terminal
          => disk'[j].outcome = disk[j].outcome]_vars

\* A second writer of a job waits for its inputMu with m.mu in its hands.
Jammed == \E c \in Clients : /\ At(c, "input") /\ inputMu[calls[c].job] # Free

\* A job that has a reason to end: a wall time, a context that is done, or a
\* command that has ended.  Any other waits for its command as long as it takes.
Bounded(j) == \/ live[j] # NoRecord /\ live[j].intent \in Timed
              \/ ctx[j] # "open"
              \/ session[j] = "ended"

\* What run promises of a command that outlives its wall time or a cancel: its
\* job settles all the same.
EveryJobSettles == \A j \in Jobs : j \in attached /\ Bounded(j) ~> j \notin attached

\* A call that waits for the end of a job, or for its command to read, while
\* the job has no reason to end.
AwaitsUnbounded(c) ==
    (At(c, "wait") \/ At(c, "pipe")) /\ ~Bounded(calls[c].job)

\* Every job that has a reason to end settles, and every call returns that does
\* not wait for one that has none, unless writers are jammed.
SettlesUnlessJammed ==
    /\ \A j \in Jobs : j \in attached /\ Bounded(j) ~> j \notin attached \/ Jammed
    /\ \A c \in Clients : ~Idle(c) ~> Idle(c) \/ AwaitsUnbounded(c) \/ Jammed
=============================================================================
