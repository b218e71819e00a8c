# A verification project for bashy

TLA+ models of the parts of bashy that keep state and run concurrently, the TLC
runs that check them on small instances, and proofs that the TLA+ proof system
checks for every value of the constants. Paths below are relative to `src/`.

## 1. The system

bashy is one binary: a shell front end (`internal/cli`), the *agentos* verbs
around it (`internal/agentos`), a few libraries (`pkg/`), and a task runner
(`dhnt/`). The interpreter, the fleet catalog, the coordination store, the
inbox queue and the session store are dependencies whose code is not in this
repository. What keeps state *here*, and what is hard about it:

| component | state | operations | interacts with | what is hard | what makes it correct |
|---|---|---|---|---|---|
| service monitor (`internal/agentos/supervisord_monitor.go`) | one `unitRun` per unit: state, generation, busy, waiting, latched, held, dirty | message handlers and `stepAll` | providers (goroutines that answer by message), registry (poll, reload), control socket, signals | late answers, edits and signals at any moment, fixpoint over dependencies | no stray process, nothing busy for ever, only wanted units run, shutdown ends |
| restart policy (`supervisord_policy.go`) | backoff ladder, window of start times | `delay`, `allow`, `reset` | monitor | boundaries of the window and of the ladder | never more than `burst` starts inside a window; delays between min and max |
| process provider (`supervisord_process.go`) | one `procUnit` per unit, its process, its log | Activate, Configure, Deactivate, Health, `wait` | monitor (events), reaper, ownership records | exit against stop; stale Configure | at most one process per unit |
| control socket, delegated provider (`supervisord_ipc.go`) | the socket file; what each owner was asked and reported | serve, desired, report | monitor, other bashy processes | two monitors, late reports | one monitor per home |
| ownership records (`supervisord_owner.go`) | one file per live process | record, reclaim | process provider, next monitor | a monitor killed hard, a pid used again | no orphan survives the next start, no foreign process is killed |
| orphan reaper (`supervisord_linux.go`) | map of statuses collected for somebody | collect, track, take | `exec.Cmd.Wait` | the reaper's wait4 against the owner's | every status reaches its waiter |
| activity outbox (`internal/agentos/activity`) | append-only journal of events and deliveries, declared interests | Emit, Recover, Subscribe, Unsubscribe, prune | the bus (inboxes, wake-ups) | crash in mid fan-out, torn lines, retries with other inputs | a debt is settled only when all are served, and is settled in the end; a wake follows its copy |
| harness runner (`pkg/harnessrunner`) | jobs in memory, records and directories on disk, two kinds of mutex | Execute, Start, Poll, Signal, Cancel, WriteStdin, run | commands, callers that retry | retry of what was done, stop and timeout races, lock order | one run per job; input once and in order; every job settles |
| dhnt (`dhnt/`) | artifacts, commit manifests and evidence on a shared workspace | run a task, publish, commit, record; place and aggregate (pure) | the commands of tasks, other attempts, Argo | a crash between two links; two attempts at once; one path of two tasks | a commit manifest stands for outputs that are all there |
| inbox (`internal/agentos/inbox*.go`) | a cursor per source, marks per record, poll gate, notifier, room card, lease | watch: claim, join, adopt, poll, render, acknowledge; turn delivery | the stores of dependencies, native file events, agent sessions | arrivals between a look and a commit, lost events, a session that ends, limits | nothing consumed unseen; nothing waits for ever; no orphan consumes |
| steward (`internal/agentos/steward*.go`) | session record, stop outcome, supervisor process | start, stop, supervise, wrap up, announce messages | the seat and its epochs, the room, the bus, agents | two starts, a stop against a wrap-up, a tenure that passes | a report is of this stop; a stopped tenure is over; a fenced supervisor stands down |
| sprints (`sprint*.go`) | watch cursors | watch, wait | the sprint record of a dependency | stale owner, wake-up lost | every change is seen |
| shell front end (`internal/cli`) | options, terminal, the process carrier | start-up, interactive loop | the interpreter (dependency) | signals, terminal ownership | mostly outside this repository |
| adapters and reports (the rest of `internal/agentos`) | none that outlives a command | one shot per invocation | external programs | — | — |

`PROJECT.json` lists every part under `components`, with the reason where one is
not modelled, and the hazards of the code at their lines under `hazards`.

## 2. The plan

Ordered by how much of the running system depends on it.

1. **SupervisorMonitor** (done): the loop with its providers, messages, probes,
   timers, control requests, edits and signals. `MCSupervisorMonitor` holds the
   instances; `SupervisorMonitorProofs` proves its types, its bookkeeping of
   generations, the custody of its processes and the fixpoint of its sweep.
   `UnitLifecycle` is the abstract promise for one unit, which the monitor
   implements: checked, and proved.
2. **MonitorSuccession** (done): one monitor after another over the same home:
   socket ownership, ownership records, a monitor killed hard, the reclaim of the
   next one. `MCMonitorSuccession` holds the instances, `MonitorSuccessionProofs`
   the theorems.
3. **ActivityRouting, AtLeastOnceDelivery, ActivityOutbox** (done): the journal
   with crashes in every step, and the abstract channel that it implements.
   `ActivityOutboxProofs` proves all of its safety and the refinement.
4. **HarnessManager** (done): admission, input, stop, timeout and crash of jobs.
   `HarnessManagerProofs` proves all of its safety.
5. **InboxWatch** (done): the consuming watch of one identity.
   `InboxWatchProofs` proves all of its safety.
6. **StewardSession** (done): start, stop and supervision of a host's steward.
   `StewardSessionProofs` proves all of its safety.
7. **StartPolicy** (done): the backoff ladder and the start limiter with their
   clock, the detail that SupervisorMonitor abstracts as "any number of starts may
   have left the window"; proved for every burst, window and ladder.
8. **OrphanReaper** (done): wait4 of the reaper against the wait of the owner.
9. **DhntTask** (done): attempts of tasks that share a workspace.
10. **SprintWatch** and **Ladder** as far as the code in this repository decides
    them.

Composition: ActivityOutbox hands copies to the bus that InboxWatch consumes; the
bus is outside the repository, and each module states what it relies on.
OrphanReaper's wait replaces the `Waited` step of MonitorSuccession, whose `Fork`
and `RecordOwner` are the Activate that SupervisorMonitor takes as one step; a
module that joins the three states the promise a user relies on, one process per
unit across loops and monitors.

Left to do: 10, the module that joins the three, the monitor's bounded queue of
messages, TypeOK of the inbox with a limit, which is proved without one, and the
liveness properties, which are only checked (section 6).

## 3. SupervisorMonitor and the code

The loop owns all of `m.units`; the module keeps it as `monitored` (the keys) and
`run` (the records). The other variables are what the loop exchanges messages
with. Of a declaration the model keeps what the loop decides by: the provider, the
requirements, the restart policy and its limits, whether there is a probe and a
start period. An edit may change all of these, and `Reload` takes them over for a
unit in any state, as the code does: what it hands to another provider while it
runs stays in the entry of the old one.

| variable | code |
|---|---|
| `registry` | the fleet catalog on disk, edited by any command (external) |
| `decl[u]` | `u.decl`, `u.pol`, `u.limit.burst` and `u.prov` of a monitored unit, as the last reload that found a change left them |
| `run[u].st, gen, busy, waiting, latched, held, dirty, adhoc, gone` | the fields of `unitRun` of those names (`st` is `st.State`) |
| `run[u].enabled`, `run[u].print` | `decl.Enabled` and `declFingerprint(decl)`: two copies of the enabled bit, as in the code |
| `run[u].starts` | how many starts the limiter still remembers |
| `life` | history only: which incarnation of the *name* a message is about |
| `prov[u][k]` | the entry of the process or the delegated provider: the incarnation of `u` that it runs |
| `calls` | goroutines started by `activate`, `deactivate`, `configure`, until their message is handled, each with the provider it captured (`via`) |
| `probes`, `timers`, `pevents` | goroutines of `tick`, timers of `later`, `msgProvider` |
| `stopping`, `cancelled` | `m.stopping`, and `m.ctx` done after a second signal |
| `pc`, `sweep` | where the loop is: in its select, inside `stepAll` (pass, next unit, changed), returned |

Each message handler is one action that ends in `StepAll`, as `handle` does; the
poll branch alone does not step. `stepAll` itself is a sequence of actions, one
per unit that has something to do, in name order, pass after pass until nothing
changes or the bound on passes is reached; then `EndPass` prunes. A handler's
calls are all in its action: `OnProviderExit` is the quiet `deactivate`, and
`AfterExit` with its reread of the enabled bit is part of the `OnDeactivated`
that runs the captured `then`.

Abstractions. Messages are sets, not a queue: each is posted by a goroutine of its
own that can be delayed before its send, so any order is possible. Goroutines move
only while the loop is in its select; a sweep reads nothing they write. Durations
are nondeterministic. A Deactivate ends when its answer is handled; its process is
counted as alive until then. Reasons, the restart counter, the health text and the
events written to the log are left out: nothing reads them back. Once the context
is done (`cancelled`), `LoseAnswer`, `LoseProbe`, `LoseEvent` and `LoseTimer` may
drop any message at its `post`. Several probe
chains of one generation are one element of a set. A unit whose provider does not
exist (`no provider`) is not in the module. Declarations whose requirements form a
cycle are in the module and not in the instances; the registry refuses them.

`UnitLifecycle` is what all of this is for, stated of one unit with three
variables: the stage it is in, whether a process of it exists, whether it may be
started. The refinement (`EveryUnitLives`, one instance per unit) takes the stage
of a busy unit from the call it waits for: `starting` is an Activate that has not
started its process yet, so a stop asked for in the meantime, a second start, a
start over a process that is still there, and a unit forgotten before its stop
was answered are all steps the abstract unit does not have. After a second signal
answers may be lost and nothing is promised (`abandoned`).

### MonitorSuccession and the code

`supervisord_service.go` starts a monitor in a straight line: `serveControl`
(`Probe`, `RemoveSocket`, `Listen`), `reclaimOrphans` (`ReclaimSkip`,
`ReclaimSignal`, `ReclaimKill`, `ReclaimDone`, one record after another), then the
loop (`RunLoop`). Every system call another process can observe is a step of its
own, and `Crash` may come between any two.

| variable | code |
|---|---|
| `procs` | the system's process table: what each pid is, its start time, its parent (external) |
| `clock` | the start time the next process gets: never used again, while pids are |
| `sock` | whose listener the socket file leads to; `Nobody` when there is no file |
| `records` | `owner.json` of each unit: identity (pid and start) of the child and of its monitor |
| `mons[p].pc` | where the monitor with pid `p` is, from the probe to the end |
| `mons[p].todo`, `victim` | the records its glob listed and has not visited; the orphan it has signalled |
| `mons[p].child` | a `procUnit`: forked and not recorded, up, waited for and its record not yet removed |

A process that ends is a zombie until its monitor waits for it, and has no
identity as such (`procStartTime` refuses zombies); a pid is free again only
after that. What the loop decides is left to SupervisorMonitor: here it forks
and reaps at will. Three abstractions to know of: reading an identity and
signalling its pid is one step (the code's window is between two adjacent system
calls); writing a record succeeds; KILL ends a process, so the message that an
orphan survived it does not appear. A monitor answers the probe's `status` once
its loop runs and not before, because the loop is what takes the request; a loop
too busy to answer within the probe's second is not modelled.

### ActivityOutbox and the code

`Emit` and `Recover` run from the first read to the last write under one kernel
lock, so `op` holds the one operation under way; but the process that runs it can
be killed between any two steps (`Killed`), and each append can leave nothing, a
fragment or a line without its end (`AppendCut`).

| variable | code |
|---|---|
| `journal`, `tail`, `torn` | `outbox.jsonl` as `load` folds it, by event id with the latest line winning: what its ended lines say, what a last line without its newline says if it can be read, and whether there is such a line |
| `interests` | `interests.json` |
| `op` | the locals of `Emit` or `Recover`: the records it loaded, the record it delivers, who was tried, where it is |
| `copies`, `steered` | the bus: durable copies, and frames pushed into live sessions (history) |
| `now` | `Now()` |
| `whole` | history only: no append has been cut inside its line so far |
| `lapses` | history only, per event: operations on it that were cut short, lines of it that were lost, prunings of it |

| action | code |
|---|---|
| `EmitNew`, `EmitResumed` | `Emit` up to its first append: a new id is routed and numbered; an id on file that is not published is taken up with the recipients it has |
| `JournalFirst` | the append before anything is sent |
| `Publish`, `PublishFails`, `Wake` | `deliver`, one recipient after another in the order of the route; a failed publication goes on to the next |
| `Conclude` | the append of what was served; Emit prunes after it, Recover goes on to the next record owed |
| `Prune` | rewriting the journal without the oldest settled records beyond `MaxRecords` |
| `Recover` | loading the journal and taking up the first record that is owed |
| `Killed`, `AppendFails` | the process dies; an append returns an error and the operation returns with it |

`ActivityRouting` is `route.go`: who is told of an event, for which reason, and
whether that reason may wake. `AtLeastOnceDelivery` is what the outbox promises:
an accepted event is owed to a fixed set of recipients, copies are handed over in
any order and perhaps more than once, a debt is settled only when every recipient
has a copy, and only what is settled is forgotten. The mapping takes `owed` from
the unpublished records of the fold and `settled` from the published ones.
Abstractions: the id is the identity that `computeID` hashes, with envelopes of
one id that differ in their routing inputs; outcomes of a wake other than
"steered" are reporting; and the order of the fold, by source and number, is a
relation on records (`Before`, `First`, `Oldest`) and no list: two records of one
source and number would be in the order of their first lines, and SequencesDiffer
says that there are no two.

### HarnessManager and the code

| variable | code |
|---|---|
| `attached`, `live` | `m.jobs` and the `jobRecord` each `liveJob` holds |
| `disk`, `dirs` | `job.json`, and the directory that `os.Mkdir` made |
| `ctx`, `closed`, `session`, `run` | the job's context, its input pipe, its command, the goroutine `run` |
| `mu`, `inputMu` | the two mutexes, where they are held across a step |
| `calls` | a call of each client: where it is, and its last answer |
| `starts`, `fed` | history: how often a command was started, what it has read |

A section that holds `m.mu` and neither blocks nor writes files is one step.
`Reserve` and `Admit` are two because a crash, or a spool that cannot be created
(`ReserveFails`), may come between; `WriteFind`, `WriteLock`, `WriteFed` and
`WriteRecord` are the four sections of WriteStdin, of which the third has only
`inputMu`. `persistRecord` may fail silently, as its callers drop its error
(`Persist`). What a command does is its own affair: it reads or not, ends or not.
A job may be declared without a wall time (`Timed`); its context then has no
deadline.

### InboxWatch and the code

| variable | code |
|---|---|
| `log`, `cursor` | the board and one Meet room, with the reader's cursor in each (external) |
| `marks` | the mailbox state: records acknowledged one by one |
| `epoch`, `queued`, `armed` | `inboxChangeNotifier`: its counter, a native event on its way, whether it watches |
| `gate`, `rescan` | `inboxPollGate`: the last fingerprint; `fullRescan` has passed |
| `card`, `watch`, `turn` | the room card; the watch that holds the lease; a delivery at a turn |
| `rendered`, `missed`, `orphaned` | history |

The loop of `runUnifiedInboxWithPoll` is `Check` (is the owner there), `Sample`
(fingerprint before the read), `ReadBoard`, `ReadMeet`, `Render`, `Ack`, `Pause`,
with `Join`, `Adopt` and `Refused` before it and `Ends` or `Killed` anywhere. A
watch adopts the card of the managed session it runs in, or one that a `--peek` of
its session filed (`Peek`), which is live until the process that holds it ends
(`PeekLapses`); with the latter it has no owner to look at. Two
sources stand for all, chosen because a Meet room can hold copies of what is on
the board. A batch keeps the acknowledgments in the order of the code, so a watch
can be killed between two of them.

### StewardSession and the code

| variable | code |
|---|---|
| `session`, `outcome` | `session.json`, `stop-outcome.json` |
| `seat`, `exported`, `room` | the authority and its epoch, the epoch in a shell's environment, the seat's room (external) |
| `start[s]`, `stop[x]` | the runs of `steward start` and `steward stop`, at each step another process can observe |
| `sup[s]` | the supervisor that the start in shell `s` spawned: its pid is `s` |
| `notes` | handoff notes that were written |
| `inbox`, `told` | messages at the seat and on the board; those a delivered notice pointed at |

Every read or write of a shared file, every signal and every call on the seat is
a step of its own; `StartDies`, `AgentEnds` and `SupCrashes` come anywhere. The
time limits are nondeterministic: a wait gives up or not. The release of the seat
may fail or be refused, which the code reports and goes on from with the seat held
(`WrapRelease`, `StopRelease`); that such a seat "will lapse on its own" is the
authority's affair and no step of the module.

### StartPolicy and the code

One unit's limiter and ladder over a clock. Durations are integers.

| variable | code |
|---|---|
| `policy` | `u.pol`, the `unitPolicy` that policyOf resolves |
| `starts`, `next` | `limit.starts` and `ladder.next` |
| `term`, `admitted`, `waits` | history only: how often the starts were forgotten or the policy set, every start that was admitted, the last two delays |

What asks for a start or a delay, and when, is SupervisorMonitor's; here both may
be asked for at any time. The module has its theorems and no run.

### OrphanReaper and the code

| variable | code |
|---|---|
| `procs`, `next` | the kernel's process table; processes are numbered, and a number stands for the status of its process (external) |
| `kids[c]` | one `startTracked` and the `Wait` that follows: where it is, the child, what its own wait gave it, what it returned |
| `mains`, `spawning`, `stash` | the fields of `reaper`; `orphans` are those it has counted |
| `chld`, `reap` | the channel of one SIGCHLD, and the locals of `reap` |

A section under `r.mu` is one step, and each wait one of its own: `Wait4` and
`Store` are two because the lock is taken after the system call returns, and
`WaitCollects` or `WaitFindsNoChild` and `Take` are two because Go's Wait returns
in between, perhaps much later when output has still to be copied. `Reuse` says
whether the kernel gives a pid out again.

### DhntTask and the code

| variable | code |
|---|---|
| `file`, `manifest` | what is at each artifact's path and at each task's `commitManifestPath` |
| `evidence` | the record an attempt left under its pod's name |
| `run[a]` | the locals of `ExecuteTask`: where it is, the outputs still to visit, those seen before the command, whether the manifest was, the class it decided |
| `spoiled`, `meddled` | history: whose commands damaged a right file at each path; the tasks whose manifest a command forged or undid |

`ExecuteTask` is a straight line; each look at the workspace is a step with the use
of its answer, except before the two links, which are steps of their own because
another attempt may create the file first. Any error path can be taken at any look
(`Fails`), and the pod can be killed anywhere (`Crash`). The command may create,
change or remove any artifact and any manifest of the workspace, its own inputs and
published outputs among them (`Intrude`), which is what the looks after it are for;
the evidence, which is kept under the pods' names, it does not touch. `Overlap` lets a task be
retried while an attempt of it is alive.

## 4. What the runs check

### The monitor

These runs use `MCSupervisorMonitor`: the module with a budget for everything that
comes from outside (`Faults`, `Requests`, `Edits`, `Signals`). The budgets bound
only these; the loop, its messages, healthy answers, polls and reloads are
unlimited, so every run is complete for its budget and deadlock is checked in all
of them. Units: `app` requires `db` (and in the chain `db` requires `net`). Two
units are enough for everything that relates a unit to a dependency, three for
what passes through one; the order of names, which decides the order of a sweep,
is tried both ways (`DependentFirst`, `DependencyFirst`). The `burst` and
`healthFailures` of every declaration are 2, so that a start and a failed probe
both exist that are counted and not refused. No edit of these runs moves a unit to
another provider; section 5 says what happens when one does.

| run | budget | what it shows |
|---|---|---|
| MonitorFaults | `db` internal, `app` a probed process; 2 faults, 1 request | TypeOK, Bookkeeping, BusyIsAnswered, Custody, RunningIsWatched, WaitingHasTimer, EveryUnitLives with exits, refusals, failed probes, owners' reports and requests anywhere |
| MonitorChain | 3 units; 2 faults, 2 signals | stepAll reaches its fixpoint within its bound (SweepSettles); a dependency is stopped after its dependents are gone (DependentsStopFirst); after a signal the monitor exits or is signalled again (ShutdownCompletes); when the loop has returned nothing is left running and nothing will start (ExitLeavesNothing) |
| MonitorConverges | 1 fault, 1 edit, any initial registry; an edit may take back that `app` requires `db`, or ask for it, and leaves each unit its provider | after the last edit every unit ends where its declaration wants it (Converges), and every unit, also one that is removed in any state or declared then, lives as promised (EveryUnitLives) |

### The succession of monitors

This run uses `MCMonitorSuccession`, whose one bound is the number of processes
ever started (`LastStart`). Three pids and two units: a monitor, a unit's process
and a stranger can exist at once, and pids are soon used again. In
SuccessionCrash monitors come one after another (`Overlap = FALSE`): six starts
are two monitors with two processes each and two strangers, or three monitors
with a process each. The system really may stop (no more processes to start), so
deadlock is not checked.

| run | what it shows |
|---|---|
| SuccessionCrash | whatever is killed between whatever steps: a record that still names a process names a child of its monitor (OwnershipKnown); a reclaim signals and kills orphans only (SparesForeign); no second process of a unit is started while a recorded one lives (RecordedIsAlone); a monitor alone gets to its loop (AloneIsServed) |

OwnershipKnown and SparesForeign are proved with overlapping monitors too
(section 6). RecordedIsAlone is not true then (section 5), and proved without.

### The outbox

OutboxDelivery: two sources, two subscribers and the four envelopes of three
events, one of them announced with two different sets of recipients; three
announcements (a repetition of an event whose debt is open costs nothing), and two
disturbances, each a kill, an append or a publication that fails, a change of an
interest or a tick of the clock. `MaxRecords` is 1, so that everything settled but
one record is pruned. An append that does not complete leaves nothing, a fragment,
or a line that lacks only its end. Two disturbances are enough for a line that is
torn under an operation and a second failure while it is repaired, or for a change
of the interests between a failure and the retry. When no budget is left the system
stops, so deadlock is not checked.

| property | what it says |
|---|---|
| SequencesDiffer | no two records on file of a source have one number, whatever was pruned in between |
| DeliveredRight | a recipient holds a second copy only where an operation was cut short, a line was lost or the record pruned, and no frame is pushed at it before its copy |
| WakeIsNotOutranked | of all the reasons that compete for a recipient, one that wakes is not lost to one that does not |
| OutboxIsAChannel | the refinement: until an append is first cut inside its line, the outbox implements AtLeastOnceDelivery. A torn line takes the next record along (CopiesLeaveEvidence, section 5), and what was owed under it with it |
| EveryDebtIsSettled | what is owed is settled, as long as `recover` is run again and again, after torn lines too |

### The harness runner

HarnessJobs: two callers and one job, two intents, a limit of two chunks of
input; four requests or crashes in any mix. One job is enough for everything but
two jobs that share `m.mu`, and the jammed writers already show what that lock
does to the rest. Two callers are needed by every race of the module; the budget
lets an input be sent, resent and stopped, or a job be admitted, killed, and
retried twice. One of the intents declares a wall time, the other none.

| property | what it says |
|---|---|
| AtMostOnce | the command of a job is started at most once, through retries and crashes at any step |
| FedInSequence, AcceptedWasFed | it reads chunks once and in order; an accepted chunk was read |
| StopIsBarrier | a signal or cancel that reports an end finds the job's goroutine past its last write |
| OutcomeIsFinal | an outcome on file is never rewritten |
| SettlesUnlessJammed | every call returns and every job that has a wall time settles, unless two writers are jammed |

### The inbox

InboxWatch: one session, two records (each to the reader or to all, its own, or a
copy of the other), two watches and one disturbance: a lost event, a turn, the end
of the session or of a watch. There is a card at first, of a session that lives or
is gone. The second watch meets what the first left behind. A `--peek` that
files a card is a disturbance too.

| property | what it says |
|---|---|
| ConsumedWasShown | what a cursor or a mark counts as read was written to a reader, is its own, or is a copy of such a record |
| QuietMeansNothingNew | a watch that pauses with its gate up to date has left nothing, unless an event was lost |
| OrphanStops | a watch whose session ended consumes at most the batch it was reading, if it has an owner to look at |
| EveryRecordIsShown | every record is shown as long as a watch goes on, also when its event is lost |

### The steward

StewardTenure: two terminals with an agent each run `steward start`, a third runs
`steward stop`; a start may be forced, and then stops the incumbent itself. A
behaviour has one of three budgets: two claims or exports of the seat; one of them
with one accident (a start interrupted, an agent ended, a supervisor killed) and a
foreign note; or one with a message.

| property | what it says |
|---|---|
| ReportIsFresh | the outcome a stop reports was recorded after that stop looked |
| StoppedIsOver | when a stop returned, the supervisor it addressed is gone, and if its report says that the seat was released, nobody holds it under the tenure it reports |
| FencedStandsDown | a supervisor whose epoch has passed leaves its watch |

### Fairness

`LoopFairness`: the loop goroutine runs (weak fairness of a sweep's step
and of the exit). `AnswerFairness`: provider calls return, because Deactivate kills
after its grace and the others are bounded by the system calls they make, and the
answer of a unit is received in the end although other messages also are (strong
fairness: the loop takes messages from one channel in order of arrival, so none is
passed over for ever). A start that is refused because the provider still runs the
unit, which takes an edit that moved it away and another that moved it back, is not
in the answers that fairness promises, and no run needs it. `MessageFairness`: the same for probes, timers and reports.
`ReloadFairness`: an edit made with `bashy service` is followed by a reload over
the control socket. Exits, failed probes, refusals, edits, requests and signals are
under no fairness. `StartFairness`, of MonitorSuccession: the start of a monitor is
its own code with nothing to wait for but an orphan, which it kills after a grace;
that a process ends, forks, or is asked to stop is under no fairness.

The outbox: a process that holds the lock goes on (weak), and `bashy activity
recover`, which nothing in the repository runs by itself, is run again and again
until it gets the lock (strong); so EveryDebtIsSettled is a promise to whoever runs
it. The harness: goroutines go on and a wall time passes, for the jobs that declare
one (weak); whether a command
reads or ends is under none. The inbox: the watch goes on, an event that is not
lost is delivered, and the timer of the full read runs out (weak). The steward:
the timers of a supervisor fire as long as its process runs (weak).

## 5. Where the code and its documents differ

Four runs are expected to find a violation: a document or a comment says what the
code does not do (`findings` in PROJECT.json quotes the lines).

| run | statement | what happens |
|---|---|---|
| MonitorForcedShutdown | a second signal ends the grace periods and the monitor exits | `post` may drop the answer of a finished Deactivate once the context is done; its unit stays busy and the loop never ends |
| HarnessJammed | a job whose command does not end settles when its time is over | a second WriteStdin waits for the job's `inputMu` with `m.mu` in its hands, and nothing can settle |
| InboxCapped | with `--limit`, the tail that was left out stays unread | a directed record shown first moves the cursor past an earlier one that was cut |
| ReaperLost | the status of a child that the reaper collects first is never lost | `reap` takes its lock after wait4 has returned; a Wait that comes back in between finds the status nowhere and reports a failure |

Eleven more were found while modelling. Each is stated as a property in its module.
None is in a run, the number of runs being kept to one per question, but TLC finds
the first three within seconds, with `MonitorMoved.cfg`, `OutboxTwice.cfg` and
`InboxPeek.cfg` on the modules of instances:

| property | module | the code |
|---|---|---|
| ExitLeavesNothing, if an edit may name another provider | SupervisorMonitor | docs/bashy-service-design.md:180 says that on TERM or INT every unit is stopped and the monitor exits 0. A reload that finds a changed declaration replaces `u.prov` of a running unit (supervisord_monitor.go:299); the stop then goes to the new provider, which knows no such unit and succeeds, and the process that the old one runs outlives the monitor |
| DeliversNothingTwice | ActivityOutbox | deliver.go:108 says a call after a crash, a retry or a replay delivers nothing twice, and 305 that a record resumes without publishing again to those already served; it publishes before it records what was served (deliver.go:155), and a kill in between leaves a copy that no record accounts for, so the recipient is given another. DeliveredRight says what does hold |
| EveryOrphanStops | InboxWatch | inbox.go:174 says a watch stops itself once the session that started it is gone; one that is refused the lease may adopt the card that a `--peek` of its session filed, with an owner check that always succeeds (inbox.go:533), and goes on consuming for nobody. OrphanStops says what does hold |
| PollCatchesEdits | SupervisorMonitor | docs/bashy-service-design.md:171 says the poll catches edits of other tools; it reloads and does not step, so on an idle monitor nothing starts the unit |
| LateMessagesDropped | SupervisorMonitor | docs/bashy-service-design.md:77 says a late answer about a replaced incarnation is dropped; a removed name declared again starts at generation 0 and matches it. The runs and theorems have `ReAdd = FALSE` |
| UntilDoneEnds | SupervisorMonitor | supervisord_service.go:51: `--until-done` ends once every unit completed or failed; the dependent of a failed unit is never counted |
| EnabledTracksRegistry | SupervisorMonitor | supervisord_monitor.go:23: enabled units are kept in their desired state; a disable read at an exit and undone before the next reload is remembered for ever |
| SocketProvesAlone | MonitorSuccession | supervisord_service.go:104: holding the socket proves no other monitor serves this home; probe, remove and listen are three steps, and a monitor that is still reclaiming does not answer the probe |
| AnnouncedWasDelivered | StewardSession | steward_supervise.go:514 says commit is called only after a notice was delivered; the watch commits first, and a notice that fails is never given again |
| CommitStands, if two tasks declare one output path | DhntTask | docs/dhnt-pipeline-v1.md:149 says the manifest is the visibility point of the set; argo.go:268 lets tasks share the path of one artifact, and runner.go:204 removes a file that was published there while the command ran, also when its set is committed. Two attempts of one task at once do the same |
| CopiesLeaveEvidence | ActivityOutbox | store.go says a copy handed over leaves evidence on file; a torn line swallows the next append, and with it the record |

## 6. What is proved

With no bound on units, dependencies, budgets or the length of a run.

* `SupervisorMonitorProofs!TypeCorrect`: `Spec => []TypeOK`. `TypeOK` is inductive
  as it stands; one lemma per handler, with the records that a handler builds
  typed once (`NewRun`, the effects of `Deactivate`, `Launch`, `Refuse`,
  `AfterExit`).
* `SupervisorMonitorProofs!Bookkept`: `ReAdd = FALSE /\ Spec => []IInv`, where
  `IInv` is `TypeOK`, `Bookkeeping`, `BusyIsAnswered` and `WaitingHasTimer`. None
  of the last two is inductive alone. That a busy unit has its answer coming needs
  that no other call of its generation exists whose answer would be taken for it
  (`OneCurrentCall`); that needs that a new generation is above every generation in
  flight, and that a forgotten name is not used again (`NamesUsedOnce`); and a
  handler that clears `busy` must leave a state in which `waiting` and `latched` fit
  (`FlagsFitState`). The proof has one lemma per action for each of the three.
  From it `AnswersFindTheirUnit` (`[]Bookkeeping`), `BusyIsAlwaysAnswered`,
  `WaitingAlwaysHasTimer` and `LatchedStaysDown`.
* `SupervisorMonitorProofs!ProcessesInCustody`: `[]Custody`, the invariant that the
  processes themselves need. Every call in flight is of the unit's present life; a
  start or stop in flight is of the present generation, newer than any process and
  any report (`CallsInTime`, `NothingAhead`); a start finds no process
  (`StartsAlone`); a process belongs to a unit that is up or has a call in flight
  (`ProcessesOwned`); a unit that is up has its probe due, and its process or the
  report of its exit, until a second signal may lose them (`UpIsWatched`). All of
  it needs that no edit moves a unit to another provider (`OneProvider`), and the
  proof first shows that then every call is asked of that provider and nothing is
  left in the entry of another (`AtHome`, `StaysAtHome`). It is stated of one unit (`UnitCustody`), and
  a step does one of eight things to the processes and calls: nothing, a start, a
  stop or a configuration asked for, an answer taken, a call dropped, a process
  started, or one reported. Each is shown once to keep the custody of its unit and
  to be a step, or no step, of `UnitLifecycle`; then every action is shown to be
  one of the eight, and to leave the other units alone.
* From it, under the same hypotheses, `UnitsLive`, the refinement `EveryUnitLives`;
  `CallsNeverOverlap` (which no run checks, since it follows from Bookkeeping and
  Custody), `RunningStaysWatched`, `ExitIsClean` (with what `finished`
  checks before the loop returns) and `DependentsAreStoppedFirst`, an action
  property: a unit the sweep stops has no dependent with a process, because a
  process is of a unit that is up or busy, and the sweep asks for both.
* `SupervisorMonitorProofs!SweepsSettle`: `ReAdd = FALSE /\ Spec /\ []Acyclic
  => SweepSettles`, the bound of stepAll on its passes, for every name order. A step
  on one unit leaves that unit nothing to do (`SteppedIsSettled`) and gives another
  one something to do only if that one depends on it and sees a new state of it
  (`OthersStaySettled`); what the sweep stops stays busy, so it does not free its
  dependencies to be stopped within the sweep. So there is a set of units settled for good
  (`CalmIn`), closed under dependencies, and each pass adds to it the units whose
  dependencies are all in it (`Freed`): one at least, there being no cycle
  (`PassSettlesMore`). `SweepInv` says that the set has kept up with the number of
  the pass, or that nothing has changed in this pass so far; when the passes run
  out it holds every unit.

* `MonitorSuccessionProofs!OwnershipAlwaysKnown`: `Spec => []OwnershipKnown`, for
  any number of monitors at once or in turn, any crash and any reuse of pids.
  The invariant has five parts, none inductive alone. That a record names a
  child of its monitor (`RecordsKnown`) needs that a pid is the child's own until
  it is waited for (`ChildrenHeld`), because recordOwner reads the identity from
  the pid; that needs that no other monitor's reclaim kills it, so that what a
  reclaim waits for is an orphan to the end (`VictimsOrphaned`); that needs
  `RecordsKnown` again, that a monitor has no records of its own before its loop
  runs (`OwnRecordsLater`), and that start times are not used twice
  (`ClockAhead`). The proof rests on one lemma about the process table
  (`NextEvolves`: after a step a process is as before, or a zombie, or gone, or
  starts now) and on two about identities kept through it (`NamesKept`,
  `OrphanKept`); then one lemma for each part.
* From it `ReclaimsOrphansOnly` (`SparesForeign`). `SuccessionTyped` is the type
  invariant.
* `MonitorSuccessionProofs!RecordedStaysAlone`: `Overlap = FALSE /\ Spec =>
  []RecordedIsAlone`. That a process the records name is the only one of its unit
  follows from what one monitor knows (`OneForEach`): while it runs there is no
  other (`OneMonitor`), so a process of a unit that is not its own child is older
  than it (`ForeignIsOlder`), is named by the unit's record, and is on the list the
  reclaim goes through until it is gone (`ForeignIsListed`, `VictimIsRecorded`);
  its own child is the one in its `procUnit`, and the record, once it is written,
  names that one (`OwnIsHeld`, `RecordNames`, `MonitorNamed`). The window between
  the fork and the record, in which a crash leaves a process no record names, is
  why the statement is about recorded processes. `EachKnowsItsUnits` is the
  invariant.

* `HarnessManagerProofs!RecordsFollowJobs`: `Spec => []IInv`, for any number of
  callers and jobs, any retries and any crash. It rests on three orders of the
  code. A start reserves the directory, writes the record and attaches the job in
  that order with `m.mu` held, and no directory is ever removed (`Reserved`,
  `StartedHasDir`). The record in memory follows the goroutine of the job and the
  record on disk is never ahead of it (`OnRecord`), so a terminal outcome is read
  only of a job that is over. `inputMu` is held from the check of a chunk to its
  record (`Locks`, `CallInv`, `InOrder`): what is recorded is what the command has
  read, less the one chunk of the writer about to record it.
* From it `MutexesAreHeld` (`[]TypeOK`), `JobsRunAtMostOnce`, `InputIsSequential`,
  `AcceptedInputWasRead`, `StopsAreBarriers` and `OutcomesAreFinal`, an action
  property: all of the harness's safety.

* `InboxWatchProofs!ReadersAgree`: `Limit = 0 /\ Spec => []IInv`. A cursor is moved
  to what was on file when the source was read, or over the acknowledged prefix of
  the batch; the invariant says of the watch, at each place of its loop, and of
  the turn that what it goes on to acknowledge was seen before or is in the batch it
  writes first (`BatchIsAll`, `TurnIsAll`), although records arrive and the other
  reader moves the same cursors in between. For the gate: a sample is never ahead
  of the sources (`SampleIsPast`), and a record that is pending is in the read that
  is under way, unless something was written since the sample or an event was lost
  (`PendingIsRead`); so a pause with the gate up to date leaves nothing.
* From it `InboxTyped`, `NothingConsumedUnseen` and `QuietIsCaughtUp`. The
  hypothesis is needed: with a limit ConsumedWasShown is false (section 5).
* `InboxWatchProofs!OrphansStop`: `Spec => []OrphanStops`, with a limit too, since
  all it needs is where in its loop a watch is when its session ends.

* `StewardSessionProofs!TenuresEnd`: `Spec => []IInv`, for any number of shells,
  stops, agents and messages. It says of every call at its place what it knows, and
  a step of another keeps that for four reasons (`Onward`): epochs do not come
  back, so a tenure that is over stays over; a supervisor that is gone does not
  come back, a shell starting at most one; outcomes are numbered and one that
  replaces another has a higher number; and messages are not removed. A supervisor
  saves its outcome after it tried to give the seat up, and a stop does so only
  after the supervisor is gone; a stop that has reset the outcome therefore reads one
  that is newer than its look and, if the seat was released, of a tenure that is
  over.
* From it `StewardTyped`, `ReportsAreFresh` and `StopsAreFinal`: all of the
  steward's safety.

* `ActivityOutboxProofs`: the invariant `IInv` speaks of every version of a record
  there is, on disk under a newer one or in memory (`Versions`), because a torn line
  brings an older version to light. Versions of one event have one number, those of
  two events of a source differ (`Numbered`); whoever a version calls served has a
  copy (`ServedHolds`); and the copies that the version on file, or the one an
  operation will write, does not account for are paid for by a lapse of that event
  (`Excused`). It is preserved because an append adds one version and shows none
  that was not there (`AppendKeeps`), a rewriting drops some (`RewriteKeeps`), and
  nothing else touches the file; `OpFits` says what an operation holds of the file
  while it has the lock. From it `OutboxTyped`, `NumbersDiffer` and
  `DeliveriesAreRight`, through any kills, failures and torn lines.
  `WakesAreNeverOutranked` is a fact about `Route` for every event and all interests.
* `ActivityOutboxProofs!OutboxImplementsChannel`: `Spec => OutboxIsAChannel`. While
  the file is whole it says what memory says (`Followed`): an operation resumed or
  concluded is the one on file, so Conclude settles the debt that JournalFirst took
  on, with the same recipients, and Prune rewrites what is there. Each action is
  then one action of the channel or none (`ChannelStep`).
  `OutboxStaysAChannel`: if a failed append leaves nothing, that is for good.

* `SupervisorPartsProofs!StartLimitHolds`: no window of the declared length holds more
  starts than the burst, among those admitted since the starts were last
  forgotten or the policy set; and
  `BackoffIsBounded`: delays never shrink while failures follow each other, and
  stay between the declared bounds.
* `SupervisorPartsProofs!StatusReachesItsWait`: until it is asked for, a status that
  the reaper collected is on the stash, or in its hand on the way there; a status
  that a Wait returns is of its own child; and outside spawns the stash holds
  nothing of an orphan. The invariant ties `spawning` to the number of children
  inside a window, which is why a child that is not watched yet is stashed, and
  each pid on the stash to the process it names.
* `DhntTaskProofs!CommittedSetsAreWhole`: `CommitStands` and `PassIsCommitted`,
  whatever commands do: a committed set lacks only what a command has damaged, and
  a pass has its manifest unless a command took it. What keeps the runner from
  removing a file of a committed set is what an attempt saw before its command: if
  the manifest was there, every output was (`AttemptOK`).
* `DhntTaskProofs!PassesAreHonest`: an attempt decides on a pass only when each of
  its outputs is there, or was damaged by the command of another attempt. That its
  own command damaged one is what the second look finds.

The inductive invariants of the modules with runs were checked with TLC on the
instances of section 4 before they were proved. `SupervisorPartsProofs` holds the
proofs of two modules, StartPolicy and OrphanReaper, which share no state.

Assumptions: `ConstantsAssumption` (a finite set of units with distinct ranks, and
the shapes of the declarations), `SuccessionAssumption` (pids are positive), the
shapes of the constants of the outbox, the harness, the inbox and the steward, all
of which TLC evaluates in every run. Hypotheses of single theorems:

| hypothesis | theorems | why it is needed |
|---|---|---|
| `ReAdd = FALSE`: no name is declared again in one run of the monitor | all of SupervisorMonitorProofs but TypeCorrect | a name used again starts at generation 0 and a late answer matches it (LateMessagesDropped, section 5) |
| `OneProvider`: no two declarations of a unit name different providers | ProcessesInCustody, UnitsLive, CallsNeverOverlap, RunningStaysWatched, ExitIsClean, DependentsAreStoppedFirst | a running unit that is moved leaves its process with the old provider, where no stop reaches it (section 5). Edits of everything else, requirements included, are covered |
| `[]Acyclic`: at no time a cycle in what the monitored units require, by the declarations as last reloaded | SweepsSettle | with three units that require each other in a ring, TLC finds a sweep in which they turn failed and inactive after one another until the bound on passes ends it; declarations are validated by the registry, which is outside the repository |
| `Overlap = FALSE`: no monitor is launched while one lives | EachKnowsItsUnits, RecordedStaysAlone | the socket does not prove a monitor alone (SocketProvesAlone, section 5) |
| `Limit = 0` | ReadersAgree and the three after it | InboxCapped, section 5 |
| `PoliciesAreResolved` | the two of StartPolicy | it is what policyOf yields |
| `Cuts \subseteq {"nothing"}`: a write to the journal is all or nothing | OutboxStaysAChannel | the other theorems about the outbox do without; a torn line loses what was owed (CopiesLeaveEvidence, section 5) |
| a finite set of children, `Reuse = FALSE` | StatusReachesItsWait | with pids used again a Wait may be given the status of another process |
| `Pipeline`, `Unshared`, `Overlap = FALSE` (a task has one attempt at a time) | CommittedSetsAreWhole, PassesAreHonest | without the last two CommitStands is false (section 5) |

Only model-checked:

* liveness, which with ENABLED is out of the proof system's reach: Converges,
  ShutdownCompletes, AloneIsServed, EveryDebtIsSettled, SettlesUnlessJammed,
  EveryRecordIsShown, FencedStandsDown.

## 7. What is not modelled

The components of section 1 that the plan has not reached. Inside the monitor:
the text of reasons and health, the restart counter, the event log and its
bounded queue, the bound of the message channel, and the log files of units. The
start that follows a failed live reconfigure does not ask whether dependencies are
up; the model has that step, and no run is spent on it. Around the monitor: the
wire format and time limits of the control socket, failing disk writes, and the
signals a monitor sends to the rest of a process group.

The outbox: a lock that is not obtained in time (nothing changes), readers, which
take no lock, and validation of an event. The harness: authorization and bindings
that are refused, output, spools and their cursors, exit codes. The inbox: reads
that consume nothing, but for the card a `--peek` files, relay, role and bus buffers, hosts
whose process tree cannot be read, the mailbox verbs. The steward: the choice of an
agent, briefs, the mediator, the bus sidecar, `--no-seat`, `--keep-seat`,
`--no-note`, a state directory that cannot be written, and the second by which a
note may predate the wrap-up that looks for it. The reaper: its stop at the end of
the supervisor. dhnt: output trees (taken for files; a tree in the way is not
removed, since it is not empty), the binding of a run to its node, validation and
encoding of the contracts, placement, aggregation of results, and the workflow
documents.
