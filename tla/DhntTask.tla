------------------------------ MODULE DhntTask ------------------------------
(***************************************************************************)
(* Attempts of dhnt tasks on one workspace (ExecuteTask, dhnt/runner.go):  *)
(* what each sees of the files of the others, what it publishes, the       *)
(* commit manifest that makes its output set visible, and its evidence.    *)
(*                                                                         *)
(* An attempt is the runner of one pod.  Any number of attempts of         *)
(* different tasks run at the same time; of one task only as a retry, and  *)
(* with Overlap also while the pod it replaces is still alive.             *)
(*                                                                         *)
(* Abstractions.  Artifacts are files; one has the bytes that its path     *)
(* promises or others.                                                     *)
(* The staging directory is private and its content is the outcome of the  *)
(* command.  Outputs are visited in any order.  Lstat and the use of its   *)
(* answer are one step, except before a link, which fails if the file was  *)
(* created meanwhile.  The inputs of a task are hashed in one step.        *)
(***************************************************************************)
EXTENDS FiniteSets

CONSTANTS
    Tasks,
    Attempts,  \* pods
    Paths,     \* content-addressed paths of artifacts
    TaskOf,    \* the task of an attempt
    Outputs,   \* the paths that a task declares as outputs
    Inputs,    \* and as inputs
    Needs,     \* the tasks it is scheduled after
    Overlap    \* whether a task is retried while an attempt is alive

Pipeline ==
    /\ TaskOf \in [Attempts -> Tasks]
    /\ Outputs \in [Tasks -> SUBSET Paths] /\ Inputs \in [Tasks -> SUBSET Paths]
    /\ Needs \in [Tasks -> SUBSET Tasks]
    /\ Overlap \in BOOLEAN

\* lowerArgoV2 lets two tasks share a path if the artifact is the same.
Unshared == \A t, u \in Tasks : t # u => Outputs[t] \cap Outputs[u] = {}

VARIABLES
    file,      \* of each path: no file, the promised bytes, or others
    manifest,  \* likewise of the commit manifest of each task
    evidence,  \* the result class on record for each attempt
    run,       \* the locals of ExecuteTask
    spoiled,   \* history: by the commands of which attempts a promised file was
               \* changed or removed
    meddled    \* history: the tasks whose manifest some command forged or undid

history == <<spoiled, meddled>>
store == <<file, manifest, evidence, history>>
vars == <<store, run>>

Contents == {"absent", "right", "wrong"}
Classes == {"pass", "failed", "infraFail", "incomplete", "canceled"}

At(a, pc) == run[a].pc = pc
UnderWay(a) == run[a].pc \notin {"pending", "ended"}
MyOutputs(a) == Outputs[TaskOf[a]]
MyManifest(a) == manifest[TaskOf[a]]

Goto(a, pc) == run' = [run EXCEPT ![a].pc = pc]
Decide(a, class) == run' = [run EXCEPT ![a].pc = "finish", ![a].class = class]
Done(a, p) == run' = [run EXCEPT ![a].pc = "publish", ![a].todo = @ \ {p}]

\* Outputs that were there before the command, and the manifest.
Saw(a, p) == run' = [run EXCEPT ![a].todo = @ \ {p}, ![a].before = @ \cup {p}]

(***************************************************************************)
(* Before the command.                                                     *)
(***************************************************************************)
Passed(t) == \E a \in Attempts : TaskOf[a] = t /\ evidence[a] = "pass"

Start(a) ==
    /\ At(a, "pending")
    /\ \A t \in Needs[TaskOf[a]] : Passed(t)
    /\ Overlap \/ \A b \in Attempts : UnderWay(b) => TaskOf[b] # TaskOf[a]
    /\ run' = [run EXCEPT ![a].pc = "look", ![a].todo = MyOutputs(a)]
    /\ UNCHANGED store

\* verifyExistingDestination
LookAtOutput(a, p) ==
    /\ At(a, "look") /\ p \in run[a].todo
    /\ CASE file[p] = "absent" -> run' = [run EXCEPT ![a].todo = @ \ {p}]
         [] file[p] = "right" -> Saw(a, p)
         [] file[p] = "wrong" -> Decide(a, "infraFail")
    /\ UNCHANGED store

LookAtManifest(a) ==
    /\ At(a, "look") /\ run[a].todo = {}
    /\ IF MyManifest(a) = "wrong"
       THEN Decide(a, "infraFail")
       ELSE run' = [run EXCEPT ![a].pc = "inputs",
                               ![a].committed = MyManifest(a) = "right"]
    /\ UNCHANGED store

InputsRight(a) == \A p \in Inputs[TaskOf[a]] : file[p] = "right"

CheckInputs(a) ==
    /\ At(a, "inputs")
    /\ IF InputsRight(a) THEN Goto(a, "command") ELSE Decide(a, "infraFail")
    /\ UNCHANGED store

(***************************************************************************)
(* The command.  It writes to the staging directory.  The workspace is its *)
(* working directory, and nothing stops it from creating, changing or      *)
(* removing files there, its inputs, published outputs and manifests among *)
(* them; the runner looks again when it has ended.                         *)
(***************************************************************************)
IntrudeFile(a, p, bytes) ==
    /\ file' = [file EXCEPT ![p] = bytes]
    /\ spoiled' = IF file[p] = "right" /\ bytes # "right"
                  THEN [spoiled EXCEPT ![p] = @ \cup {a}] ELSE spoiled
    /\ UNCHANGED <<manifest, meddled>>

IntrudeManifest(t, bytes) ==
    /\ manifest' = [manifest EXCEPT ![t] = bytes]
    /\ meddled' = IF "right" \in {manifest[t], bytes}
                  THEN meddled \cup {t} ELSE meddled
    /\ UNCHANGED <<file, spoiled>>

Intrude(a) ==
    /\ At(a, "command")
    /\ \E bytes \in Contents : \/ \E p \in Paths : IntrudeFile(a, p, bytes)
                               \/ \E t \in Tasks : IntrudeManifest(t, bytes)
    /\ UNCHANGED <<evidence, run>>

\* It fails, is canceled, or leaves outputs that are not as declared.
CommandFails(a, class) ==
    /\ At(a, "command")
    /\ Decide(a, class)
    /\ UNCHANGED store

\* The inputs are hashed again, then the outputs are sealed.
CommandEnds(a) ==
    /\ At(a, "command")
    /\ IF InputsRight(a)
       THEN run' = [run EXCEPT ![a].pc = "publish", ![a].todo = MyOutputs(a)]
       ELSE Decide(a, "infraFail")
    /\ UNCHANGED store

(***************************************************************************)
(* Publication: every output, then the manifest.                           *)
(***************************************************************************)
PublishKnown(a, p) ==
    /\ At(a, "publish") /\ p \in run[a].todo \cap run[a].before
    /\ IF file[p] = "right" THEN Done(a, p) ELSE Decide(a, "infraFail")
    /\ UNCHANGED store

\* A file that was not there before the command is taken for the command's.
PublishFound(a, p) ==
    /\ At(a, "publish") /\ p \in run[a].todo \ run[a].before
    /\ file[p] # "absent"
    /\ file' = [file EXCEPT ![p] = "absent"]
    /\ Decide(a, "infraFail")
    /\ UNCHANGED <<manifest, evidence, history>>

PublishClear(a, p) ==
    /\ At(a, "publish") /\ p \in run[a].todo \ run[a].before
    /\ file[p] = "absent"
    /\ run' = [run EXCEPT ![a].pc = "link", ![a].path = p]
    /\ UNCHANGED store

Link(a) ==
    /\ At(a, "link")
    /\ LET p == run[a].path
       IN IF file[p] = "absent"
          THEN file' = [file EXCEPT ![p] = "right"] /\ Done(a, p)
          ELSE Decide(a, "infraFail") /\ UNCHANGED file
    /\ UNCHANGED <<manifest, evidence, history>>

Published(a) == At(a, "publish") /\ run[a].todo = {}

CommitKnown(a) ==
    /\ Published(a) /\ run[a].committed
    /\ Decide(a, IF MyManifest(a) = "right" THEN "pass" ELSE "infraFail")
    /\ UNCHANGED store

CommitFound(a) ==
    /\ Published(a) /\ ~run[a].committed
    /\ MyManifest(a) # "absent"
    /\ manifest' = [manifest EXCEPT ![TaskOf[a]] = "absent"]
    /\ Decide(a, "infraFail")
    /\ UNCHANGED <<file, evidence, history>>

CommitClear(a) ==
    /\ Published(a) /\ ~run[a].committed
    /\ MyManifest(a) = "absent"
    /\ Goto(a, "commit")
    /\ UNCHANGED store

\* The parent directory may fail to sync after the link.
Commit(a) ==
    /\ At(a, "commit")
    /\ IF MyManifest(a) = "absent"
       THEN /\ manifest' = [manifest EXCEPT ![TaskOf[a]] = "right"]
            /\ \E class \in {"pass", "infraFail"} : Decide(a, class)
       ELSE Decide(a, "infraFail") /\ UNCHANGED manifest
    /\ UNCHANGED <<file, evidence, history>>

(***************************************************************************)
(* The end.                                                                *)
(***************************************************************************)
\* An operation on the file system fails.
Fails(a) ==
    /\ run[a].pc \in {"look", "inputs", "publish", "link", "commit"}
    /\ Decide(a, "infraFail")
    /\ UNCHANGED store

\* publishRunEvidence: a file of the pod's own, linked in one step.
Finish(a) ==
    /\ At(a, "finish")
    /\ evidence' = [evidence EXCEPT ![a] = run[a].class]
    /\ Goto(a, "ended")
    /\ UNCHANGED <<file, manifest, history>>

\* The pod is killed, or an error leaves no evidence.
Crash(a) ==
    /\ UnderWay(a)
    /\ Goto(a, "ended")
    /\ UNCHANGED store

Init ==
    /\ file = [p \in Paths |-> IF \E t \in Tasks : p \in Outputs[t]
                               THEN "absent" ELSE "right"]
    /\ manifest = [t \in Tasks |-> "absent"]
    /\ evidence = [a \in Attempts |-> "none"]
    /\ run = [a \in Attempts |->
                 [pc |-> "pending", todo |-> {}, before |-> {}, path |-> "none",
                  committed |-> FALSE, class |-> "none"]]
    /\ spoiled = [p \in Paths |-> {}] /\ meddled = {}

Attempt(a) ==
    \/ Start(a) \/ LookAtManifest(a) \/ CheckInputs(a)
    \/ Intrude(a) \/ CommandEnds(a)
    \/ \E class \in Classes \ {"pass"} : CommandFails(a, class)
    \/ \E p \in Paths : \/ LookAtOutput(a, p) \/ PublishKnown(a, p)
                        \/ PublishFound(a, p) \/ PublishClear(a, p)
    \/ Link(a) \/ CommitKnown(a) \/ CommitFound(a) \/ CommitClear(a) \/ Commit(a)
    \/ Fails(a) \/ Finish(a) \/ Crash(a)

Next == \E a \in Attempts : Attempt(a)

Spec == Init /\ [][Next]_vars

(***************************************************************************)
(* Correctness.                                                            *)
(***************************************************************************)
\* The manifest is the visibility point of the whole set: while it is there, and
\* no command has written it or taken it away, every output is, but for those
\* that a command has changed or removed.
CommitStands ==
    \A t \in Tasks \ meddled :
        manifest[t] = "right" =>
            \A p \in Outputs[t] : file[p] = "right" \/ spoiled[p] # {}

\* Evidence of a pass has its manifest behind it, unless a command meddled.
PassIsCommitted ==
    \A a \in Attempts :
        evidence[a] = "pass" => MyManifest(a) = "right" \/ TaskOf[a] \in meddled

\* Evidence is honest about the attempt's own command: a pass is decided only
\* when every output is there, whatever that command did to the workspace, unless
\* the command of another attempt damaged one.
Held(a, p) == file[p] = "right" \/ spoiled[p] \ {a} # {}

PassIsHonest ==
    [][\A a \in Attempts :
          run[a].class # "pass" /\ run'[a].class = "pass" =>
              \A p \in MyOutputs(a) : Held(a, p)]_vars
=============================================================================
