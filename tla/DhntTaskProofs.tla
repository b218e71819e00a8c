--------------------------- MODULE DhntTaskProofs ---------------------------
(***************************************************************************)
(* That the commit manifest stands for the whole output set, whatever      *)
(* crashes, is retried or fails, and however many tasks run at once, as    *)
(* long as a task has one attempt at a time and no two tasks declare the   *)
(* same output path.                                                       *)
(*                                                                         *)
(* Commands change and remove what they like.  What they did to a file of  *)
(* a committed set is in spoiled, what they did to a manifest in meddled.  *)
(*                                                                         *)
(* CommitStands is not inductive: a file that turns up unexpectedly is     *)
(* removed (PublishFound, CommitFound).  That such a file is in no         *)
(* committed set rests on what the attempt saw before its command: if the  *)
(* manifest was there, so was every output (AttemptOK).                    *)
(***************************************************************************)
EXTENDS DhntTask, TLAPS

PcType == {"pending", "look", "inputs", "command", "publish", "link", "commit",
           "finish", "ended"}

RunType ==
    [pc : PcType, todo : SUBSET Paths, before : SUBSET Paths,
     path : Paths \cup {"none"}, committed : BOOLEAN, class : Classes \cup {"none"}]

Typed ==
    /\ file \in [Paths -> Contents] /\ manifest \in [Tasks -> Contents]
    /\ evidence \in [Attempts -> Classes \cup {"none"}]
    /\ run \in [Attempts -> RunType]
    /\ spoiled \in [Paths -> SUBSET Attempts] /\ meddled \subseteq Tasks

\* A task has one attempt at a time.
Alone ==
    \A a, b \in Attempts : UnderWay(a) /\ UnderWay(b) /\ TaskOf[a] = TaskOf[b] => a = b

\* The outputs in a set that the attempt has seen before its command, or whose
\* committed file some command has damaged.
SeenIn(a, outputs) == \A p \in outputs : p \in run[a].before \/ spoiled[p] # {}

\* The task has a manifest, and no command has had a hand in it.
Stands(a) == MyManifest(a) = "right" /\ TaskOf[a] \notin meddled

\* What an attempt knows of the files: what it has published or seen, and that
\* it saw the whole set if the manifest is there.
AttemptOK(a) ==
    /\ run[a].todo \subseteq MyOutputs(a)
    /\ At(a, "link") => run[a].path \in run[a].todo
    /\ run[a].pc \in {"publish", "link", "commit"} =>
          \A p \in MyOutputs(a) \ run[a].todo : Held(a, p)
    /\ At(a, "commit") => run[a].todo = {}
    /\ At(a, "look") /\ Stands(a) => SeenIn(a, MyOutputs(a) \ run[a].todo)
    /\ run[a].pc \in {"inputs", "command", "publish", "link", "commit"}
          /\ Stands(a) => SeenIn(a, MyOutputs(a)) /\ run[a].committed
    /\ At(a, "commit") => ~run[a].committed
    /\ At(a, "finish") /\ run[a].class = "pass" =>
          MyManifest(a) = "right" \/ TaskOf[a] \in meddled

IInv ==
    /\ Typed
    /\ Alone
    /\ \A a \in Attempts : AttemptOK(a)
    /\ CommitStands
    /\ PassIsCommitted

\* The outputs of an attempt are paths, its manifest one of the manifests.
LEMMA Shapes ==
    ASSUME Pipeline, NEW a \in Attempts
    PROVE  TaskOf[a] \in Tasks /\ MyOutputs(a) \subseteq Paths
  BY DEF Pipeline, MyOutputs

\* No attempt has begun and nothing is published.
LEMMA InitOK == ASSUME Pipeline PROVE Init => IInv
<1>. SUFFICES ASSUME Init PROVE IInv
  OBVIOUS
<1>1. Typed
  BY SMTT(30) DEF Init, Typed, RunType, PcType, Contents, Classes
<1>2. Alone
  BY DEF Init, Alone, UnderWay
<1>3. \A a \in Attempts : AttemptOK(a)
  BY DEF Init, AttemptOK, At
<1>4. CommitStands /\ PassIsCommitted
  BY DEF Init, CommitStands, PassIsCommitted
<1>. QED BY <1>1, <1>2, <1>3, <1>4 DEF IInv

(***************************************************************************)
(* Steps that leave the files alone.                                       *)
(***************************************************************************)
\* One attempt goes on; the others and the files are as before.
LEMMA QuietStep ==
    ASSUME Pipeline, IInv, NEW a \in Attempts, UNCHANGED store,
           run' \in [Attempts -> RunType],
           \A b \in Attempts \ {a} : run'[b] = run[b],
           \/ UnderWay(a)
           \/ UnderWay(a)' => \A b \in Attempts : UnderWay(b) => TaskOf[b] # TaskOf[a],
           AttemptOK(a)'
    PROVE  IInv'
<1>1. Typed'
  BY DEF IInv, Typed, store, history
<1>2. Alone'
  BY DEF IInv, Alone, UnderWay
<1>3. ASSUME NEW b \in Attempts, b # a PROVE AttemptOK(b)'
  BY <1>3 DEF IInv, AttemptOK, Held, SeenIn, Stands, MyOutputs, MyManifest, At, store, history
<1>4. CommitStands' /\ PassIsCommitted'
  BY DEF IInv, CommitStands, PassIsCommitted, MyManifest, store, history
<1>. QED BY <1>1, <1>2, <1>3, <1>4 DEF IInv

\* A decision that is not a pass.
LEMMA NoPass ==
    ASSUME Pipeline, IInv, NEW a \in Attempts, NEW class \in Classes \ {"pass"},
           Decide(a, class)
    PROVE  /\ run' \in [Attempts -> RunType]
           /\ \A b \in Attempts \ {a} : run'[b] = run[b]
           /\ run'[a].pc = "finish" /\ run'[a].class = class
           /\ AttemptOK(a)'
<1>1. /\ run' \in [Attempts -> RunType]
      /\ \A b \in Attempts \ {a} : run'[b] = run[b]
      /\ run'[a].pc = "finish" /\ run'[a].class = class
      /\ run'[a].todo = run[a].todo
  BY ZenonT(60) DEF Decide, IInv, Typed, RunType, PcType
<1>2. AttemptOK(a)'
  BY <1>1 DEF IInv, AttemptOK, Held, SeenIn, Stands, MyOutputs, MyManifest, At
<1>. QED BY <1>1, <1>2

\* An attempt that starts is the only one of its task.
LEMMA StartKeeps ==
    ASSUME Pipeline, Overlap = FALSE, IInv, NEW a \in Attempts, Start(a)
    PROVE  IInv'
<1>1. /\ run' \in [Attempts -> RunType]
      /\ \A b \in Attempts \ {a} : run'[b] = run[b]
      /\ run'[a].pc = "look" /\ run'[a].todo = MyOutputs(a)
  BY Shapes, ZenonT(60) DEF Start, IInv, Typed, RunType, PcType
<1>2. AttemptOK(a)'
  BY <1>1 DEF AttemptOK, Held, SeenIn, Stands, MyOutputs, MyManifest, At
<1>3. UNCHANGED store /\ \A b \in Attempts : UnderWay(b) => TaskOf[b] # TaskOf[a]
  BY DEF Start
<1>. QED BY <1>1, <1>2, <1>3, QuietStep

\* A committed set is seen whole.
LEMMA LookKeeps ==
    ASSUME Pipeline, IInv, NEW a \in Attempts,
           LookAtManifest(a) \/ \E p \in Paths : LookAtOutput(a, p)
    PROVE  IInv'
<1>1. UnderWay(a) /\ UNCHANGED store /\ At(a, "look")
  BY DEF LookAtManifest, LookAtOutput, At, UnderWay
<1>2. CASE Decide(a, "infraFail")
  BY <1>1, <1>2, NoPass, QuietStep DEF Classes
<1>3. ASSUME NEW p \in Paths, LookAtOutput(a, p), ~Decide(a, "infraFail")
      PROVE  IInv'
  <2>1. file[p] \in {"absent", "right"} /\ p \in run[a].todo
    BY <1>3 DEF LookAtOutput, IInv, Typed, Contents
  <2>2. Stands(a) => file[p] = "right" \/ spoiled[p] # {}
    BY <2>1, Shapes DEF IInv, CommitStands, AttemptOK, Stands, MyManifest, MyOutputs
  <2>3. /\ run' \in [Attempts -> RunType]
        /\ \A b \in Attempts \ {a} : run'[b] = run[b]
        /\ run'[a].pc = "look" /\ run'[a].todo = run[a].todo \ {p}
        /\ run'[a].before = IF file[p] = "right" THEN run[a].before \cup {p}
                            ELSE run[a].before
    <3>1. CASE file[p] = "absent"
      BY <1>1, <1>3, <3>1, SMTT(30) DEF LookAtOutput, IInv, Typed, RunType, At
    <3>2. CASE file[p] = "right"
      BY <1>1, <1>3, <3>2, SMTT(30) DEF LookAtOutput, Saw, IInv, Typed, RunType, At
    <3>. QED BY <2>1, <3>1, <3>2
  <2>4. AttemptOK(a)'
    BY <1>1, <2>2, <2>3 DEF IInv, AttemptOK, Held, SeenIn, Stands, MyOutputs, MyManifest, At, store, history
  <2>. QED BY <1>1, <2>3, <2>4, QuietStep
<1>4. ASSUME LookAtManifest(a), ~Decide(a, "infraFail") PROVE IInv'
  <2>1. /\ run' \in [Attempts -> RunType]
        /\ \A b \in Attempts \ {a} : run'[b] = run[b]
        /\ run'[a].pc = "inputs" /\ run'[a].todo = {}
        /\ run'[a].before = run[a].before
        /\ run'[a].committed = (MyManifest(a) = "right")
        /\ run[a].todo = {}
    BY <1>4, SMTT(30) DEF LookAtManifest, IInv, Typed, RunType, PcType
  <2>2. AttemptOK(a)'
    BY <1>1, <2>1 DEF IInv, AttemptOK, Held, SeenIn, Stands, MyOutputs, MyManifest, At, store, history
  <2>. QED BY <1>1, <2>1, <2>2, QuietStep
<1>. QED BY <1>2, <1>3, <1>4

\* Between the look and the publication nothing is touched.
LEMMA CommandKeeps ==
    ASSUME Pipeline, IInv, NEW a \in Attempts,
           \/ CheckInputs(a) \/ CommandEnds(a) \/ Fails(a)
           \/ \E class \in Classes \ {"pass"} : CommandFails(a, class)
    PROVE  IInv'
<1>1. UnderWay(a) /\ UNCHANGED store
  BY DEF CheckInputs, CommandEnds, Fails, CommandFails, At, UnderWay
<1>2. ASSUME NEW class \in Classes \ {"pass"}, Decide(a, class) PROVE IInv'
  BY <1>1, <1>2, NoPass, QuietStep
<1>3. CASE CheckInputs(a) /\ Goto(a, "command")
  <2>1. /\ run' \in [Attempts -> RunType]
        /\ \A b \in Attempts \ {a} : run'[b] = run[b]
        /\ run'[a].pc = "command" /\ run'[a].todo = run[a].todo
        /\ run'[a].before = run[a].before
        /\ run'[a].committed = run[a].committed
        /\ run[a].pc = "inputs"
    BY <1>3, SMTT(30) DEF CheckInputs, Goto, At, IInv, Typed, RunType, PcType
  <2>2. AttemptOK(a)'
    BY <1>1, <2>1 DEF IInv, AttemptOK, Held, SeenIn, Stands, MyOutputs, MyManifest, At, store, history
  <2>. QED BY <1>1, <2>1, <2>2, QuietStep
<1>4. CASE CommandEnds(a) /\ InputsRight(a)
  <2>1. /\ run' \in [Attempts -> RunType]
        /\ \A b \in Attempts \ {a} : run'[b] = run[b]
        /\ run'[a].pc = "publish" /\ run'[a].todo = MyOutputs(a)
        /\ run'[a].before = run[a].before
        /\ run'[a].committed = run[a].committed
        /\ run[a].pc = "command"
    BY <1>4, Shapes, SMTT(30) DEF CommandEnds, At, IInv, Typed, RunType, PcType
  <2>2. AttemptOK(a)'
    BY <1>1, <2>1 DEF IInv, AttemptOK, Held, SeenIn, Stands, MyOutputs, MyManifest, At, store, history
  <2>. QED BY <1>1, <2>1, <2>2, QuietStep
<1>. QED BY <1>2, <1>3, <1>4 DEF CheckInputs, CommandEnds, Fails, CommandFails, Classes

\* The three answers to the look at an output before its link.
LEMMA PublishKeeps ==
    ASSUME Pipeline, IInv, NEW a \in Attempts, NEW p \in Paths,
           PublishKnown(a, p) \/ PublishClear(a, p)
    PROVE  IInv'
<1>1. /\ UnderWay(a) /\ UNCHANGED store /\ run[a].pc = "publish"
      /\ p \in run[a].todo
  BY DEF PublishKnown, PublishClear, At, UnderWay
<1>2. CASE Decide(a, "infraFail")
  BY <1>1, <1>2, NoPass, QuietStep DEF Classes
<1>3. CASE PublishKnown(a, p) /\ file[p] = "right"
  <2>1. /\ run' \in [Attempts -> RunType]
        /\ \A b \in Attempts \ {a} : run'[b] = run[b]
        /\ run'[a].pc = "publish" /\ run'[a].todo = run[a].todo \ {p}
        /\ run'[a].before = run[a].before
        /\ run'[a].committed = run[a].committed
    BY <1>3, SMTT(30) DEF PublishKnown, Done, IInv, Typed, RunType, PcType
  <2>2. AttemptOK(a)'
    BY <1>1, <1>3, <2>1 DEF IInv, AttemptOK, Held, SeenIn, Stands, MyOutputs, MyManifest, At, store, history
  <2>. QED BY <1>1, <2>1, <2>2, QuietStep
<1>4. CASE PublishClear(a, p)
  <2>1. /\ run' \in [Attempts -> RunType]
        /\ \A b \in Attempts \ {a} : run'[b] = run[b]
        /\ run'[a].pc = "link" /\ run'[a].todo = run[a].todo
        /\ run'[a].path = p /\ run'[a].before = run[a].before
        /\ run'[a].committed = run[a].committed
    BY <1>4, ZenonT(60) DEF PublishClear, IInv, Typed, RunType, PcType
  <2>2. AttemptOK(a)'
    BY <1>1, <2>1 DEF IInv, AttemptOK, Held, SeenIn, Stands, MyOutputs, MyManifest, At, store, history
  <2>. QED BY <1>1, <2>1, <2>2, QuietStep
<1>. QED BY <1>2, <1>3, <1>4 DEF PublishKnown

\* The look at the manifest once every output is published.
LEMMA CommitLookKeeps ==
    ASSUME Pipeline, IInv, NEW a \in Attempts, CommitKnown(a) \/ CommitClear(a)
    PROVE  IInv'
<1>1. /\ UnderWay(a) /\ UNCHANGED store /\ run[a].pc = "publish"
      /\ run[a].todo = {}
  BY DEF CommitKnown, CommitClear, Published, At, UnderWay
<1>2. CASE Decide(a, "infraFail")
  BY <1>1, <1>2, NoPass, QuietStep DEF Classes
<1>3. CASE CommitKnown(a) /\ MyManifest(a) = "right"
  <2>0. Decide(a, "pass")
    BY <1>1, <1>3 DEF CommitKnown, CommitClear
  <2>1. /\ run' \in [Attempts -> RunType]
        /\ \A b \in Attempts \ {a} : run'[b] = run[b]
        /\ run'[a].pc = "finish" /\ run'[a].todo = run[a].todo
    BY <2>0, ZenonT(60) DEF Decide, IInv, Typed, RunType, PcType, Classes
  <2>2. AttemptOK(a)'
    BY <1>1, <1>3, <2>1 DEF IInv, AttemptOK, Held, SeenIn, Stands, MyOutputs, MyManifest, At, store, history
  <2>. QED BY <1>1, <2>1, <2>2, QuietStep
<1>4. CASE CommitClear(a)
  <2>1. /\ run' \in [Attempts -> RunType]
        /\ \A b \in Attempts \ {a} : run'[b] = run[b]
        /\ run'[a].pc = "commit" /\ run'[a].todo = {}
        /\ run'[a].committed = FALSE
    <3>1. run' = [run EXCEPT ![a].pc = "commit"] /\ run[a].committed = FALSE
      BY <1>4 DEF CommitClear, Goto, IInv, Typed, RunType
    <3>. QED BY <1>1, <3>1, SMTT(30) DEF IInv, Typed, RunType, PcType
  <2>3. MyManifest(a) = "absent"
    BY <1>4 DEF CommitClear
  <2>2. AttemptOK(a)'
    BY <1>1, <2>1, <2>3 DEF IInv, AttemptOK, Held, SeenIn, Stands, MyOutputs,
           MyManifest, At, store, history
  <2>. QED BY <1>1, <2>1, <2>2, QuietStep
<1>. QED BY <1>2, <1>3, <1>4 DEF CommitKnown

\* Evidence is written, or the pod is gone; no file of a set changes.
LEMMA EndKeeps ==
    ASSUME Pipeline, IInv, NEW a \in Attempts, Finish(a) \/ Crash(a)
    PROVE  IInv'
<1>1. /\ UnderWay(a) /\ UNCHANGED <<file, manifest, spoiled, meddled>>
  BY DEF Finish, Crash, At, UnderWay, store, history
<1>5. /\ run' \in [Attempts -> RunType]
      /\ \A b \in Attempts \ {a} : run'[b] = run[b]
      /\ run'[a].pc = "ended" /\ run'[a].todo = run[a].todo
  BY SMTT(30) DEF Finish, Crash, Goto, IInv, Typed, RunType, PcType
<1>2. AttemptOK(a)'
  BY <1>1, <1>5 DEF IInv, AttemptOK, Held, SeenIn, Stands, MyOutputs, MyManifest, At
<1>3. CASE Crash(a)
  BY <1>1, <1>2, <1>3, <1>5, QuietStep DEF Crash
<1>4. CASE Finish(a)
  <2>1. /\ run[a].pc = "finish"
        /\ evidence' = [evidence EXCEPT ![a] = run[a].class]
        /\ run[a].class \in Classes \cup {"none"}
    BY <1>4, SMTT(30) DEF Finish, At, IInv, Typed, RunType
  <2>2. Typed'
    BY <1>1, <1>5, <2>1 DEF IInv, Typed
  <2>3. Alone'
    BY <1>1, <1>5 DEF IInv, Alone, UnderWay
  <2>4. ASSUME NEW b \in Attempts, b # a PROVE AttemptOK(b)'
    BY <1>1, <1>5, <2>4 DEF IInv, AttemptOK, Held, SeenIn, Stands, MyOutputs, MyManifest, At
  <2>5. CommitStands'
    BY <1>1, <1>5 DEF IInv, CommitStands
  <2>6. PassIsCommitted'
    BY <1>1, <1>5, <2>1 DEF IInv, Typed, PassIsCommitted, AttemptOK, MyManifest, At
  <2>. QED BY <1>2, <2>2, <2>3, <2>4, <2>5, <2>6 DEF IInv
<1>. QED BY <1>3, <1>4

(***************************************************************************)
(* Steps that write or remove.                                             *)
(***************************************************************************)
\* What a command damages is spoiled, and a manifest it forges or undoes is
\* meddled with.
LEMMA IntrudeKeeps ==
    ASSUME Pipeline, IInv, NEW a \in Attempts, Intrude(a)
    PROVE  IInv'
<1>1. /\ UNCHANGED <<evidence, run>> /\ UnderWay(a) /\ At(a, "command")
      /\ Typed
  BY DEF Intrude, At, UnderWay, IInv
<1>2. PICK bytes \in Contents : \/ \E p \in Paths : IntrudeFile(a, p, bytes)
                               \/ \E t \in Tasks : IntrudeManifest(t, bytes)
  BY DEF Intrude
<1>3. /\ file' \in [Paths -> Contents] /\ manifest' \in [Tasks -> Contents]
      /\ spoiled' \in [Paths -> SUBSET Attempts] /\ meddled' \subseteq Tasks
  BY <1>1, <1>2 DEF IntrudeFile, IntrudeManifest, Typed
<1>4. \A p \in Paths : /\ file[p] = "right" => file'[p] = "right" \/ a \in spoiled'[p]
                       /\ spoiled[p] \subseteq spoiled'[p]
  BY <1>1, <1>2 DEF IntrudeFile, IntrudeManifest, Typed
<1>5. /\ meddled \subseteq meddled'
      /\ \A t \in Tasks \ meddled' : manifest'[t] = "right" <=> manifest[t] = "right"
  BY <1>1, <1>2 DEF IntrudeFile, IntrudeManifest, Typed
<1>6. Typed' /\ Alone'
  BY <1>1, <1>3 DEF IInv, Typed, Alone, UnderWay
<1>7. ASSUME NEW b \in Attempts PROVE AttemptOK(b)'
  <2>1. AttemptOK(b) /\ MyOutputs(b) \subseteq Paths /\ TaskOf[b] \in Tasks
    BY Shapes DEF IInv
  <2>2. MyOutputs(b)' = MyOutputs(b) /\ run'[b] = run[b]
    BY <1>1 DEF MyOutputs
  <2>3. Stands(b)' => Stands(b)
    BY <1>5, <2>1 DEF Stands, MyManifest
  <2>4. ASSUME NEW outputs \in SUBSET Paths, SeenIn(b, outputs)
        PROVE  SeenIn(b, outputs)'
    BY <1>1, <1>4, <2>4 DEF SeenIn
  <2>5. run[b].pc \in {"publish", "link", "commit"} =>
          \A p \in MyOutputs(b) \ run[b].todo : Held(b, p)'
    BY <1>1, <1>4, <2>1 DEF AttemptOK, Held, At
  <2>6. MyManifest(b) = "right" \/ TaskOf[b] \in meddled =>
          MyManifest(b)' = "right" \/ TaskOf[b] \in meddled'
    BY <1>5, <2>1 DEF MyManifest
  <2>. QED BY <2>1, <2>2, <2>3, <2>4, <2>5, <2>6 DEF AttemptOK, At
<1>8. CommitStands' /\ PassIsCommitted'
  BY <1>1, <1>4, <1>5, Shapes DEF IInv, CommitStands, PassIsCommitted, MyManifest,
     Pipeline
<1>. QED BY <1>6, <1>7, <1>8 DEF IInv

\* The link creates the output, or finds it there and touches nothing.
LEMMA LinkKeeps ==
    ASSUME Pipeline, IInv, NEW a \in Attempts, Link(a)
    PROVE  IInv'
<1>. DEFINE p == run[a].path
<1>1. /\ UnderWay(a) /\ run[a].pc = "link" /\ UNCHANGED <<manifest, evidence, spoiled, meddled>>
      /\ p \in run[a].todo /\ p \in MyOutputs(a) /\ p \in Paths
  BY Shapes DEF Link, At, UnderWay, IInv, AttemptOK, history
<1>2. CASE file[p] # "absent"
  BY <1>1, <1>2, NoPass, QuietStep DEF Link, store, history, Classes
<1>3. CASE file[p] = "absent"
  <2>1. /\ file' = [file EXCEPT ![p] = "right"] /\ Done(a, p)
    BY <1>3 DEF Link
  <2>. HIDE DEF p
  <2>2. /\ file' \in [Paths -> Contents] /\ file'[p] = "right"
        /\ \A q \in Paths : file[q] = "right" => file'[q] = "right"
    BY <1>1, <2>1 DEF IInv, Typed, Contents
  <2>3. /\ run' \in [Attempts -> RunType]
        /\ \A b \in Attempts \ {a} : run'[b] = run[b]
        /\ run'[a].pc = "publish" /\ run'[a].todo = run[a].todo \ {p}
        /\ run'[a].before = run[a].before
        /\ run'[a].committed = run[a].committed
    BY <2>1, ZenonT(60) DEF Done, IInv, Typed, RunType, PcType
  <2>4. Typed' /\ Alone'
    BY <1>1, <2>2, <2>3 DEF IInv, Typed, Alone, UnderWay
  <2>5. AttemptOK(a)'
    BY <1>1, <2>2, <2>3, Shapes DEF IInv, AttemptOK, Held, SeenIn, Stands, MyOutputs, MyManifest, At
  <2>6. ASSUME NEW b \in Attempts, b # a PROVE AttemptOK(b)'
    BY <1>1, <2>2, <2>3, <2>6, Shapes DEF IInv, AttemptOK, Held, SeenIn, Stands, MyOutputs, MyManifest, At
  <2>7. CommitStands' /\ PassIsCommitted'
    BY <1>1, <2>2 DEF IInv, CommitStands, PassIsCommitted, MyManifest, Pipeline
  <2>. QED BY <2>4, <2>5, <2>6, <2>7 DEF IInv
<1>. QED BY <1>2, <1>3

\* A file that turned up is in no committed set and nobody else's.
LEMMA FoundKeeps ==
    ASSUME Pipeline, Unshared, IInv, NEW a \in Attempts, NEW p \in Paths,
           PublishFound(a, p)
    PROVE  IInv'
<1>1. /\ UnderWay(a) /\ run[a].pc = "publish" /\ UNCHANGED <<manifest, evidence, spoiled, meddled>>
      /\ file' = [file EXCEPT ![p] = "absent"]
      /\ p \in MyOutputs(a) /\ p \notin run[a].before
  BY DEF PublishFound, At, UnderWay, IInv, AttemptOK, history
<1>2. /\ run' \in [Attempts -> RunType]
      /\ \A b \in Attempts \ {a} : run'[b] = run[b]
      /\ run'[a].pc = "finish" /\ AttemptOK(a)'
  BY NoPass DEF PublishFound, Classes
<1>3. /\ file' \in [Paths -> Contents]
      /\ \A q \in Paths \ {p} : file'[q] = file[q]
  BY <1>1 DEF IInv, Typed, Contents
<1>4. ~Stands(a) \/ spoiled[p] # {}
  BY <1>1 DEF IInv, AttemptOK, SeenIn
<1>5. \A t \in Tasks : p \in Outputs[t] => t = TaskOf[a]
  BY <1>1, Shapes DEF Unshared, MyOutputs
<1>6. Typed' /\ Alone'
  BY <1>1, <1>2, <1>3 DEF IInv, Typed, Alone, UnderWay
<1>7. ASSUME NEW b \in Attempts, b # a PROVE AttemptOK(b)'
  <2>1. UnderWay(b) => p \notin MyOutputs(b)
    BY <1>1, <1>5, <1>7, Shapes DEF IInv, Alone, MyOutputs
  <2>2. run'[b] = run[b] /\ AttemptOK(b) /\ MyOutputs(b) \subseteq Paths
    BY <1>2, <1>7, Shapes DEF IInv
  <2>. QED BY <1>1, <1>3, <2>1, <2>2
       DEF AttemptOK, Held, SeenIn, Stands, MyOutputs, MyManifest, At, UnderWay
<1>8. CommitStands'
  BY <1>1, <1>3, <1>4, <1>5 DEF IInv, CommitStands, Stands, MyManifest, Pipeline
<1>9. PassIsCommitted'
  BY <1>1 DEF IInv, PassIsCommitted, MyManifest
<1>. QED BY <1>2, <1>6, <1>7, <1>8, <1>9 DEF IInv

\* A manifest that turned up is not one that an attempt linked.
LEMMA CommitFoundKeeps ==
    ASSUME Pipeline, IInv, NEW a \in Attempts, CommitFound(a)
    PROVE  IInv'
<1>1. /\ UnderWay(a) /\ run[a].pc = "publish" /\ ~run[a].committed
      /\ manifest' = [manifest EXCEPT ![TaskOf[a]] = "absent"]
      /\ UNCHANGED <<file, evidence, spoiled, meddled>>
  BY DEF CommitFound, Published, At, UnderWay, history
<1>2. /\ run' \in [Attempts -> RunType]
      /\ \A b \in Attempts \ {a} : run'[b] = run[b]
      /\ run'[a].pc = "finish" /\ AttemptOK(a)'
  BY NoPass DEF CommitFound, Classes
<1>3. ~Stands(a)
  BY <1>1 DEF IInv, AttemptOK
<1>4. /\ manifest' \in [Tasks -> Contents]
      /\ \A t \in Tasks \ meddled : manifest'[t] = "right" <=> manifest[t] = "right"
  BY <1>1, <1>3, Shapes DEF IInv, Typed, Contents, Stands, MyManifest
<1>5. Typed' /\ Alone'
  BY <1>1, <1>2, <1>4 DEF IInv, Typed, Alone, UnderWay
<1>6. ASSUME NEW b \in Attempts, b # a PROVE AttemptOK(b)'
  <2>1. run'[b] = run[b] /\ AttemptOK(b) /\ TaskOf[b] \in Tasks
    BY <1>2, <1>6, Shapes DEF IInv
  <2>. QED BY <1>1, <1>4, <2>1 DEF AttemptOK, Held, SeenIn, Stands, MyOutputs, MyManifest, At
<1>7. CommitStands' /\ PassIsCommitted'
  BY <1>1, <1>4, Shapes DEF IInv, CommitStands, PassIsCommitted, MyManifest
<1>. QED BY <1>2, <1>5, <1>6, <1>7 DEF IInv

\* The manifest is linked when every output is on file.
LEMMA CommitKeeps ==
    ASSUME Pipeline, IInv, NEW a \in Attempts, Commit(a)
    PROVE  IInv'
<1>1. /\ UnderWay(a) /\ run[a].pc = "commit" /\ UNCHANGED <<file, evidence, spoiled, meddled>>
      /\ \A p \in MyOutputs(a) : Held(a, p)
  BY DEF Commit, At, UnderWay, IInv, AttemptOK, history
<1>2. CASE MyManifest(a) # "absent"
  BY <1>1, <1>2, NoPass, QuietStep DEF Commit, store, history, Classes
<1>3. CASE MyManifest(a) = "absent"
  <2>1. PICK class \in {"pass", "infraFail"} : Decide(a, class)
    BY <1>3 DEF Commit
  <2>2. manifest' = [manifest EXCEPT ![TaskOf[a]] = "right"]
    BY <1>3 DEF Commit
  <2>3. /\ run' \in [Attempts -> RunType]
        /\ \A b \in Attempts \ {a} : run'[b] = run[b]
        /\ run'[a].pc = "finish" /\ run'[a].todo = run[a].todo
    BY <2>1, ZenonT(60) DEF Decide, IInv, Typed, RunType, PcType, Classes
  <2>4. /\ manifest' \in [Tasks -> Contents] /\ manifest'[TaskOf[a]] = "right"
        /\ \A t \in Tasks \ {TaskOf[a]} : manifest'[t] = manifest[t]
    BY <2>2, Shapes DEF IInv, Typed, Contents
  <2>5. Typed' /\ Alone'
    BY <1>1, <2>3, <2>4 DEF IInv, Typed, Alone, UnderWay
  <2>6. AttemptOK(a)'
    BY <1>1, <2>3, <2>4 DEF IInv, AttemptOK, Held, SeenIn, Stands, MyOutputs, MyManifest, At
  <2>7. ASSUME NEW b \in Attempts, b # a PROVE AttemptOK(b)'
    <3>1. UnderWay(b) => TaskOf[b] # TaskOf[a]
      BY <1>1, <2>7 DEF IInv, Alone
    <3>2. run'[b] = run[b] /\ AttemptOK(b) /\ TaskOf[b] \in Tasks
      BY <2>3, <2>7, Shapes DEF IInv
    <3>. QED BY <1>1, <2>4, <3>1, <3>2
         DEF AttemptOK, Held, SeenIn, Stands, MyOutputs, MyManifest, At, UnderWay
  <2>8. CommitStands' /\ PassIsCommitted'
    BY <1>1, <2>4, Shapes DEF IInv, CommitStands, PassIsCommitted, MyManifest, MyOutputs, Held
  <2>. QED BY <2>5, <2>6, <2>7, <2>8 DEF IInv
<1>. QED BY <1>2, <1>3

(***************************************************************************)
(* The theorem.                                                            *)
(***************************************************************************)
LEMMA NextKeeps ==
    ASSUME Pipeline, Unshared, Overlap = FALSE
    PROVE  IInv /\ [Next]_vars => IInv'
<1>. SUFFICES ASSUME IInv, [Next]_vars PROVE IInv'
  OBVIOUS
<1>1. ASSUME NEW a \in Attempts, Attempt(a) PROVE IInv'
  <2>1. CASE Start(a) \/ LookAtManifest(a) \/ \E p \in Paths : LookAtOutput(a, p)
    BY <2>1, StartKeeps, LookKeeps
  <2>2. CASE \/ CheckInputs(a) \/ CommandEnds(a) \/ Fails(a)
             \/ \E class \in Classes \ {"pass"} : CommandFails(a, class)
    BY <2>2, CommandKeeps
  <2>3. CASE Intrude(a) \/ Link(a) \/ CommitFound(a) \/ Commit(a)
    BY <2>3, IntrudeKeeps, LinkKeeps, CommitFoundKeeps, CommitKeeps
  <2>4. ASSUME NEW p \in Paths,
               PublishKnown(a, p) \/ PublishFound(a, p) \/ PublishClear(a, p)
        PROVE  IInv'
    BY <2>4, PublishKeeps, FoundKeeps
  <2>5. CASE CommitKnown(a) \/ CommitClear(a) \/ Finish(a) \/ Crash(a)
    BY <2>5, CommitLookKeeps, EndKeeps
  <2>. QED BY <1>1, <2>1, <2>2, <2>3, <2>4, <2>5 DEF Attempt
<1>2. CASE UNCHANGED vars
  <2>1. UNCHANGED <<store, run>> /\ Typed' /\ Alone'
    BY <1>2 DEF vars, IInv, Typed, Alone, UnderWay, store, history
  <2>2. ASSUME NEW a \in Attempts PROVE AttemptOK(a)'
    BY <2>1 DEF IInv, AttemptOK, Held, SeenIn, Stands, MyOutputs, MyManifest, At,
           store, history
  <2>3. CommitStands' /\ PassIsCommitted'
    BY <2>1 DEF IInv, CommitStands, PassIsCommitted, MyManifest, store, history
  <2>. QED BY <2>1, <2>2, <2>3 DEF IInv
<1>. QED BY <1>1, <1>2 DEF Next

\* Only the last look at the manifest, or its link, decides a pass.
LEMMA PassKeeps ==
    ASSUME Pipeline, IInv, [Next]_vars, NEW a \in Attempts,
           run[a].class # "pass", run'[a].class = "pass"
    PROVE  \A p \in MyOutputs(a) : Held(a, p)
<1>1. CASE UNCHANGED vars
  BY <1>1 DEF vars
<1>2. ASSUME NEW b \in Attempts, Attempt(b) PROVE CommitKnown(a) \/ Commit(a)
  <2>1. run[b] \in RunType /\ run \in [Attempts -> RunType]
    BY DEF IInv, Typed
  <2>2. CASE \/ CommitKnown(b) \/ Commit(b)
    <3>1. \A c \in Attempts \ {b} : run'[c] = run[c]
      BY <2>1, <2>2 DEF CommitKnown, Commit, Decide
    <3>. QED BY <2>2, <3>1
  <2>3. CASE \/ Start(b) \/ LookAtManifest(b) \/ CheckInputs(b) \/ CommandEnds(b)
             \/ CommitFound(b) \/ CommitClear(b) \/ Fails(b)
    <3>1. \/ Decide(b, "infraFail")
          \/ run'[a].class = run[a].class
      BY <2>1, <2>3, SMTT(30) DEF Start, LookAtManifest, CheckInputs, CommandEnds,
         CommitFound, CommitClear, Fails, Goto, RunType
    <3>. QED BY <2>1, <3>1 DEF Decide, RunType
  <2>4. CASE \E p \in Paths : \/ LookAtOutput(b, p) \/ PublishKnown(b, p)
                              \/ PublishFound(b, p) \/ PublishClear(b, p)
    <3>1. \/ Decide(b, "infraFail")
          \/ run'[a].class = run[a].class
      <4>1. PICK p \in Paths : \/ LookAtOutput(b, p) \/ PublishKnown(b, p)
                              \/ PublishFound(b, p) \/ PublishClear(b, p)
        BY <2>4
      <4>2. file[p] \in Contents
        BY DEF IInv, Typed
      <4>3. CASE LookAtOutput(b, p)
        <5>1. CASE file[p] = "absent"
          BY <2>1, <4>3, <5>1 DEF LookAtOutput, RunType
        <5>2. CASE file[p] = "right"
          BY <2>1, <4>3, <5>2 DEF LookAtOutput, Saw, RunType
        <5>3. CASE file[p] = "wrong"
          BY <4>3, <5>3 DEF LookAtOutput
        <5>. QED BY <4>2, <5>1, <5>2, <5>3 DEF Contents
      <4>4. CASE PublishKnown(b, p)
        BY <2>1, <4>4 DEF PublishKnown, Done, RunType
      <4>5. CASE PublishFound(b, p)
        BY <4>5 DEF PublishFound
      <4>6. CASE PublishClear(b, p)
        BY <2>1, <4>6 DEF PublishClear, RunType
      <4>. QED BY <4>1, <4>3, <4>4, <4>5, <4>6
    <3>. QED BY <2>1, <3>1 DEF Decide, RunType
  <2>5. CASE Link(b) \/ Finish(b) \/ Crash(b) \/ Intrude(b)
    <3>1. \/ Decide(b, "infraFail")
          \/ run'[a].class = run[a].class
      BY <2>1, <2>5, SMTT(30) DEF Link, Finish, Crash, Intrude, Goto, Done, RunType
    <3>. QED BY <2>1, <3>1 DEF Decide, RunType
  <2>6. ASSUME NEW class \in Classes \ {"pass"}, CommandFails(b, class)
        PROVE  FALSE
    BY <2>1, <2>6 DEF CommandFails, Decide, RunType
  <2>. QED BY <1>2, <2>2, <2>3, <2>4, <2>5, <2>6 DEF Attempt
<1>3. CASE CommitKnown(a) \/ Commit(a)
  <2>1. run[a].pc \in {"publish", "commit"} /\ run[a].todo = {}
    BY <1>3 DEF CommitKnown, Commit, Published, At, IInv, AttemptOK
  <2>. QED BY <2>1 DEF IInv, AttemptOK
<1>. QED BY <1>1, <1>2, <1>3 DEF Next

\* While its manifest is there, the output set of a task is whole, and evidence
\* of a pass has the manifest behind it (ExecuteTask), but for what a command has
\* changed or removed itself: whatever crashes, fails or intrudes, if a task has
\* one attempt at a time and a path of its own for each output.
THEOREM CommittedSetsAreWhole ==
    ASSUME Pipeline, Unshared, Overlap = FALSE
    PROVE  Spec => [](CommitStands /\ PassIsCommitted)
<1>1. IInv => CommitStands /\ PassIsCommitted
  BY DEF IInv
<1>2. Init => IInv
  BY InitOK
<1>3. IInv /\ [Next]_vars => IInv'
  BY NextKeeps
<1>. QED BY <1>1, <1>2, <1>3, PTL DEF Spec

\* An attempt decides a pass only when every output is there, whatever its own
\* command did to those that were there before (ExecuteTask hashes them again),
\* unless the command of another attempt damaged one.
THEOREM PassesAreHonest ==
    ASSUME Pipeline, Unshared, Overlap = FALSE
    PROVE  Spec => PassIsHonest
<1>1. Init => IInv
  BY InitOK
<1>2. IInv /\ [Next]_vars => IInv'
  BY NextKeeps
<1>3. IInv /\ [Next]_vars =>
        [\A a \in Attempts :
            run[a].class # "pass" /\ run'[a].class = "pass" =>
                \A p \in MyOutputs(a) : Held(a, p)]_vars
  BY PassKeeps
<1>. QED BY <1>1, <1>2, <1>3, PTL DEF Spec, PassIsHonest
=============================================================================
