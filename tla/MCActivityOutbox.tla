-------------------------- MODULE MCActivityOutbox --------------------------
(***************************************************************************)
(* Small instances of ActivityOutbox: two sources, two subscribers, events *)
(* that reach them for different reasons.  New announcements are drawn     *)
(* from one budget; faults, edits of the interests and ticks of the clock  *)
(* (between operations) from another.                                      *)
(***************************************************************************)
EXTENDS ActivityOutbox

CONSTANTS Announced, Disturbed

Ann == "ann"
Bob == "bob"

Envelope(id, source, action) ==
    [id |-> id, source |-> source, object |-> "o1", noun |-> "run",
     action |-> action, actor |-> "cid", hop |-> 0, places |-> {"repo"},
     mentions |-> {}, assignees |-> {}, owner |-> {}, dependsOn |-> {},
     members |-> {}]

\* A run both are told of; a read; a run ann and bob hear of by standing
\* interest, ownership or membership, announced again with other inputs.
MCEnvelopes ==
    {[Envelope("e1", "weave", "finish") EXCEPT !.mentions = {Ann},
                                               !.members = {Ann, Bob}],
     [Envelope("e1", "weave", "finish") EXCEPT !.owner = {Bob}],
     [Envelope("e2", "mb", "create") EXCEPT !.owner = {Ann}],
     [Envelope("e3", "mb", "read") EXCEPT !.members = {Bob},
                                          !.dependsOn = {"o2"}]}

NoFilter == [sources |-> {}, nouns |-> {}, actions |-> {}, objects |-> {},
             places |-> {}, audit |-> FALSE, wake |-> TRUE, mute |-> FALSE]
MCDeclarations == {[NoFilter EXCEPT !.places = {"repo"}, !.audit = TRUE],
                   [NoFilter EXCEPT !.mute = TRUE]}

MCSubscribers == {Ann, Bob}
MCSourceOrder == [mb |-> 1, weave |-> 2]

VARIABLE left

mcvars == <<vars, left>>

Spend(what) == /\ left[what] > 0
               /\ left' = [left EXCEPT ![what] = @ - 1]

MCInit == /\ Init
          /\ left = [announced |-> Announced, disturbed |-> Disturbed]

MCNext ==
    \/ Delivery /\ UNCHANGED left
    \/ Recover /\ UNCHANGED left
    \/ (\E e \in Envelopes : EmitResumed(e)) /\ UNCHANGED left
    \/ (\E e \in Envelopes : EmitNew(e)) /\ Spend("announced")
    \/ Faults /\ Spend("disturbed")
    \/ Interests /\ Spend("disturbed")
    \/ Tick /\ op = Idle /\ Spend("disturbed")

MCSpec == MCInit /\ [][MCNext]_mcvars
FairSpec == MCSpec /\ Fairness
=============================================================================
