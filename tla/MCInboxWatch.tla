---------------------------- MODULE MCInboxWatch ----------------------------
(***************************************************************************)
(* Small instances of InboxWatch: a bounded number of records, of watches  *)
(* that are started, and of disturbances: lost events, turns, cards filed  *)
(* by a --peek, ends of sessions, watches and card holders.                *)
(***************************************************************************)
EXTENDS InboxWatch

CONSTANTS Written, Watches, Disturbed,
    Modes  \* of the card that is there at first

VARIABLE left

mcvars == <<vars, left>>

Spend(what) == /\ left[what] > 0
               /\ left' = [left EXCEPT ![what] = @ - 1]

\* A card is there at first: that of a managed session which lives, or is gone,
\* or a --peek's of a session which lives.
MCInit == /\ Init /\ card.mode \in Modes
          /\ card.mode = "peek" => card.session # "gone"
          /\ left = [written |-> Written, watches |-> Watches,
                     disturbed |-> Disturbed]

MCNext ==
    \/ Loop /\ UNCHANGED left
    \/ (Notify \/ RescanDue) /\ UNCHANGED left
    \/ (\E s \in Sessions : Claim(s)) /\ Spend("watches")
    \/ Post(FALSE) /\ Spend("written")
    \/ /\ Post(TRUE)
       /\ left.written > 0 /\ left.disturbed > 0
       /\ left' = [left EXCEPT !.written = @ - 1, !.disturbed = @ - 1]
    \/ Disturbance /\ Spend("disturbed")
    \/ PeekLapses /\ UNCHANGED left
    \/ TurnStart /\ Spend("disturbed")
    \/ (Turn /\ ~TurnStart) /\ UNCHANGED left

MCSpec == MCInit /\ [][MCNext]_mcvars
FairSpec == MCSpec /\ Fairness
=============================================================================
