------------------------ MODULE AtLeastOnceDelivery ------------------------
(***************************************************************************)
(* What the activity outbox promises, without journal, lock or process: an *)
(* accepted event is owed to a fixed set of recipients, copies are handed  *)
(* over in any order and possibly more than once, the debt is settled only *)
(* when every recipient has one, and only settled events are forgotten.    *)
(***************************************************************************)
EXTENDS Integers

CONSTANTS Ids, Subscribers

VARIABLES
    owed,      \* a function from the owed events to their recipients
    settled,   \* events every recipient of which was served
    copies     \* copies handed to each subscriber

channel == <<owed, settled, copies>>

NothingOwed == [i \in {} |-> {}]

ChannelInit == /\ owed = NothingOwed
               /\ settled = {}
               /\ copies = [i \in Ids |-> [s \in Subscribers |-> 0]]

Accept(i, to) ==
    /\ i \notin DOMAIN owed \cup settled
    /\ owed' = [j \in DOMAIN owed \cup {i} |-> IF j = i THEN to ELSE owed[j]]
    /\ UNCHANGED <<settled, copies>>

HandOver(i, s) ==
    /\ i \in DOMAIN owed
    /\ s \in owed[i]
    /\ copies' = [copies EXCEPT ![i][s] = @ + 1]
    /\ UNCHANGED <<owed, settled>>

Settle(i) ==
    /\ i \in DOMAIN owed
    /\ \A s \in owed[i] : copies[i][s] > 0
    /\ owed' = [j \in DOMAIN owed \ {i} |-> owed[j]]
    /\ settled' = settled \cup {i}
    /\ UNCHANGED copies

Forget(gone) ==
    /\ gone \subseteq settled
    /\ settled' = settled \ gone
    /\ UNCHANGED <<owed, copies>>

ChannelNext ==
    \/ \E i \in Ids, to \in SUBSET Subscribers : Accept(i, to)
    \/ \E i \in Ids, s \in Subscribers : HandOver(i, s)
    \/ \E i \in Ids : Settle(i)
    \/ \E gone \in SUBSET settled : Forget(gone)

ChannelSpec == ChannelInit /\ [][ChannelNext]_channel

\* Every accepted event is settled in the end.
EveryDebtIsSettled == \A i \in Ids : i \in DOMAIN owed ~> i \notin DOMAIN owed
=============================================================================
