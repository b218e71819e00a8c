-------------------------- MODULE ActivityRouting --------------------------
(***************************************************************************)
(* The interest-routing matrix of internal/agentos/activity/route.go: who  *)
(* is told of an event, for which reason, and whether it may interrupt.    *)
(*                                                                         *)
(* An envelope carries its routing inputs as sets of names; an interest is *)
(* one subscriber's standing declaration.  The human-readable "why", the   *)
(* folding of case and the trimming of names are left out: names are model *)
(* values, equal or not.                                                   *)
(***************************************************************************)
EXTENDS Integers, FiniteSets

CONSTANTS
    Subscribers,  \* identities that can be told of an event
    MaxHop        \* the length of a chain of reactions that is refused

\* Mutant: a standing interest comes before ownership.
ReasonsByInterest == <<"mention", "assignment", "subscription",
                       "ownership", "dependency", "membership">>

\* reasonPrecedence, strongest first.
Reasons == <<"mention", "assignment", "ownership",
             "subscription", "dependency", "membership">>
Rank == [r \in {Reasons[i] : i \in 1 .. 6} |->
            CHOOSE i \in 1 .. 6 : Reasons[i] = r]
WakeReasons == {"mention", "assignment", "ownership"}

\* An empty filter admits everything, and so does "*".
Passes(filter, value) == filter = {} \/ {value, "*"} \cap filter # {}

\* The filters of an interest, which bind for every reason.
Admits(in, e) == /\ Passes(in.sources, e.source)
                 /\ Passes(in.nouns, e.noun)
                 /\ Passes(in.actions, e.action)

\* What a declared interest matches on its own: an object, a place of the
\* event's scope, or a whole stream when it names neither.
SubscriptionMatch(in, e) ==
    /\ ~in.mute
    /\ Admits(in, e)
    /\ \/ e.object \in in.objects
       \/ in.places \cap e.places # {}
       \/ /\ in.places = {} /\ in.objects = {}
          /\ in.sources # {} \/ in.nouns # {}

\* The interests on file are a function from subscribers; each claim on a
\* subscriber's attention is offered under its reason.
Claims(e, interests) ==
    {<<s, "mention">> : s \in e.mentions}
    \cup {<<s, "assignment">> : s \in e.assignees}
    \cup {<<s, "ownership">> : s \in e.owner}
    \cup {<<s, "subscription">> :
            s \in {x \in DOMAIN interests : SubscriptionMatch(interests[x], e)}}
    \cup {<<s, "dependency">> :
            s \in {x \in DOMAIN interests :
                      interests[x].objects \cap e.dependsOn # {}}}
    \cup {<<s, "membership">> : s \in e.members}

\* The conditions under which `offer` takes a claim.
Offered(s, reason, e, interests) ==
    LET known == s \in DOMAIN interests
    IN /\ s # e.actor
       /\ known => ~interests[s].mute /\ Admits(interests[s], e)
       /\ e.action = "read" =>
             /\ known
             /\ interests[s].audit \/ "read" \in interests[s].actions
             /\ reason # "membership"

MayWake(s, reason, interests) ==
    /\ reason \in WakeReasons
    /\ s \in DOMAIN interests => interests[s].wake

\* Route: every recipient, under its strongest reason.
Route(e, interests) ==
    LET offers == {c \in Claims(e, interests) :
                      Offered(c[1], c[2], e, interests)}
        Strongest(s) == CHOOSE r \in {c[2] : c \in {o \in offers : o[1] = s}} :
                            \A c \in offers : c[1] = s => Rank[r] <= Rank[c[2]]
    IN IF e.source = "activity" \/ e.hop >= MaxHop THEN [s \in {} |-> {}]
       ELSE [s \in {c[1] : c \in offers} |->
                [reason |-> Strongest(s),
                 wake |-> MayWake(s, Strongest(s), interests)]]
=============================================================================
