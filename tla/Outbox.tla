-------------------------------- MODULE Outbox --------------------------------
(***************************************************************************)
(* What the webhook deliveries promise for one target, without             *)
(* dispatchers, tokens, leases or retry times: a stored alert that is      *)
(* wanted gets at most MaxTries tries and no more posts than tries, some of *)
(* them perhaps after the end, and ends once, as delivered only when the   *)
(* endpoint has a copy.                                                    *)
(***************************************************************************)
EXTENDS Naturals

CONSTANTS Alerts, Wanted, MaxTries

VARIABLES
    alerts,   \* alerts that are stored
    outcome,  \* "open", or how the delivery of an alert ended
    tries,    \* attempts that were begun
    posts,    \* POSTs of an alert
    copies    \* those that the endpoint took

outVars == <<alerts, outcome, tries, posts, copies>>

OutInit ==
    /\ alerts = {}
    /\ outcome = [a \in Alerts |-> "open"]
    /\ tries = [a \in Alerts |-> 0]
    /\ posts = [a \in Alerts |-> 0]
    /\ copies = [a \in Alerts |-> 0]

Store(a) ==
    /\ a \notin alerts
    /\ alerts' = alerts \cup {a}
    /\ UNCHANGED <<outcome, tries, posts, copies>>

Begin(a) ==
    /\ a \in alerts \cap Wanted
    /\ outcome[a] = "open" /\ tries[a] < MaxTries
    /\ tries' = [tries EXCEPT ![a] = @ + 1]
    /\ UNCHANGED <<alerts, outcome, posts, copies>>

\* Every POST is one of a try that was begun, taken by the endpoint or not.
Send(a) ==
    /\ posts[a] < tries[a]
    /\ posts' = [posts EXCEPT ![a] = @ + 1]
    /\ copies' = copies \/ copies' = [copies EXCEPT ![a] = @ + 1]
    /\ UNCHANGED <<alerts, outcome, tries>>

End(a, how) ==
    /\ outcome[a] = "open"
    /\ outcome' = [outcome EXCEPT ![a] = how]
    /\ UNCHANGED <<alerts, tries, posts, copies>>

Deliver(a) == copies[a] > 0 /\ End(a, "delivered")

GiveUp(a) == tries[a] > 0 /\ End(a, "permanent_failure")

Discard(a) == a \in alerts \ Wanted /\ End(a, "filtered")

OutNext ==
    \E a \in Alerts :
        Store(a) \/ Begin(a) \/ Send(a) \/ Deliver(a) \/ GiveUp(a) \/ Discard(a)

OutSpec == OutInit /\ [][OutNext]_outVars
=============================================================================
