------------------------------- MODULE Webhook -------------------------------
(***************************************************************************)
(* Webhook deliveries of one target: the table webhook_deliveries of       *)
(* storage/backend.py and the dispatchers of workers/webhook_dispatcher.py.*)
(* A delivery is claimed for one attempt, posted and completed under the   *)
(* token of its claim.  A dispatcher may die, its lease may expire under a *)
(* slow POST (the timeout is per socket operation), and the endpoint may   *)
(* take an alert whose answer never arrives.                               *)
(*                                                                         *)
(* The token of a claim is the number of its attempt.  Expiry of a lease   *)
(* and the due time of a retry are steps that may come at any moment.      *)
(***************************************************************************)
EXTENDS Naturals, FiniteSets

CONSTANTS
    Alerts,        \* alerts that may be stored
    Wanted,        \* those the severity policy lets through
    Dispatchers,   \* dispatcher processes
    NoAlert,       \* no alert
    HookAttempts   \* webhook_max_attempts

ASSUME HookAssumption ==
    /\ Wanted \subseteq Alerts
    /\ NoAlert \notin Alerts
    /\ HookAttempts \in Nat \ {0}

VARIABLES
    alerts,      \* the table alerts
    delivery,    \* rows of webhook_deliveries
    dispatcher,  \* step and locals of dispatch_once
    posts,       \* history: POSTs of an alert
    accepted,    \* history: POSTs the endpoint took
    doubts       \* history: attempts whose outcome nobody could record

hookVars == <<alerts, delivery, dispatcher, posts, accepted, doubts>>

Settled == {"delivered", "permanent_failure", "filtered"}
Verdicts == {"delivered", "retryable", "permanent_failure"}

NoDelivery == [status |-> "none", attempts |-> 0, token |-> 0, live |-> FALSE, due |-> TRUE]

AtRest == [at |-> "idle", rows |-> {}, on |-> NoAlert, token |-> 0, verdict |-> "retryable"]

Deliveries == [status : {"none", "in_progress", "retryable"} \cup Settled, attempts : Nat,
               token : 0..HookAttempts, live : BOOLEAN, due : BOOLEAN]

DispatcherLocals == [at : {"idle", "next", "resolve", "post", "complete"}, rows : SUBSET Alerts,
           on : Alerts \cup {NoAlert}, token : 0..HookAttempts, verdict : Verdicts]

HookTypeOK ==
    /\ alerts \subseteq Alerts
    /\ delivery \in [Alerts -> Deliveries]
    /\ dispatcher \in [Dispatchers -> DispatcherLocals]
    /\ posts \in [Alerts -> Nat] /\ accepted \in [Alerts -> Nat] /\ doubts \in [Alerts -> Nat]

HookInit ==
    /\ alerts = {}
    /\ delivery = [a \in Alerts |-> NoDelivery]
    /\ dispatcher = [w \in Dispatchers |-> AtRest]
    /\ posts = [a \in Alerts |-> 0]
    /\ accepted = [a \in Alerts |-> 0]
    /\ doubts = [a \in Alerts |-> 0]

-----------------------------------------------------------------------------
(* The table. *)

StoreAlert(a) ==
    /\ a \notin alerts
    /\ alerts' = alerts \cup {a}
    /\ UNCHANGED <<delivery, dispatcher, posts, accepted, doubts>>

\* Bug: a delivery whose dispatcher died in its last attempt is not listed.
PendingUnlessExhausted(a) ==
    LET d == delivery[a] IN
    /\ a \in alerts
    /\ d.status \in {"none", "in_progress", "retryable"}
    /\ d.attempts < HookAttempts /\ d.due /\ ~d.live

\* pending_webhooks: not tried yet, due again, or left by a dead dispatcher, in
\* its last attempt too.
Pending(a) ==
    LET d == delivery[a] IN
    /\ a \in alerts
    /\ d.status \in {"none", "in_progress", "retryable"}
    /\ \/ d.attempts < HookAttempts /\ d.due
       \/ d.status = "in_progress" /\ d.attempts >= HookAttempts
    /\ ~d.live

\* The first two statements of claim_webhook_delivery: there is a row, and it is
\* given up when a lease expired on its last attempt.
GivenUp(a) ==
    LET d == delivery[a] IN
    IF d.status = "in_progress" /\ d.attempts >= HookAttempts /\ ~d.live
    THEN [d EXCEPT !.status = "permanent_failure", !.token = 0] ELSE d

\* Bug: a claim that is still live is taken over.
MayClaimThoughLive(a) ==
    /\ delivery[a].status \in {"none", "in_progress", "retryable"}
    /\ delivery[a].attempts < HookAttempts /\ delivery[a].due

\* Bug: the attempts are compared after one too many.
MayClaimOnceMore(a) ==
    /\ delivery[a].status \in {"none", "in_progress", "retryable"}
    /\ delivery[a].attempts <= HookAttempts /\ delivery[a].due /\ ~delivery[a].live

\* The conditions of its third statement.
MayClaim(a) ==
    /\ delivery[a].status \in {"none", "in_progress", "retryable"}
    /\ delivery[a].attempts < HookAttempts /\ delivery[a].due /\ ~delivery[a].live

\* Bug: completion looks at the delivery and not at the claim.
IsCurrentOfAnyone(w) == delivery[dispatcher[w].on].status # "filtered"

\* The row is in progress under the token of this dispatcher.  The expiry is
\* compared with the time of the claim, so it never refuses.
IsCurrent(w) ==
    LET d == delivery[dispatcher[w].on] IN
    d.status = "in_progress" /\ d.token = dispatcher[w].token

\* The lease of a row runs out, under a working dispatcher or a dead one.
LeaseExpires(a) ==
    /\ delivery[a].live
    /\ delivery' = [delivery EXCEPT ![a].live = FALSE]
    /\ doubts' = IF \E w \in Dispatchers : dispatcher[w].on = a /\ IsCurrent(w)
                 THEN [doubts EXCEPT ![a] = @ + 1] ELSE doubts
    /\ UNCHANGED <<alerts, dispatcher, posts, accepted>>

PostIsDue(a) ==
    /\ ~delivery[a].due
    /\ delivery' = [delivery EXCEPT ![a].due = TRUE]
    /\ UNCHANGED <<alerts, dispatcher, posts, accepted, doubts>>

-----------------------------------------------------------------------------
(* A dispatcher: dispatch_once. *)

ReadPending(w) ==
    /\ dispatcher[w].at = "idle"
    /\ \E a \in Alerts : Pending(a)
    /\ dispatcher' = [dispatcher EXCEPT ![w].at = "next",
                                        ![w].rows = {a \in Alerts : Pending(a)}]
    /\ UNCHANGED <<alerts, delivery, posts, accepted, doubts>>

\* record_webhook_delivery: INSERT OR REPLACE, whatever the row was; another
\* dispatcher with the same list counts one more attempt.
Filter(w, a) ==
    /\ dispatcher[w].at = "next" /\ a \in dispatcher[w].rows \ Wanted
    /\ delivery' = [delivery EXCEPT ![a] =
                      [NoDelivery EXCEPT !.status = "filtered", !.attempts = delivery[a].attempts + 1]]
    /\ dispatcher' = [dispatcher EXCEPT ![w].rows = @ \ {a}]
    /\ UNCHANGED <<alerts, posts, accepted, doubts>>

\* claim_webhook_delivery.
ClaimDelivery(w, a) ==
    /\ dispatcher[w].at = "next" /\ a \in dispatcher[w].rows \cap Wanted
    /\ IF MayClaim(a)
       THEN /\ delivery' = [delivery EXCEPT ![a] =
                  [status |-> "in_progress", attempts |-> @.attempts + 1,
                   token |-> @.attempts + 1, live |-> TRUE, due |-> TRUE]]
            /\ dispatcher' = [dispatcher EXCEPT ![w] =
                  [@ EXCEPT !.at = "resolve", !.rows = dispatcher[w].rows \ {a}, !.on = a,
                            !.token = delivery[a].attempts + 1]]
       ELSE /\ delivery' = [delivery EXCEPT ![a] = GivenUp(a)]
            /\ dispatcher' = [dispatcher EXCEPT ![w].rows = @ \ {a}]
    /\ UNCHANGED <<alerts, posts, accepted, doubts>>

EndRound(w) ==
    /\ dispatcher[w].at = "next" /\ dispatcher[w].rows = {}
    /\ dispatcher' = [dispatcher EXCEPT ![w] = AtRest]
    /\ UNCHANGED <<alerts, delivery, posts, accepted, doubts>>

\* validate_resolved_endpoint: addresses, none for now, or one that is not allowed.
Resolve(w) ==
    /\ dispatcher[w].at = "resolve"
    /\ \/ dispatcher' = [dispatcher EXCEPT ![w].at = "post"]
       \/ \E v \in {"retryable", "permanent_failure"} :
            dispatcher' = [dispatcher EXCEPT ![w].at = "complete", ![w].verdict = v]
    /\ UNCHANGED <<alerts, delivery, posts, accepted, doubts>>

\* post_webhook: refused, taken and answered, or taken without an answer that says so.
Post(w) ==
    /\ dispatcher[w].at = "post"
    /\ LET a == dispatcher[w].on IN
       \E taken \in BOOLEAN, v \in Verdicts :
         /\ v = "delivered" => taken
         /\ posts' = [posts EXCEPT ![a] = @ + 1]
         /\ accepted' = IF taken THEN [accepted EXCEPT ![a] = @ + 1] ELSE accepted
         /\ doubts' = IF taken /\ v # "delivered"
                      THEN [doubts EXCEPT ![a] = @ + 1] ELSE doubts
         /\ dispatcher' = [dispatcher EXCEPT ![w].at = "complete", ![w].verdict = v]
    /\ UNCHANGED <<alerts, delivery>>

\* The verdict that is stored: the last attempt is not tried again.
Outcome(w) ==
    IF dispatcher[w].verdict = "retryable" /\ dispatcher[w].token >= HookAttempts
    THEN "permanent_failure" ELSE dispatcher[w].verdict

\* complete_webhook_delivery; its answer is not looked at.
CompleteDelivery(w) ==
    /\ dispatcher[w].at = "complete"
    /\ delivery' = IF IsCurrent(w)
                   THEN [delivery EXCEPT ![dispatcher[w].on] =
                           [@ EXCEPT !.status = Outcome(w), !.token = 0, !.live = FALSE,
                                     !.due = Outcome(w) # "retryable"]]
                   ELSE delivery
    /\ dispatcher' = [dispatcher EXCEPT ![w] = [AtRest EXCEPT !.at = "next",
                                                              !.rows = dispatcher[w].rows]]
    /\ UNCHANGED <<alerts, posts, accepted, doubts>>

\* The process dies, or is stopped between two rows.
Die(w) ==
    /\ dispatcher[w].at # "idle"
    /\ dispatcher' = [dispatcher EXCEPT ![w] = AtRest]
    /\ doubts' = IF dispatcher[w].at = "complete" /\ dispatcher[w].verdict = "delivered"
                 THEN [doubts EXCEPT ![dispatcher[w].on] = @ + 1] ELSE doubts
    /\ UNCHANGED <<alerts, delivery, posts, accepted>>

-----------------------------------------------------------------------------
Treat(w, a) == Filter(w, a) \/ ClaimDelivery(w, a)

Dispatching(w) == Resolve(w) \/ Post(w) \/ CompleteDelivery(w)

HookNext ==
    \/ \E a \in Alerts : StoreAlert(a) \/ LeaseExpires(a) \/ PostIsDue(a)
    \/ \E w \in Dispatchers :
         \/ ReadPending(w) \/ (\E a \in Alerts : Treat(w, a)) \/ EndRound(w)
         \/ Dispatching(w) \/ Die(w)

HookSpec == HookInit /\ [][HookNext]_hookVars

\* Time passes, a dispatcher polls for ever (systemd restarts it), and it does not
\* die every time before it treats a row it has read.
HookFairness ==
    /\ \A a \in Alerts : WF_hookVars(LeaseExpires(a)) /\ WF_hookVars(PostIsDue(a))
    /\ \A w \in Dispatchers :
         /\ WF_hookVars(ReadPending(w)) /\ WF_hookVars(EndRound(w)) /\ WF_hookVars(Dispatching(w))
         /\ \A a \in Alerts : SF_hookVars(Treat(w, a))

-----------------------------------------------------------------------------
(* Properties. *)

\* No alert is posted more often than webhook_max_attempts, whatever dispatchers
\* die and whatever leases expire under a POST.
PostsStayInBudget == \A a \in Alerts : posts[a] <= HookAttempts

\* The endpoint gets another copy of an alert only after an attempt whose outcome
\* could not be recorded: the answer was lost, the dispatcher died with it, or the
\* lease expired under it.
CopiesAreExplained == \A a \in Alerts : accepted[a] <= doubts[a] + 1

\* A delivery that is settled stays as it was settled, also when a dispatcher that
\* was taken over completes late; and "delivered" is only said of an alert the
\* endpoint took.
SettledStays ==
    [][\A a \in Alerts :
         /\ delivery[a].status \in Settled => delivery'[a].status = delivery[a].status
         /\ delivery'[a].status = "delivered" => accepted'[a] > 0]_hookVars

\* How a delivery ended, and the attempts that were begun: what is left of a row
\* without tokens, leases and retry times.  An alert that is filtered has none.
Ended == [a \in Alerts |->
            IF delivery[a].status \in Settled THEN delivery[a].status ELSE "open"]

Begun == [a \in Alerts |-> IF a \in Wanted THEN delivery[a].attempts ELSE 0]

Out == INSTANCE Outbox WITH MaxTries <- HookAttempts,
            outcome <- Ended, tries <- Begun, copies <- accepted

\* Whatever dispatchers die, lose their claims and complete late, they do what Outbox
\* promises: an alert ends once, as delivered only when the endpoint has a copy, is not
\* begun again after it ended, and is never posted without an attempt of its own.
ImplementsOutbox == Out!OutSpec

\* Every stored alert is settled in the end, also when every attempt kills its
\* dispatcher, the last one included.
EveryAlertSettles ==
    \A a \in Alerts : (a \in alerts) ~> (delivery[a].status \in Settled)
=============================================================================
