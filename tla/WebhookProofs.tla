---------------------------- MODULE WebhookProofs ----------------------------
(* Theorems about Webhook, for any alerts, any number of dispatchers and any *)
(* limit on attempts.                                                        *)
EXTENDS Webhook, FiniteSetTheorems, TLAPS

Engaged == {"resolve", "post", "complete"}

\* A dispatcher past its claim works on a wanted alert under a token the row has
\* given out, and reports as delivered only what the endpoint took.
WorkIsClaimed ==
    \A w \in Dispatchers :
        dispatcher[w].at \in Engaged =>
            /\ dispatcher[w].on \in Wanted
            /\ dispatcher[w].token \in 1..delivery[dispatcher[w].on].attempts
            /\ dispatcher[w].at = "complete" /\ dispatcher[w].verdict = "delivered"
                  => accepted[dispatcher[w].on] > 0

\* Two dispatchers never work on one alert under the same token.
TokensDiffer ==
    \A v, w \in Dispatchers :
        /\ dispatcher[v].at \in Engaged /\ dispatcher[w].at \in Engaged
        /\ dispatcher[v].on = dispatcher[w].on /\ dispatcher[v].token = dispatcher[w].token
        => v = w

\* What a row says: a live lease means work in progress, a delivery means that the
\* endpoint took the alert, and an unwanted alert is never posted.
RowsAreTrue ==
    \A a \in Alerts :
        /\ a \in Wanted => delivery[a].attempts <= HookAttempts
        /\ delivery[a].live => delivery[a].status = "in_progress"
        /\ delivery[a].status = "delivered" => accepted[a] > 0
        /\ a \notin Wanted => /\ delivery[a].status \in {"none", "filtered"}
                              /\ posts[a] = 0 /\ accepted[a] = 0

HInv == HookTypeOK /\ WorkIsClaimed /\ TokensDiffer /\ RowsAreTrue

-----------------------------------------------------------------------------
(* Types and claims. *)

LEMMA HookInitial ==
    ASSUME HookInit
    PROVE  HInv
  BY HookAssumption DEF HookInit, HInv, HookTypeOK, WorkIsClaimed, TokensDiffer, RowsAreTrue,
     NoDelivery, AtRest, Deliveries, DispatcherLocals, Settled, Verdicts, Engaged

LEMMA HookStutter ==
    ASSUME HInv, UNCHANGED hookVars
    PROVE  HInv'
  BY DEF hookVars, HInv, HookTypeOK, WorkIsClaimed, TokensDiffer, RowsAreTrue

LEMMA StoreKeeps ==
    ASSUME HInv, NEW a \in Alerts, StoreAlert(a)
    PROVE  HInv'
  BY DEF StoreAlert, HInv, HookTypeOK, WorkIsClaimed, TokensDiffer, RowsAreTrue

LEMMA ClockKeeps ==
    ASSUME HInv, NEW a \in Alerts, LeaseExpires(a) \/ PostIsDue(a)
    PROVE  HInv'
  <1>1. /\ UNCHANGED <<alerts, dispatcher, posts, accepted>>
        /\ delivery' \in [Alerts -> Deliveries]
        /\ \A b \in Alerts :
              /\ delivery'[b].status = delivery[b].status
              /\ delivery'[b].attempts = delivery[b].attempts
              /\ delivery'[b].live => delivery[b].live
    <2>0. delivery \in [Alerts -> Deliveries] /\ delivery[a] \in Deliveries
      BY DEF HInv, HookTypeOK
    <2>1. CASE LeaseExpires(a)
      <3>1. delivery' = [delivery EXCEPT ![a] = [delivery[a] EXCEPT !.live = FALSE]]
        BY <2>1 DEF LeaseExpires
      <3>2. [delivery[a] EXCEPT !.live = FALSE] \in Deliveries
        BY <2>0 DEF Deliveries
      <3> QED
        BY <2>0, <2>1, <3>1, <3>2 DEF LeaseExpires, Deliveries
    <2>2. CASE PostIsDue(a)
      <3>1. delivery' = [delivery EXCEPT ![a] = [delivery[a] EXCEPT !.due = TRUE]]
        BY <2>2 DEF PostIsDue
      <3>2. [delivery[a] EXCEPT !.due = TRUE] \in Deliveries
        BY <2>0 DEF Deliveries
      <3> QED
        BY <2>0, <2>2, <3>1, <3>2 DEF PostIsDue, Deliveries
    <2> QED
      BY <2>1, <2>2
  <1>2. doubts' \in [Alerts -> Nat]
    BY DEF LeaseExpires, PostIsDue, HInv, HookTypeOK
  <1>3. HookTypeOK'
    BY <1>1, <1>2 DEF HInv, HookTypeOK
  <1>4. \A w \in Dispatchers : dispatcher[w].at \in Engaged =>
           dispatcher[w].on \in Alerts
    BY HookAssumption DEF HInv, WorkIsClaimed
  <1> QED
    BY <1>1, <1>3, <1>4 DEF HInv, WorkIsClaimed, TokensDiffer, RowsAreTrue

LEMMA AtRestTyped == AtRest \in DispatcherLocals
  BY HookAssumption DEF AtRest, DispatcherLocals, Verdicts

LEMMA NoDeliveryTyped == NoDelivery \in Deliveries
  BY HookAssumption DEF NoDelivery, Deliveries

\* The locals of a dispatcher stay well typed.
LEMMA LocalsTyped ==
    ASSUME NEW l \in DispatcherLocals, NEW rows \in SUBSET Alerts
    PROVE  /\ [l EXCEPT !.rows = rows] \in DispatcherLocals
           /\ [l EXCEPT !.at = "next", !.rows = rows] \in DispatcherLocals
           /\ [l EXCEPT !.at = "post"] \in DispatcherLocals
           /\ \A v \in Verdicts :
                [l EXCEPT !.at = "complete", !.verdict = v] \in DispatcherLocals
           /\ \A a \in Alerts, t \in 0..HookAttempts :
                [l EXCEPT !.at = "resolve", !.rows = rows, !.on = a, !.token = t]
                    \in DispatcherLocals
  <1>2. /\ [l EXCEPT !.rows = rows] \in DispatcherLocals
        /\ [l EXCEPT !.at = "next", !.rows = rows] \in DispatcherLocals
    BY DEF DispatcherLocals
  <1>3. [l EXCEPT !.at = "post"] \in DispatcherLocals
    BY DEF DispatcherLocals
  <1>4. ASSUME NEW v \in Verdicts
        PROVE  [l EXCEPT !.at = "complete", !.verdict = v] \in DispatcherLocals
    BY DEF DispatcherLocals
  <1>5. ASSUME NEW a \in Alerts, NEW t \in 0..HookAttempts
        PROVE  [l EXCEPT !.at = "resolve", !.rows = rows, !.on = a, !.token = t]
                    \in DispatcherLocals
    BY DEF DispatcherLocals
  <1> QED
    BY <1>2, <1>3, <1>4, <1>5

\* A dispatcher that is not engaged afterwards disturbs nothing.
LEMMA LeavingKeeps ==
    ASSUME HInv, NEW w \in Dispatchers, NEW l \in DispatcherLocals, l.at \notin Engaged,
           dispatcher' = [dispatcher EXCEPT ![w] = l],
           UNCHANGED <<alerts, delivery, posts, accepted>>, doubts' \in [Alerts -> Nat]
    PROVE  HInv'
  <1>1. /\ dispatcher' \in [Dispatchers -> DispatcherLocals]
        /\ dispatcher'[w].at \notin Engaged
        /\ \A v \in Dispatchers \ {w} : dispatcher'[v] = dispatcher[v]
    BY DEF HInv, HookTypeOK
  <1> QED
    BY <1>1 DEF HInv, HookTypeOK, WorkIsClaimed, TokensDiffer, RowsAreTrue

LEMMA RoundKeeps ==
    ASSUME HInv, NEW w \in Dispatchers, ReadPending(w) \/ EndRound(w) \/ Die(w)
    PROVE  HInv'
  <1>0. dispatcher[w] \in DispatcherLocals /\ doubts \in [Alerts -> Nat]
    BY DEF HInv, HookTypeOK
  <1>1. CASE ReadPending(w)
    <2> DEFINE rows == {a \in Alerts : Pending(a)}
               l == [dispatcher[w] EXCEPT !.at = "next", !.rows = rows]
    <2>1. dispatcher' = [dispatcher EXCEPT ![w] = l]
      BY <1>0, <1>1 DEF ReadPending
    <2>2. l \in DispatcherLocals /\ l.at \notin Engaged
      <3>1. rows \in SUBSET Alerts
        OBVIOUS
      <3> HIDE DEF rows
      <3> QED
        BY <1>0, <3>1, LocalsTyped DEF Engaged, DispatcherLocals
    <2> HIDE DEF l
    <2> QED
      BY <1>0, <1>1, <2>1, <2>2, LeavingKeeps DEF ReadPending
  <1>2. CASE EndRound(w)
    <2>1. AtRest.at \notin Engaged
      BY DEF AtRest, Engaged
    <2> QED
      BY <1>0, <1>2, <2>1, AtRestTyped, LeavingKeeps DEF EndRound
  <1>3. CASE Die(w)
    <2>1. AtRest.at \notin Engaged
      BY DEF AtRest, Engaged
    <2>2. doubts' \in [Alerts -> Nat]
      <3>1. CASE dispatcher[w].at = "complete"
        <4>1. dispatcher[w].on \in Alerts
          BY <3>1, HookAssumption DEF HInv, WorkIsClaimed, Engaged
        <4> QED
          BY <1>0, <1>3, <4>1 DEF Die
      <3>2. CASE dispatcher[w].at # "complete"
        BY <1>0, <1>3, <3>2 DEF Die
      <3> QED
        BY <3>1, <3>2
    <2>3. /\ dispatcher' = [dispatcher EXCEPT ![w] = AtRest]
          /\ UNCHANGED <<alerts, delivery, posts, accepted>>
      BY <1>3 DEF Die
    <2> QED
      BY <2>1, <2>2, <2>3, AtRestTyped, LeavingKeeps
  <1> QED
    BY <1>1, <1>2, <1>3

\* A row that is given up is one that nobody could claim any more.
LEMMA GivenUpLemma ==
    ASSUME HInv, NEW a \in Alerts
    PROVE  /\ GivenUp(a) \in Deliveries
           /\ GivenUp(a).attempts = delivery[a].attempts
           /\ GivenUp(a).live = delivery[a].live
           /\ \/ GivenUp(a) = delivery[a]
              \/ /\ delivery[a].status = "in_progress" /\ ~delivery[a].live
                 /\ GivenUp(a).status = "permanent_failure"
  <1> DEFINE lost == [delivery[a] EXCEPT !.status = "permanent_failure", !.token = 0]
  <1>1. delivery[a] \in Deliveries
    BY DEF HInv, HookTypeOK
  <1>2. lost \in Deliveries
    <2>1. "permanent_failure" \in {"none", "in_progress", "retryable"} \cup Settled
      BY DEF Settled
    <2>2. 0 \in 0..HookAttempts
      BY HookAssumption
    <2> QED
      BY <1>1, <2>1, <2>2 DEF Deliveries
  <1>3. /\ lost.attempts = delivery[a].attempts /\ lost.live = delivery[a].live
        /\ lost.status = "permanent_failure"
    BY <1>1 DEF Deliveries
  <1>4. \/ GivenUp(a) = delivery[a]
        \/ /\ delivery[a].status = "in_progress" /\ ~delivery[a].live
           /\ GivenUp(a) = lost
    BY DEF GivenUp
  <1> HIDE DEF lost
  <1> QED
    BY <1>1, <1>2, <1>3, <1>4

LEMMA FilterKeeps ==
    ASSUME HInv, NEW w \in Dispatchers, NEW a \in Alerts, Filter(w, a)
    PROVE  HInv'
  <1> DEFINE row == [NoDelivery EXCEPT !.status = "filtered",
                                       !.attempts = delivery[a].attempts + 1]
             l == [dispatcher[w] EXCEPT !.rows = dispatcher[w].rows \ {a}]
  <1>0. dispatcher[w] \in DispatcherLocals /\ a \notin Wanted
    BY DEF HInv, HookTypeOK, Filter
  <1>1. row \in Deliveries /\ row.status = "filtered" /\ ~row.live
    <2>1. ~NoDelivery.live
      BY DEF NoDelivery
    <2>2. delivery[a].attempts + 1 \in Nat
      BY <1>0 DEF HInv, HookTypeOK, Deliveries
    <2> QED
      BY <2>1, <2>2, NoDeliveryTyped DEF Deliveries, Settled
  <1>2. l \in DispatcherLocals /\ l.at \notin Engaged
    <2>1. dispatcher[w].rows \ {a} \in SUBSET Alerts /\ dispatcher[w].at = "next"
      BY <1>0 DEF DispatcherLocals, Filter
    <2>2. l \in DispatcherLocals
      BY <1>0, <2>1, LocalsTyped
    <2> QED
      BY <1>0, <2>1, <2>2 DEF DispatcherLocals, Engaged
  <1>3. /\ delivery' = [delivery EXCEPT ![a] = row]
        /\ dispatcher' = [dispatcher EXCEPT ![w] = l]
        /\ UNCHANGED <<alerts, posts, accepted, doubts>>
    BY <1>0 DEF Filter, NoDelivery
  <1> HIDE DEF row, l
  <1>4. /\ dispatcher' \in [Dispatchers -> DispatcherLocals]
        /\ delivery' \in [Alerts -> Deliveries]
        /\ dispatcher'[w].at \notin Engaged
        /\ \A v \in Dispatchers \ {w} : dispatcher'[v] = dispatcher[v]
        /\ delivery'[a] = row
        /\ \A b \in Alerts \ {a} : delivery'[b] = delivery[b]
    BY <1>1, <1>2, <1>3 DEF HInv, HookTypeOK
  <1>5. HookTypeOK'
    BY <1>3, <1>4 DEF HInv, HookTypeOK
  <1>6. WorkIsClaimed' /\ TokensDiffer'
    BY <1>0, <1>3, <1>4, HookAssumption DEF HInv, WorkIsClaimed, TokensDiffer
  <1>7. RowsAreTrue'
    BY <1>0, <1>1, <1>3, <1>4, HookAssumption DEF HInv, RowsAreTrue
  <1> QED
    BY <1>5, <1>6, <1>7 DEF HInv

LEMMA ClaimKeeps ==
    ASSUME HInv, NEW w \in Dispatchers, NEW a \in Alerts, ClaimDelivery(w, a)
    PROVE  HInv'
  <1>0. /\ dispatcher[w] \in DispatcherLocals /\ delivery[a] \in Deliveries /\ a \in Wanted
        /\ dispatcher[w].at = "next"
        /\ UNCHANGED <<alerts, posts, accepted, doubts>>
    BY DEF HInv, HookTypeOK, ClaimDelivery
  <1>1. CASE MayClaim(a)
    <2> DEFINE n == delivery[a].attempts + 1
               row == [status |-> "in_progress", attempts |-> n, token |-> n,
                       live |-> TRUE, due |-> TRUE]
               l == [dispatcher[w] EXCEPT !.at = "resolve", !.rows = dispatcher[w].rows \ {a},
                                          !.on = a, !.token = n]
    <2>1. n \in 1..HookAttempts
      BY <1>0, <1>1, HookAssumption DEF MayClaim, Deliveries
    <2>2. row \in Deliveries
      BY <2>1, HookAssumption DEF Deliveries
    <2>3. /\ l \in DispatcherLocals
          /\ l.at = "resolve" /\ l.on = a /\ l.token = n
      <3>1. n \in 0..HookAttempts /\ dispatcher[w].rows \ {a} \in SUBSET Alerts
        BY <1>0, <2>1 DEF DispatcherLocals
      <3> HIDE DEF n
      <3>2. l \in DispatcherLocals
        BY <1>0, <3>1, LocalsTyped
      <3> QED
        BY <1>0, <3>2 DEF DispatcherLocals
    <2>4. delivery' = [delivery EXCEPT ![a] = row]
      BY <1>1 DEF ClaimDelivery
    <2>10. dispatcher' = [dispatcher EXCEPT ![w] = l]
      BY <1>0, <1>1 DEF ClaimDelivery, DispatcherLocals
    <2> HIDE DEF l
    <2>5. /\ dispatcher' \in [Dispatchers -> DispatcherLocals]
          /\ delivery' \in [Alerts -> Deliveries]
          /\ dispatcher'[w] = l
          /\ \A v \in Dispatchers \ {w} : dispatcher'[v] = dispatcher[v]
          /\ delivery'[a] = row
          /\ \A b \in Alerts \ {a} : delivery'[b] = delivery[b]
      BY <2>2, <2>3, <2>4, <2>10 DEF HInv, HookTypeOK
    <2>6. HookTypeOK'
      BY <1>0, <2>5 DEF HInv, HookTypeOK
    <2>7. WorkIsClaimed'
      <3> SUFFICES ASSUME NEW v \in Dispatchers, dispatcher'[v].at \in Engaged
                   PROVE  /\ dispatcher'[v].on \in Wanted
                          /\ dispatcher'[v].token \in 1..delivery'[dispatcher'[v].on].attempts
                          /\ dispatcher'[v].at = "complete" /\ dispatcher'[v].verdict = "delivered"
                                => accepted'[dispatcher'[v].on] > 0
        BY DEF WorkIsClaimed
      <3>1. CASE v = w
        BY <1>0, <2>1, <2>3, <2>5, <3>1
      <3>2. CASE v # w
        <4>1. dispatcher'[v] = dispatcher[v] /\ dispatcher[v].on \in Alerts
          BY <2>5, <3>2, HookAssumption DEF HInv, WorkIsClaimed
        <4>2. /\ dispatcher[v].on \in Wanted
              /\ dispatcher[v].token \in 1..delivery[dispatcher[v].on].attempts
              /\ dispatcher[v].at = "complete" /\ dispatcher[v].verdict = "delivered"
                    => accepted[dispatcher[v].on] > 0
          BY <4>1 DEF HInv, WorkIsClaimed
        <4>3. CASE dispatcher[v].on = a
          BY <1>0, <2>1, <2>5, <4>1, <4>2, <4>3 DEF Deliveries
        <4>4. CASE dispatcher[v].on # a
          BY <1>0, <2>5, <4>1, <4>2, <4>4
        <4> QED
          BY <4>3, <4>4
      <3> QED
        BY <3>1, <3>2
    <2>8. TokensDiffer'
      <3>1. \A v \in Dispatchers : dispatcher[v].at \in Engaged /\ dispatcher[v].on = a
                                      => dispatcher[v].token # n
        BY <1>0 DEF HInv, WorkIsClaimed, Deliveries
      <3> QED
        BY <2>3, <2>5, <3>1 DEF HInv, TokensDiffer
    <2>9. RowsAreTrue'
      BY <1>0, <2>1, <2>5 DEF HInv, RowsAreTrue
    <2> QED
      BY <2>6, <2>7, <2>8, <2>9 DEF HInv
  <1>2. CASE ~MayClaim(a)
    <2> DEFINE l == [dispatcher[w] EXCEPT !.rows = dispatcher[w].rows \ {a}]
    <2>1. l \in DispatcherLocals /\ l.at \notin Engaged
      BY <1>0, LocalsTyped DEF DispatcherLocals, Engaged
    <2>2. /\ delivery' = [delivery EXCEPT ![a] = GivenUp(a)]
          /\ dispatcher' = [dispatcher EXCEPT ![w] = l]
      BY <1>0, <1>2 DEF ClaimDelivery
    <2> HIDE DEF l
    <2>3. /\ dispatcher' \in [Dispatchers -> DispatcherLocals]
          /\ delivery' \in [Alerts -> Deliveries]
          /\ dispatcher'[w].at \notin Engaged
          /\ \A v \in Dispatchers \ {w} : dispatcher'[v] = dispatcher[v]
          /\ delivery'[a] = GivenUp(a)
          /\ \A b \in Alerts \ {a} : delivery'[b] = delivery[b]
      BY <2>1, <2>2, GivenUpLemma DEF HInv, HookTypeOK
    <2>4. HookTypeOK'
      BY <1>0, <2>3 DEF HInv, HookTypeOK
    <2>5. \A b \in Alerts : delivery'[b].attempts = delivery[b].attempts
      BY <2>3, GivenUpLemma
    <2>6. WorkIsClaimed' /\ TokensDiffer'
      BY <1>0, <2>3, <2>5, HookAssumption DEF HInv, WorkIsClaimed, TokensDiffer
    <2>7. RowsAreTrue'
      BY <1>0, <2>3, <2>5, GivenUpLemma DEF HInv, RowsAreTrue
    <2> QED
      BY <2>4, <2>6, <2>7 DEF HInv
  <1> QED
    BY <1>1, <1>2

\* A dispatcher goes on with its alert, and what the endpoint took is not less.
LEMMA WorkingKeeps ==
    ASSUME HInv, NEW w \in Dispatchers, Resolve(w) \/ Post(w)
    PROVE  HInv'
  <1>0. /\ dispatcher[w] \in DispatcherLocals /\ dispatcher[w].at \in Engaged
        /\ dispatcher[w].on \in Wanted /\ dispatcher[w].on \in Alerts
        /\ UNCHANGED <<alerts, delivery>>
    BY HookAssumption DEF HInv, HookTypeOK, WorkIsClaimed, Resolve, Post, Engaged
  <1>1. /\ posts' \in [Alerts -> Nat] /\ accepted' \in [Alerts -> Nat]
        /\ doubts' \in [Alerts -> Nat]
        /\ \A a \in Alerts : accepted[a] > 0 => accepted'[a] > 0
        /\ \A a \in Alerts : a # dispatcher[w].on
              => posts'[a] = posts[a] /\ accepted'[a] = accepted[a]
    BY <1>0 DEF HInv, HookTypeOK, Resolve, Post
  <1>2. \/ dispatcher' = [dispatcher EXCEPT ![w] = [dispatcher[w] EXCEPT !.at = "post"]]
        \/ \E v \in Verdicts :
              /\ dispatcher' = [dispatcher EXCEPT ![w] =
                                  [dispatcher[w] EXCEPT !.at = "complete", !.verdict = v]]
              /\ v = "delivered" => accepted'[dispatcher[w].on] > 0
    <2>1. CASE Resolve(w)
      BY <2>1 DEF Resolve, Verdicts
    <2>2. CASE Post(w)
      <3>1. PICK taken \in BOOLEAN, v \in Verdicts :
              /\ v = "delivered" => taken
              /\ accepted' = IF taken THEN [accepted EXCEPT ![dispatcher[w].on] = @ + 1]
                                      ELSE accepted
              /\ dispatcher' = [dispatcher EXCEPT ![w].at = "complete", ![w].verdict = v]
        BY <2>2 DEF Post
      <3>3. dispatcher' = [dispatcher EXCEPT ![w] =
                             [dispatcher[w] EXCEPT !.at = "complete", !.verdict = v]]
        BY <1>0, <3>1 DEF HInv, HookTypeOK, DispatcherLocals
      <3>2. v = "delivered" => accepted'[dispatcher[w].on] > 0
        BY <1>0, <3>1 DEF HInv, HookTypeOK
      <3> QED
        BY <3>2, <3>3
    <2> QED
      BY <2>1, <2>2
  <1>3. ASSUME NEW l \in DispatcherLocals,
               l.at \in Engaged, l.on = dispatcher[w].on, l.token = dispatcher[w].token,
               l.at = "complete" /\ l.verdict = "delivered" => accepted'[l.on] > 0,
               dispatcher' = [dispatcher EXCEPT ![w] = l]
        PROVE  HInv'
    <2>1. /\ dispatcher' \in [Dispatchers -> DispatcherLocals]
          /\ dispatcher'[w] = l
          /\ \A v \in Dispatchers \ {w} : dispatcher'[v] = dispatcher[v]
      BY <1>3 DEF HInv, HookTypeOK
    <2>2. HookTypeOK'
      BY <1>0, <1>1, <2>1 DEF HInv, HookTypeOK
    <2>3. WorkIsClaimed' /\ TokensDiffer'
      BY <1>0, <1>1, <1>3, <2>1, HookAssumption DEF HInv, WorkIsClaimed, TokensDiffer
    <2>4. RowsAreTrue'
      BY <1>0, <1>1 DEF HInv, RowsAreTrue
    <2> QED
      BY <2>2, <2>3, <2>4 DEF HInv
  <1>4. CASE dispatcher' = [dispatcher EXCEPT ![w] = [dispatcher[w] EXCEPT !.at = "post"]]
    <2> DEFINE l == [dispatcher[w] EXCEPT !.at = "post"]
    <2>1. /\ l \in DispatcherLocals
          /\ l.at = "post" /\ l.on = dispatcher[w].on /\ l.token = dispatcher[w].token
      BY <1>0, LocalsTyped DEF DispatcherLocals
    <2> HIDE DEF l
    <2> QED
      BY <1>3, <1>4, <2>1 DEF Engaged, l
  <1>5. ASSUME NEW v \in Verdicts,
               dispatcher' = [dispatcher EXCEPT ![w] =
                                [dispatcher[w] EXCEPT !.at = "complete", !.verdict = v]],
               v = "delivered" => accepted'[dispatcher[w].on] > 0
        PROVE  HInv'
    <2> DEFINE l == [dispatcher[w] EXCEPT !.at = "complete", !.verdict = v]
    <2>1. /\ l \in DispatcherLocals
          /\ l.at = "complete" /\ l.on = dispatcher[w].on /\ l.token = dispatcher[w].token
          /\ l.verdict = v
      BY <1>0, LocalsTyped DEF DispatcherLocals
    <2> HIDE DEF l
    <2> QED
      BY <1>3, <1>5, <2>1 DEF Engaged, l
  <1> QED
    BY <1>2, <1>4, <1>5

LEMMA CompleteKeeps ==
    ASSUME HInv, NEW w \in Dispatchers, CompleteDelivery(w)
    PROVE  HInv'
  <1> DEFINE a == dispatcher[w].on
             l == [AtRest EXCEPT !.at = "next", !.rows = dispatcher[w].rows]
             row == [delivery[a] EXCEPT !.status = Outcome(w), !.token = 0, !.live = FALSE,
                                        !.due = Outcome(w) # "retryable"]
  <1>0. /\ dispatcher[w] \in DispatcherLocals /\ dispatcher[w].at = "complete"
        /\ a \in Wanted /\ a \in Alerts /\ delivery[a] \in Deliveries
        /\ dispatcher[w].verdict = "delivered" => accepted[a] > 0
        /\ UNCHANGED <<alerts, posts, accepted, doubts>>
    BY HookAssumption DEF HInv, HookTypeOK, WorkIsClaimed, CompleteDelivery, Engaged
  <1>1. l \in DispatcherLocals /\ l.at \notin Engaged
    <2>1. dispatcher[w].rows \in SUBSET Alerts
      BY <1>0 DEF DispatcherLocals
    <2>2. l \in DispatcherLocals
      BY <2>1, AtRestTyped, LocalsTyped
    <2> QED
      BY AtRestTyped, <2>2 DEF DispatcherLocals, Engaged
  <1>2. /\ Outcome(w) \in Verdicts
        /\ Outcome(w) = "delivered" => accepted[a] > 0
    BY <1>0 DEF Outcome, DispatcherLocals, Verdicts
  <1>3. /\ row \in Deliveries /\ row.status = Outcome(w)
        /\ row.attempts = delivery[a].attempts /\ ~row.live
    <2>1. Outcome(w) \in {"none", "in_progress", "retryable"} \cup Settled
      BY <1>2 DEF Verdicts, Settled
    <2>2. 0 \in 0..HookAttempts
      BY HookAssumption
    <2> QED
      BY <1>0, <2>1, <2>2 DEF Deliveries
  <1>4. /\ dispatcher' = [dispatcher EXCEPT ![w] = l]
        /\ \/ delivery' = delivery
           \/ delivery' = [delivery EXCEPT ![a] = row]
    BY DEF CompleteDelivery
  <1> HIDE DEF a, l, row
  <1>5. /\ dispatcher' \in [Dispatchers -> DispatcherLocals]
        /\ delivery' \in [Alerts -> Deliveries]
        /\ dispatcher'[w].at \notin Engaged
        /\ \A v \in Dispatchers \ {w} : dispatcher'[v] = dispatcher[v]
        /\ delivery'[a] = delivery[a] \/ delivery'[a] = row
        /\ \A b \in Alerts \ {a} : delivery'[b] = delivery[b]
    BY <1>0, <1>1, <1>3, <1>4 DEF HInv, HookTypeOK
  <1>6. HookTypeOK'
    BY <1>0, <1>5 DEF HInv, HookTypeOK
  <1>7. \A b \in Alerts : delivery'[b].attempts = delivery[b].attempts
    BY <1>0, <1>3, <1>5
  <1>8. WorkIsClaimed' /\ TokensDiffer'
    BY <1>0, <1>5, <1>7, HookAssumption DEF HInv, WorkIsClaimed, TokensDiffer
  <1>9. RowsAreTrue'
    BY <1>0, <1>2, <1>3, <1>5 DEF HInv, RowsAreTrue
  <1> QED
    BY <1>6, <1>8, <1>9 DEF HInv

LEMMA HookInductive ==
    ASSUME HInv, [HookNext]_hookVars
    PROVE  HInv'
  BY StoreKeeps, ClockKeeps, RoundKeeps, FilterKeeps, ClaimKeeps, WorkingKeeps, CompleteKeeps,
     HookStutter DEF HookNext, Treat, Dispatching

LEMMA HookInvariant == HookSpec => []HInv
  BY HookInitial, HookInductive, PTL DEF HookSpec

\* Every row and every local of a dispatcher has its type in every state.
THEOREM HookTypeCorrect == HookSpec => []HookTypeOK
  <1>1. HInv => HookTypeOK
    BY DEF HInv
  <1> QED
    BY <1>1, HookInvariant, PTL

-----------------------------------------------------------------------------
(* Settled deliveries. *)

LEMMA SettledStep ==
    ASSUME HInv, HInv', [HookNext]_hookVars, NEW a \in Alerts
    PROVE  /\ delivery[a].status \in Settled => delivery'[a].status = delivery[a].status
           /\ delivery'[a].status = "delivered" => accepted'[a] > 0
  <1>1. delivery'[a].status = "delivered" => accepted'[a] > 0
    BY DEF HInv, RowsAreTrue
  <1>2. ASSUME delivery[a].status \in Settled
        PROVE  delivery'[a].status = delivery[a].status
    <2>0. delivery \in [Alerts -> Deliveries] /\ delivery[a] \in Deliveries
      BY DEF HInv, HookTypeOK
    <2>1. ASSUME NEW b \in Alerts, StoreAlert(b) \/ LeaseExpires(b) \/ PostIsDue(b)
          PROVE  delivery'[a].status = delivery[a].status
      BY <2>0, <2>1 DEF StoreAlert, LeaseExpires, PostIsDue, Deliveries
    <2>2. ASSUME NEW w \in Dispatchers,
                 ReadPending(w) \/ EndRound(w) \/ Resolve(w) \/ Post(w) \/ Die(w)
          PROVE  delivery'[a].status = delivery[a].status
      BY <2>2 DEF ReadPending, EndRound, Resolve, Post, Die
    <2>3. ASSUME NEW w \in Dispatchers, NEW b \in Alerts, Filter(w, b)
          PROVE  delivery'[a].status = delivery[a].status
      <3>1. CASE b = a
        <4>1. delivery[a].status = "filtered"
          BY <1>2, <2>3, <3>1 DEF Filter, HInv, RowsAreTrue, Settled
        <4>2. delivery'[a].status = "filtered"
          BY <2>0, <2>3, <3>1 DEF Filter, NoDelivery
        <4> QED
          BY <4>1, <4>2
      <3>2. CASE b # a
        BY <2>0, <2>3, <3>2 DEF Filter
      <3> QED
        BY <3>1, <3>2
    <2>4. ASSUME NEW w \in Dispatchers, NEW b \in Alerts, ClaimDelivery(w, b)
          PROVE  delivery'[a].status = delivery[a].status
      <3>1. CASE b = a
        <4>1. ~MayClaim(a) /\ GivenUp(a) = delivery[a]
          BY <1>2 DEF MayClaim, GivenUp, Settled
        <4> QED
          BY <2>0, <2>4, <3>1, <4>1 DEF ClaimDelivery
      <3>2. CASE b # a
        BY <2>0, <2>4, <3>2 DEF ClaimDelivery
      <3> QED
        BY <3>1, <3>2
    <2>5. ASSUME NEW w \in Dispatchers, CompleteDelivery(w)
          PROVE  delivery'[a].status = delivery[a].status
      <3>1. IsCurrent(w) => dispatcher[w].on # a
        BY <1>2 DEF IsCurrent, Settled
      <3> QED
        BY <2>0, <2>5, <3>1 DEF CompleteDelivery
    <2>6. CASE UNCHANGED hookVars
      BY <2>6 DEF hookVars
    <2> QED
      BY <2>1, <2>2, <2>3, <2>4, <2>5, <2>6 DEF HookNext, Treat, Dispatching
  <1> QED
    BY <1>1, <1>2

\* Late completions of a dispatcher that was taken over change nothing: a settled
\* delivery stays as it is, and "delivered" is said only of what the endpoint took.
THEOREM SettledDeliveriesStay == HookSpec => SettledStays
  <1>1. HInv /\ HInv' /\ [HookNext]_hookVars =>
          [\A a \in Alerts :
             /\ delivery[a].status \in Settled => delivery'[a].status = delivery[a].status
             /\ delivery'[a].status = "delivered" => accepted'[a] > 0]_hookVars
    BY SettledStep
  <1> QED
    BY <1>1, HookInvariant, PTL DEF HookSpec, SettledStays

-----------------------------------------------------------------------------
(* The limit on posts: an attempt is counted when it is claimed. *)

\* Dispatchers that may still post alert a.
Posting(a) ==
    {w \in Dispatchers : dispatcher[w].at \in {"resolve", "post"} /\ dispatcher[w].on = a}

\* Every post made or still to come has been counted as an attempt.
Budget(a) ==
    /\ IsFiniteSet(Posting(a))
    /\ posts[a] + Cardinality(Posting(a)) <= delivery[a].attempts

BInv == HInv /\ \A a \in Wanted : Budget(a)

\* Only the dispatcher that takes a step changes its locals.
LEMMA OthersWait ==
    ASSUME HInv, NEW w \in Dispatchers,
           \/ ReadPending(w) \/ EndRound(w) \/ Dispatching(w) \/ Die(w)
           \/ \E a \in Alerts : Treat(w, a)
    PROVE  \A v \in Dispatchers \ {w} : dispatcher'[v] = dispatcher[v]
  BY DEF HInv, HookTypeOK, ReadPending, EndRound, Dispatching, Resolve, Post, CompleteDelivery,
     Die, Treat, Filter, ClaimDelivery

\* A subset of a finite set is not larger.
LEMMA Shrinks ==
    ASSUME NEW S, NEW T \in SUBSET S, IsFiniteSet(S)
    PROVE  /\ IsFiniteSet(T) /\ Cardinality(T) \in Nat /\ Cardinality(S) \in Nat
           /\ Cardinality(T) <= Cardinality(S)
           /\ \A x \in S \ T : Cardinality(T) <= Cardinality(S) - 1
  <1>1. /\ IsFiniteSet(T) /\ Cardinality(T) \in Nat /\ Cardinality(S) \in Nat
        /\ Cardinality(T) <= Cardinality(S)
    BY FS_Subset, FS_CardinalityType
  <1>2. ASSUME NEW x \in S \ T
        PROVE  Cardinality(T) <= Cardinality(S) - 1
    <2>1. IsFiniteSet(S \ {x}) /\ Cardinality(S \ {x}) = Cardinality(S) - 1
      BY FS_RemoveElement
    <2>2. T \in SUBSET (S \ {x})
      OBVIOUS
    <2> QED
      BY <2>1, <2>2, FS_Subset
  <1> QED
    BY <1>1, <1>2

LEMMA BudgetKept ==
    ASSUME HInv, HInv', NEW a \in Wanted, Budget(a),
           Posting(a)' \in SUBSET Posting(a), posts'[a] = posts[a],
           delivery'[a].attempts >= delivery[a].attempts
    PROVE  Budget(a)'
  <1>1. a \in Alerts /\ posts[a] \in Nat /\ delivery[a] \in Deliveries /\ delivery'[a] \in Deliveries
    BY HookAssumption DEF HInv, HookTypeOK
  <1>2. /\ IsFiniteSet(Posting(a)') /\ Cardinality(Posting(a)') \in Nat
        /\ Cardinality(Posting(a)) \in Nat
        /\ Cardinality(Posting(a)') <= Cardinality(Posting(a))
    BY Shrinks DEF Budget
  <1>3. posts[a] + Cardinality(Posting(a)) <= delivery[a].attempts
    BY DEF Budget
  <1>4. posts'[a] + Cardinality(Posting(a)') <= delivery'[a].attempts
    BY <1>1, <1>2, <1>3 DEF Deliveries
  <1> QED
    BY <1>2, <1>4 DEF Budget

LEMMA BudgetStep ==
    ASSUME HInv, HInv', [HookNext]_hookVars, NEW a \in Wanted, Budget(a)
    PROVE  Budget(a)'
  <1>0. /\ a \in Alerts /\ posts \in [Alerts -> Nat]
        /\ delivery \in [Alerts -> Deliveries] /\ delivery[a] \in Deliveries
        /\ dispatcher \in [Dispatchers -> DispatcherLocals]
        /\ dispatcher' \in [Dispatchers -> DispatcherLocals]
    BY HookAssumption DEF HInv, HookTypeOK
  <1>1. CASE UNCHANGED hookVars
    BY <1>1 DEF hookVars, Budget, Posting
  <1>2. ASSUME NEW b \in Alerts, StoreAlert(b) \/ LeaseExpires(b) \/ PostIsDue(b)
        PROVE  Budget(a)'
    <2>1. dispatcher' = dispatcher /\ posts' = posts
      BY <1>2 DEF StoreAlert, LeaseExpires, PostIsDue
    <2>2. delivery'[a].attempts = delivery[a].attempts
      BY <1>0, <1>2 DEF StoreAlert, LeaseExpires, PostIsDue, Deliveries
    <2>3. Posting(a)' \in SUBSET Posting(a)
      BY <2>1 DEF Posting
    <2> QED
      BY <1>0, <2>1, <2>2, <2>3, BudgetKept DEF Deliveries
  <1>3. ASSUME NEW w \in Dispatchers, ReadPending(w) \/ EndRound(w) \/ Resolve(w) \/ Die(w)
        PROVE  Budget(a)'
    <2>1. delivery' = delivery /\ posts' = posts
      BY <1>3 DEF ReadPending, EndRound, Resolve, Die
    <2>2. dispatcher'[w].at \in {"resolve", "post"} /\ dispatcher'[w].on = a
            => dispatcher[w].at \in {"resolve", "post"} /\ dispatcher[w].on = a
      BY <1>0, <1>3 DEF ReadPending, EndRound, Resolve, Die, AtRest, DispatcherLocals
    <2>3. Posting(a)' \in SUBSET Posting(a)
      BY <1>3, <2>2, OthersWait DEF Posting, Dispatching
    <2> QED
      BY <1>0, <2>1, <2>3, BudgetKept DEF Deliveries
  <1>4. ASSUME NEW w \in Dispatchers, Post(w)
        PROVE  Budget(a)'
    <2>1. /\ delivery' = delivery
          /\ posts' = [posts EXCEPT ![dispatcher[w].on] = @ + 1]
          /\ dispatcher[w].at = "post" /\ dispatcher'[w].at = "complete"
      BY <1>0, <1>4 DEF Post, DispatcherLocals
    <2>2. w \notin Posting(a)' /\ Posting(a)' \in SUBSET Posting(a)
      BY <1>4, <2>1, OthersWait DEF Posting, Dispatching
    <2>3. CASE dispatcher[w].on # a
      BY <1>0, <2>1, <2>2, <2>3, BudgetKept DEF Deliveries
    <2>4. CASE dispatcher[w].on = a
      <3>1. w \in Posting(a)
        BY <2>1, <2>4 DEF Posting
      <3>2. /\ IsFiniteSet(Posting(a)') /\ Cardinality(Posting(a)') \in Nat
            /\ Cardinality(Posting(a)) \in Nat
            /\ Cardinality(Posting(a)') <= Cardinality(Posting(a)) - 1
        BY <2>2, <3>1, Shrinks DEF Budget
      <3>3. posts'[a] = posts[a] + 1 /\ posts[a] \in Nat
        BY <1>0, <2>1, <2>4
      <3>4. posts[a] + Cardinality(Posting(a)) <= delivery[a].attempts
        BY DEF Budget
      <3>5. posts'[a] + Cardinality(Posting(a)') <= delivery'[a].attempts
        BY <1>0, <2>1, <3>2, <3>3, <3>4 DEF Deliveries
      <3> QED
        BY <3>2, <3>5 DEF Budget
    <2> QED
      BY <2>3, <2>4
  <1>5. ASSUME NEW w \in Dispatchers, CompleteDelivery(w)
        PROVE  Budget(a)'
    <2>1. posts' = posts /\ delivery'[a].attempts = delivery[a].attempts
      BY <1>0, <1>5 DEF CompleteDelivery, Deliveries
    <2>2. dispatcher'[w].at = "next"
      BY <1>0, <1>5 DEF CompleteDelivery, AtRest
    <2>3. Posting(a)' \in SUBSET Posting(a)
      BY <1>5, <2>2, OthersWait DEF Posting, Dispatching
    <2> QED
      BY <1>0, <2>1, <2>3, BudgetKept DEF Deliveries
  <1>6. ASSUME NEW w \in Dispatchers, NEW b \in Alerts, Filter(w, b)
        PROVE  Budget(a)'
    <2>1. posts' = posts /\ delivery'[a] = delivery[a]
      BY <1>0, <1>6 DEF Filter
    <2>2. dispatcher'[w].at = "next"
      BY <1>0, <1>6 DEF Filter, DispatcherLocals
    <2>3. Posting(a)' \in SUBSET Posting(a)
      BY <1>6, <2>2, OthersWait DEF Posting, Treat
    <2> QED
      BY <1>0, <2>1, <2>3, BudgetKept DEF Deliveries
  <1>7. ASSUME NEW w \in Dispatchers, NEW b \in Alerts, ClaimDelivery(w, b)
        PROVE  Budget(a)'
    <2>0. posts' = posts /\ dispatcher[w].at = "next"
      BY <1>7 DEF ClaimDelivery
    <2>1. CASE ~MayClaim(b)
      <3>1. delivery'[a].attempts = delivery[a].attempts
        BY <1>0, <1>7, <2>1, GivenUpLemma DEF ClaimDelivery
      <3>2. dispatcher'[w].at = "next"
        BY <1>0, <1>7, <2>1 DEF ClaimDelivery, DispatcherLocals
      <3>3. Posting(a)' \in SUBSET Posting(a)
        BY <1>7, <3>2, OthersWait DEF Posting, Treat
      <3> QED
        BY <1>0, <2>0, <3>1, <3>3, BudgetKept DEF Deliveries
    <2>2. CASE MayClaim(b)
      <3>1. dispatcher'[w].on = b
        <4>1. dispatcher' = [dispatcher EXCEPT ![w] =
                [dispatcher[w] EXCEPT !.at = "resolve", !.rows = dispatcher[w].rows \ {b},
                                      !.on = b, !.token = delivery[b].attempts + 1]]
          BY <1>7, <2>2 DEF ClaimDelivery
        <4>2. dispatcher'[w] =
                [dispatcher[w] EXCEPT !.at = "resolve", !.rows = dispatcher[w].rows \ {b},
                                      !.on = b, !.token = delivery[b].attempts + 1]
          BY <1>0, <4>1
        <4> QED
          BY <1>0, <4>2 DEF DispatcherLocals
      <3>2. CASE b # a
        <4>1. delivery'[a] = delivery[a]
          BY <1>0, <1>7, <2>2, <3>2 DEF ClaimDelivery
        <4>2. Posting(a)' \in SUBSET Posting(a)
          BY <1>7, <3>1, <3>2, OthersWait DEF Posting, Treat
        <4> QED
          BY <1>0, <2>0, <4>1, <4>2, BudgetKept DEF Deliveries
      <3>3. CASE b = a
        <4>1. delivery'[a].attempts = delivery[a].attempts + 1
          BY <1>0, <1>7, <2>2, <3>3 DEF ClaimDelivery
        <4>2. Posting(a)' \in SUBSET (Posting(a) \cup {w}) /\ w \notin Posting(a)
          BY <1>7, <2>0, OthersWait DEF Posting, Treat
        <4>3. /\ IsFiniteSet(Posting(a) \cup {w})
              /\ Cardinality(Posting(a) \cup {w}) = Cardinality(Posting(a)) + 1
          BY <4>2, FS_AddElement DEF Budget
        <4>4. /\ IsFiniteSet(Posting(a)') /\ Cardinality(Posting(a)') \in Nat
              /\ Cardinality(Posting(a)) \in Nat
              /\ Cardinality(Posting(a)') <= Cardinality(Posting(a)) + 1
          BY <4>2, <4>3, Shrinks, FS_CardinalityType DEF Budget
        <4>5. posts[a] + Cardinality(Posting(a)) <= delivery[a].attempts
          BY DEF Budget
        <4>6. posts'[a] + Cardinality(Posting(a)') <= delivery'[a].attempts
          BY <1>0, <2>0, <4>1, <4>4, <4>5 DEF Deliveries
        <4> QED
          BY <4>4, <4>6 DEF Budget
      <3> QED
        BY <3>2, <3>3
    <2> QED
      BY <2>1, <2>2
  <1> QED
    BY <1>1, <1>2, <1>3, <1>4, <1>5, <1>6, <1>7 DEF HookNext, Treat, Dispatching

LEMMA BudgetInvariant == HookSpec => []BInv
  <1>1. HookInit => BInv
    <2> SUFFICES ASSUME HookInit PROVE BInv
      OBVIOUS
    <2>1. ASSUME NEW a \in Wanted
          PROVE  Budget(a)
      <3>1. Posting(a) = {}
        BY <2>1 DEF HookInit, Posting, AtRest
      <3>2. posts[a] = 0 /\ delivery[a].attempts = 0
        BY <2>1, HookAssumption DEF HookInit, NoDelivery
      <3> QED
        BY <3>1, <3>2, FS_EmptySet DEF Budget
    <2> QED
      BY <2>1, HookInitial DEF BInv
  <1>2. BInv /\ [HookNext]_hookVars => BInv'
    <2> SUFFICES ASSUME BInv, [HookNext]_hookVars PROVE BInv'
      OBVIOUS
    <2>1. HInv'
      BY HookInductive DEF BInv
    <2> QED
      BY <2>1, BudgetStep DEF BInv
  <1> QED
    BY <1>1, <1>2, PTL DEF HookSpec

\* webhook_max_attempts bounds the posts of every alert, for any number of
\* dispatchers, dying and losing their leases as they may.
THEOREM PostsAreBounded == HookSpec => []PostsStayInBudget
  <1>1. BInv => PostsStayInBudget
    <2> SUFFICES ASSUME BInv, NEW a \in Alerts PROVE posts[a] <= HookAttempts
      BY DEF PostsStayInBudget
    <2>1. posts[a] \in Nat /\ delivery[a] \in Deliveries
      BY DEF BInv, HInv, HookTypeOK
    <2>2. CASE a \in Wanted
      <3>1. /\ posts[a] + Cardinality(Posting(a)) <= delivery[a].attempts
            /\ Cardinality(Posting(a)) \in Nat
            /\ delivery[a].attempts <= HookAttempts
        BY <2>2, FS_CardinalityType DEF BInv, Budget, HInv, RowsAreTrue
      <3> QED
        BY <2>1, <3>1, HookAssumption DEF Deliveries
    <2>3. CASE a \notin Wanted
      BY <2>3, HookAssumption DEF BInv, HInv, RowsAreTrue
    <2> QED
      BY <2>2, <2>3
  <1> QED
    BY <1>1, BudgetInvariant, PTL

-----------------------------------------------------------------------------
(* Copies: who posts under a claim that is lost has been counted as a doubt. *)

\* Dispatchers that may still post alert a although their claim no longer holds.
Expired(a) == {w \in Posting(a) : ~(delivery[a].live /\ IsCurrent(w))}

\* An accepted copy that is on record, or about to be put there under a live claim.
Credit(a) ==
    \/ delivery[a].status = "delivered"
    \/ /\ delivery[a].live
       /\ \E w \in Dispatchers : /\ dispatcher[w].at = "complete" /\ dispatcher[w].on = a
                                 /\ dispatcher[w].verdict = "delivered" /\ IsCurrent(w)

\* The copies taken, and those that expired claims may still send, are the doubts
\* and at most one more, which is on record.
Copies(a) ==
    /\ IsFiniteSet(Expired(a))
    /\ accepted[a] + Cardinality(Expired(a)) <= doubts[a] + 1
    /\ ~Credit(a) => accepted[a] + Cardinality(Expired(a)) <= doubts[a]

CInv == HInv /\ \A a \in Wanted : Copies(a)

\* A dispatcher at work and the row it works on belong together at most once.
LEMMA OneIsCurrent ==
    ASSUME HInv, NEW v \in Dispatchers, NEW w \in Dispatchers,
           dispatcher[v].at \in Engaged, dispatcher[w].at \in Engaged,
           dispatcher[v].on = dispatcher[w].on, IsCurrent(v), IsCurrent(w)
    PROVE  v = w
  BY DEF HInv, TokensDiffer, IsCurrent

LEMMA CopiesKept ==
    ASSUME HInv, HInv', NEW a \in Wanted, Copies(a),
           Expired(a)' \in SUBSET Expired(a), accepted'[a] = accepted[a],
           doubts'[a] >= doubts[a],
           Credit(a) => Credit(a)' \/ doubts'[a] >= doubts[a] + 1
    PROVE  Copies(a)'
  <1>1. accepted[a] \in Nat /\ doubts[a] \in Nat /\ doubts'[a] \in Nat
    BY HookAssumption DEF HInv, HookTypeOK
  <1>2. /\ IsFiniteSet(Expired(a)') /\ Cardinality(Expired(a)') \in Nat
        /\ Cardinality(Expired(a)) \in Nat
        /\ Cardinality(Expired(a)') <= Cardinality(Expired(a))
    BY Shrinks DEF Copies
  <1>3. /\ accepted[a] + Cardinality(Expired(a)) <= doubts[a] + 1
        /\ ~Credit(a) => accepted[a] + Cardinality(Expired(a)) <= doubts[a]
    BY DEF Copies
  <1>4. /\ accepted'[a] + Cardinality(Expired(a)') <= doubts'[a] + 1
        /\ ~Credit(a)' => accepted'[a] + Cardinality(Expired(a)') <= doubts'[a]
    BY <1>1, <1>2, <1>3
  <1> QED
    BY <1>2, <1>4 DEF Copies

LEMMA CopiesExpiry ==
    ASSUME HInv, HInv', NEW a \in Wanted, Copies(a), NEW b \in Alerts, LeaseExpires(b)
    PROVE  Copies(a)'
  <1>0. /\ a \in Alerts /\ accepted' = accepted /\ dispatcher' = dispatcher
        /\ doubts[a] \in Nat /\ doubts \in [Alerts -> Nat] /\ accepted[a] \in Nat
        /\ delivery \in [Alerts -> Deliveries] /\ delivery[a] \in Deliveries
    BY HookAssumption DEF HInv, HookTypeOK, LeaseExpires
  <1>1. CASE b # a
    <2>1. delivery'[a] = delivery[a] /\ doubts'[a] = doubts[a]
      BY <1>0, <1>1 DEF LeaseExpires
    <2>2. Expired(a)' = Expired(a) /\ Credit(a)' = Credit(a)
      BY <1>0, <2>1 DEF Expired, Posting, Credit, IsCurrent
    <2> QED
      BY <1>0, <2>1, <2>2, CopiesKept
  <1>2. CASE b = a
    <2>1. /\ delivery[a].live /\ delivery[a].status = "in_progress"
          /\ ~delivery'[a].live /\ delivery'[a].status = "in_progress"
      BY <1>0, <1>2 DEF LeaseExpires, HInv, RowsAreTrue, Deliveries
    <2>2. Expired(a)' = Posting(a)
      BY <1>0, <2>1 DEF Expired, Posting
    <2>3. /\ (\E w \in Dispatchers : dispatcher[w].on = a /\ IsCurrent(w))
                => doubts'[a] = doubts[a] + 1
          /\ doubts'[a] >= doubts[a]
      BY <1>0, <1>2 DEF LeaseExpires
    <2>4. CASE \E w \in Posting(a) : IsCurrent(w)
      <3>1. PICK w \in Posting(a) : IsCurrent(w)
        BY <2>4
      <3>2. w \in Dispatchers /\ dispatcher[w].on = a /\ dispatcher[w].at \in {"resolve", "post"}
        BY <3>1 DEF Posting
      <3>3. \A v \in Posting(a) : v # w => ~IsCurrent(v)
        BY <3>1, <3>2, OneIsCurrent DEF Posting, Engaged
      <3>4. Posting(a) \in SUBSET (Expired(a) \cup {w}) /\ w \notin Expired(a)
        BY <2>1, <3>1, <3>3 DEF Expired
      <3>5. ~Credit(a)
        BY <2>1, <3>1, <3>2, OneIsCurrent DEF Credit, Engaged
      <3>6. /\ IsFiniteSet(Expired(a) \cup {w})
            /\ Cardinality(Expired(a) \cup {w}) = Cardinality(Expired(a)) + 1
        BY <3>4, FS_AddElement DEF Copies
      <3>7. /\ IsFiniteSet(Expired(a)') /\ Cardinality(Expired(a)') \in Nat
            /\ Cardinality(Expired(a)) \in Nat
            /\ Cardinality(Expired(a)') <= Cardinality(Expired(a)) + 1
        BY <2>2, <3>4, <3>6, Shrinks, FS_CardinalityType DEF Copies
      <3>8. doubts'[a] = doubts[a] + 1
        BY <2>3, <3>1, <3>2
      <3>9. accepted[a] + Cardinality(Expired(a)) <= doubts[a]
        BY <3>5 DEF Copies
      <3>10. accepted'[a] + Cardinality(Expired(a)') <= doubts'[a]
        BY <1>0, <3>7, <3>8, <3>9
      <3> QED
        BY <1>0, <3>7, <3>8, <3>10 DEF Copies
    <2>5. CASE ~\E w \in Posting(a) : IsCurrent(w)
      <3>1. Expired(a)' \in SUBSET Expired(a)
        BY <2>2, <2>5 DEF Expired
      <3>2. Credit(a) => doubts'[a] >= doubts[a] + 1
        BY <1>0, <2>1, <2>3 DEF Credit
      <3> QED
        BY <1>0, <2>3, <3>1, <3>2, CopiesKept
    <2> QED
      BY <2>4, <2>5
  <1> QED
    BY <1>1, <1>2

LEMMA CopiesPost ==
    ASSUME HInv, HInv', NEW a \in Wanted, Copies(a), NEW w \in Dispatchers, Post(w)
    PROVE  Copies(a)'
  <1>0. /\ a \in Alerts /\ delivery' = delivery
        /\ doubts[a] \in Nat /\ doubts \in [Alerts -> Nat]
        /\ accepted[a] \in Nat /\ accepted \in [Alerts -> Nat]
        /\ delivery[a] \in Deliveries /\ dispatcher \in [Dispatchers -> DispatcherLocals]
        /\ dispatcher[w] \in DispatcherLocals /\ dispatcher[w].at = "post"
    BY HookAssumption DEF HInv, HookTypeOK, Post
  <1>1. PICK taken \in BOOLEAN, v \in Verdicts :
          /\ v = "delivered" => taken
          /\ accepted' = IF taken THEN [accepted EXCEPT ![dispatcher[w].on] = @ + 1]
                                  ELSE accepted
          /\ doubts' = IF taken /\ v # "delivered"
                       THEN [doubts EXCEPT ![dispatcher[w].on] = @ + 1] ELSE doubts
          /\ dispatcher' = [dispatcher EXCEPT ![w].at = "complete", ![w].verdict = v]
    BY DEF Post
  <1>2. /\ dispatcher'[w].at = "complete" /\ dispatcher'[w].verdict = v
        /\ dispatcher'[w].on = dispatcher[w].on /\ dispatcher'[w].token = dispatcher[w].token
        /\ \A u \in Dispatchers \ {w} : dispatcher'[u] = dispatcher[u]
    BY <1>0, <1>1 DEF DispatcherLocals
  <1>3. Expired(a)' \in SUBSET Expired(a) /\ w \notin Expired(a)'
    BY <1>0, <1>2 DEF Expired, Posting, IsCurrent
  <1>4. Credit(a) => Credit(a)'
    BY <1>0, <1>2 DEF Credit, IsCurrent
  <1>5. CASE dispatcher[w].on # a \/ ~taken
    <2>1. accepted'[a] = accepted[a] /\ doubts'[a] = doubts[a]
      BY <1>0, <1>1, <1>5
    <2> QED
      BY <1>0, <1>3, <1>4, <2>1, CopiesKept
  <1>6. CASE dispatcher[w].on = a /\ taken
    <2>0. accepted'[a] = accepted[a] + 1
      BY <1>0, <1>1, <1>6
    <2>1. /\ IsFiniteSet(Expired(a)') /\ Cardinality(Expired(a)') \in Nat
          /\ Cardinality(Expired(a)) \in Nat
          /\ Cardinality(Expired(a)') <= Cardinality(Expired(a))
          /\ w \in Expired(a) => Cardinality(Expired(a)') <= Cardinality(Expired(a)) - 1
      BY <1>3, Shrinks DEF Copies
    <2>2. /\ accepted[a] + Cardinality(Expired(a)) <= doubts[a] + 1
          /\ ~Credit(a) => accepted[a] + Cardinality(Expired(a)) <= doubts[a]
      BY DEF Copies
    <2>3. CASE v # "delivered"
      <3>1. doubts'[a] = doubts[a] + 1
        BY <1>0, <1>1, <1>6, <2>3
      <3>2. /\ accepted'[a] + Cardinality(Expired(a)') <= doubts'[a] + 1
            /\ ~Credit(a)' => accepted'[a] + Cardinality(Expired(a)') <= doubts'[a]
        BY <1>0, <1>4, <2>0, <2>1, <2>2, <3>1
      <3> QED
        BY <2>1, <3>2 DEF Copies
    <2>4. CASE v = "delivered" /\ w \in Expired(a)
      <3>1. doubts'[a] = doubts[a]
        BY <1>1, <2>4
      <3>2. /\ accepted'[a] + Cardinality(Expired(a)') <= doubts'[a] + 1
            /\ ~Credit(a)' => accepted'[a] + Cardinality(Expired(a)') <= doubts'[a]
        BY <1>0, <1>4, <2>0, <2>1, <2>2, <2>4, <3>1
      <3> QED
        BY <2>1, <3>2 DEF Copies
    <2>5. CASE v = "delivered" /\ w \notin Expired(a)
      <3>1. doubts'[a] = doubts[a]
        BY <1>1, <2>5
      <3>2. delivery[a].live /\ IsCurrent(w) /\ delivery[a].status = "in_progress"
        BY <1>0, <1>6, <2>5 DEF Expired, Posting, IsCurrent
      <3>3. Credit(a)'
        BY <1>0, <1>2, <1>6, <2>5, <3>2 DEF Credit, IsCurrent
      <3>4. ~Credit(a)
        <4>1. ASSUME NEW u \in Dispatchers, dispatcher[u].at = "complete",
                     dispatcher[u].on = a, IsCurrent(u)
              PROVE  FALSE
          <5>1. u = w
            BY <1>0, <1>6, <3>2, <4>1, OneIsCurrent DEF Engaged
          <5> QED
            BY <1>0, <4>1, <5>1
        <4> QED
          BY <3>2, <4>1 DEF Credit
      <3>5. accepted'[a] + Cardinality(Expired(a)') <= doubts'[a] + 1
        BY <1>0, <2>0, <2>1, <2>2, <3>1, <3>4
      <3> QED
        BY <2>1, <3>3, <3>5 DEF Copies
    <2> QED
      BY <2>3, <2>4, <2>5
  <1> QED
    BY <1>5, <1>6

LEMMA CopiesClaim ==
    ASSUME HInv, HInv', NEW a \in Wanted, Copies(a), NEW w \in Dispatchers, NEW b \in Alerts,
           ClaimDelivery(w, b)
    PROVE  Copies(a)'
  <1>0. /\ a \in Alerts /\ accepted' = accepted /\ doubts' = doubts /\ doubts[a] \in Nat
        /\ delivery \in [Alerts -> Deliveries] /\ delivery[a] \in Deliveries
        /\ delivery[b] \in Deliveries
        /\ dispatcher \in [Dispatchers -> DispatcherLocals]
        /\ dispatcher[w] \in DispatcherLocals /\ dispatcher[w].at = "next"
    BY HookAssumption DEF HInv, HookTypeOK, ClaimDelivery
  <1>1. \A v \in Dispatchers \ {w} : dispatcher'[v] = dispatcher[v]
    BY OthersWait DEF Treat
  <1>2. CASE ~MayClaim(b)
    <2>1. dispatcher'[w].at = "next"
      BY <1>0, <1>2 DEF ClaimDelivery, DispatcherLocals
    <2>2. delivery' = [delivery EXCEPT ![b] = GivenUp(b)]
      BY <1>2 DEF ClaimDelivery
    <2>3. CASE delivery'[a] = delivery[a]
      <3>1. Expired(a)' \in SUBSET Expired(a) /\ (Credit(a) => Credit(a)')
        BY <1>0, <1>1, <2>1, <2>3 DEF Expired, Posting, Credit, IsCurrent
      <3> QED
        BY <1>0, <3>1, CopiesKept
    <2>4. CASE delivery'[a] # delivery[a]
      <3>1. ~delivery[a].live /\ delivery[a].status = "in_progress"
        BY <1>0, <2>2, <2>4, GivenUpLemma
      <3>2. ~Credit(a) /\ Expired(a) = Posting(a)
        BY <3>1 DEF Credit, Expired
      <3>3. Expired(a)' \in SUBSET Expired(a)
        BY <1>1, <2>1, <3>2 DEF Expired, Posting
      <3> QED
        BY <1>0, <3>2, <3>3, CopiesKept
    <2> QED
      BY <2>3, <2>4
  <1>3. CASE MayClaim(b)
    <2>1. dispatcher' = [dispatcher EXCEPT ![w] =
            [dispatcher[w] EXCEPT !.at = "resolve", !.rows = dispatcher[w].rows \ {b},
                                  !.on = b, !.token = delivery[b].attempts + 1]]
      BY <1>3 DEF ClaimDelivery
    <2>2. dispatcher'[w] =
            [dispatcher[w] EXCEPT !.at = "resolve", !.rows = dispatcher[w].rows \ {b},
                                  !.on = b, !.token = delivery[b].attempts + 1]
      BY <1>0, <2>1
    <2>3. /\ dispatcher'[w].at = "resolve" /\ dispatcher'[w].on = b
          /\ dispatcher'[w].token = delivery[b].attempts + 1
      BY <1>0, <2>2 DEF DispatcherLocals
    <2>4. CASE b # a
      <3>1. delivery'[a] = delivery[a]
        BY <1>0, <1>3, <2>4 DEF ClaimDelivery
      <3>2. Expired(a)' \in SUBSET Expired(a) /\ (Credit(a) => Credit(a)')
        BY <1>0, <1>1, <2>3, <2>4, <3>1 DEF Expired, Posting, Credit, IsCurrent
      <3> QED
        BY <1>0, <3>2, CopiesKept
    <2>5. CASE b = a
      <3>1. ~Credit(a) /\ Expired(a) = Posting(a)
        BY <1>3, <2>5 DEF MayClaim, Credit, Expired
      <3>2. /\ delivery'[a].live /\ delivery'[a].status = "in_progress"
            /\ delivery'[a].token = delivery[a].attempts + 1
        BY <1>0, <1>3, <2>5 DEF ClaimDelivery
      <3>3. w \notin Expired(a)'
        BY <2>3, <2>5, <3>2 DEF Expired, IsCurrent
      <3>4. Expired(a)' \in SUBSET Expired(a)
        BY <1>1, <3>1, <3>3 DEF Expired, Posting
      <3> QED
        BY <1>0, <3>1, <3>4, CopiesKept
    <2> QED
      BY <2>4, <2>5
  <1> QED
    BY <1>2, <1>3

LEMMA CopiesComplete ==
    ASSUME HInv, HInv', NEW a \in Wanted, Copies(a), NEW w \in Dispatchers, CompleteDelivery(w)
    PROVE  Copies(a)'
  <1>0. /\ a \in Alerts /\ accepted' = accepted /\ doubts' = doubts /\ doubts[a] \in Nat
        /\ delivery \in [Alerts -> Deliveries] /\ delivery[a] \in Deliveries
        /\ dispatcher \in [Dispatchers -> DispatcherLocals]
        /\ dispatcher[w] \in DispatcherLocals /\ dispatcher[w].at = "complete"
    BY HookAssumption DEF HInv, HookTypeOK, CompleteDelivery
  <1>1. \A v \in Dispatchers \ {w} : dispatcher'[v] = dispatcher[v]
    BY OthersWait DEF Dispatching
  <1>2. dispatcher'[w].at = "next"
    BY <1>0 DEF CompleteDelivery, AtRest
  <1>3. CASE IsCurrent(w) /\ dispatcher[w].on = a
    <2>1. ~delivery'[a].live /\ delivery'[a].status = Outcome(w)
      BY <1>0, <1>3 DEF CompleteDelivery, Deliveries
    <2>2. \A v \in Posting(a) : v # w /\ ~IsCurrent(v)
      BY <1>0, <1>3, OneIsCurrent DEF Posting, Engaged
    <2>3. Expired(a) = Posting(a)
      BY <2>2 DEF Expired
    <2>4. Expired(a)' \in SUBSET Expired(a)
      BY <1>1, <1>2, <2>3 DEF Expired, Posting
    <2>5. Credit(a) => Credit(a)'
      <3> SUFFICES ASSUME Credit(a) PROVE Credit(a)'
        OBVIOUS
      <3>1. delivery[a].status = "in_progress"
        BY <1>3 DEF IsCurrent
      <3>2. PICK v \in Dispatchers : /\ dispatcher[v].at = "complete" /\ dispatcher[v].on = a
                                     /\ dispatcher[v].verdict = "delivered" /\ IsCurrent(v)
        BY <3>1 DEF Credit
      <3>3. v = w
        BY <1>0, <1>3, <3>2, OneIsCurrent DEF Engaged
      <3>4. Outcome(w) = "delivered"
        BY <3>2, <3>3 DEF Outcome
      <3> QED
        BY <2>1, <3>4 DEF Credit
    <2> QED
      BY <1>0, <2>4, <2>5, CopiesKept
  <1>4. CASE ~(IsCurrent(w) /\ dispatcher[w].on = a)
    <2>1. delivery'[a] = delivery[a]
      BY <1>0, <1>4 DEF CompleteDelivery
    <2>2. Expired(a)' \in SUBSET Expired(a) /\ (Credit(a) => Credit(a)')
      BY <1>0, <1>1, <1>2, <1>4, <2>1 DEF Expired, Posting, Credit, IsCurrent
    <2> QED
      BY <1>0, <2>2, CopiesKept
  <1> QED
    BY <1>3, <1>4

LEMMA CopiesStep ==
    ASSUME HInv, HInv', [HookNext]_hookVars, NEW a \in Wanted, Copies(a)
    PROVE  Copies(a)'
  <1>0. /\ a \in Alerts /\ doubts[a] \in Nat /\ doubts \in [Alerts -> Nat]
        /\ delivery \in [Alerts -> Deliveries] /\ delivery[a] \in Deliveries
        /\ dispatcher \in [Dispatchers -> DispatcherLocals]
    BY HookAssumption DEF HInv, HookTypeOK
  <1>1. CASE UNCHANGED hookVars
    BY <1>1 DEF hookVars, Copies, Expired, Posting, Credit, IsCurrent
  <1>2. ASSUME NEW b \in Alerts, StoreAlert(b) \/ PostIsDue(b)
        PROVE  Copies(a)'
    <2>1. dispatcher' = dispatcher /\ accepted' = accepted /\ doubts' = doubts
      BY <1>2 DEF StoreAlert, PostIsDue
    <2>2. /\ delivery'[a].live = delivery[a].live
          /\ delivery'[a].status = delivery[a].status
          /\ delivery'[a].token = delivery[a].token
      BY <1>0, <1>2 DEF StoreAlert, PostIsDue, Deliveries
    <2>3. Expired(a)' \in SUBSET Expired(a) /\ (Credit(a) => Credit(a)')
      BY <2>1, <2>2 DEF Expired, Posting, Credit, IsCurrent
    <2> QED
      BY <1>0, <2>1, <2>3, CopiesKept
  <1>3. ASSUME NEW w \in Dispatchers, ReadPending(w) \/ EndRound(w) \/ Resolve(w)
        PROVE  Copies(a)'
    <2>1. delivery' = delivery /\ accepted' = accepted /\ doubts' = doubts
      BY <1>3 DEF ReadPending, EndRound, Resolve
    <2>2. dispatcher[w].at # "complete"
      BY <1>3 DEF ReadPending, EndRound, Resolve
    <2>3. dispatcher'[w].at \in {"resolve", "post"}
            => /\ dispatcher[w].at \in {"resolve", "post"}
               /\ dispatcher'[w].on = dispatcher[w].on
               /\ dispatcher'[w].token = dispatcher[w].token
      BY <1>0, <1>3 DEF ReadPending, EndRound, Resolve, AtRest, DispatcherLocals
    <2>4. \A v \in Dispatchers \ {w} : dispatcher'[v] = dispatcher[v]
      BY <1>3, OthersWait DEF Dispatching
    <2>5. Expired(a)' \in SUBSET Expired(a) /\ (Credit(a) => Credit(a)')
      BY <2>1, <2>2, <2>3, <2>4 DEF Expired, Posting, Credit, IsCurrent
    <2> QED
      BY <1>0, <2>1, <2>5, CopiesKept
  <1>4. ASSUME NEW w \in Dispatchers, Die(w)
        PROVE  Copies(a)'
    <2>1. delivery' = delivery /\ accepted' = accepted
      BY <1>4 DEF Die
    <2>2. \A v \in Dispatchers \ {w} : dispatcher'[v] = dispatcher[v]
      BY <1>4, OthersWait
    <2>3. dispatcher'[w].at = "idle"
      BY <1>0, <1>4 DEF Die, AtRest
    <2>4. Expired(a)' \in SUBSET Expired(a)
      BY <2>1, <2>2, <2>3 DEF Expired, Posting, IsCurrent
    <2>5. CASE /\ dispatcher[w].at = "complete" /\ dispatcher[w].verdict = "delivered"
               /\ dispatcher[w].on = a
      <3>1. doubts'[a] = doubts[a] + 1
        BY <1>0, <1>4, <2>5 DEF Die
      <3> QED
        BY <1>0, <2>1, <2>4, <3>1, CopiesKept
    <2>6. CASE ~(/\ dispatcher[w].at = "complete" /\ dispatcher[w].verdict = "delivered"
                 /\ dispatcher[w].on = a)
      <3>1. doubts'[a] = doubts[a]
        BY <1>0, <1>4, <2>6 DEF Die
      <3>2. Credit(a) => Credit(a)'
        BY <2>1, <2>2, <2>6 DEF Credit, IsCurrent
      <3> QED
        BY <1>0, <2>1, <2>4, <3>1, <3>2, CopiesKept
    <2> QED
      BY <2>5, <2>6
  <1>5. ASSUME NEW w \in Dispatchers, NEW b \in Alerts, Filter(w, b)
        PROVE  Copies(a)'
    <2>1. accepted' = accepted /\ doubts' = doubts /\ delivery'[a] = delivery[a]
      BY <1>0, <1>5 DEF Filter
    <2>2. dispatcher[w].at = "next" /\ dispatcher'[w].at = "next"
      BY <1>0, <1>5 DEF Filter, DispatcherLocals
    <2>3. \A v \in Dispatchers \ {w} : dispatcher'[v] = dispatcher[v]
      BY <1>5, OthersWait DEF Treat
    <2>4. Expired(a)' \in SUBSET Expired(a) /\ (Credit(a) => Credit(a)')
      BY <2>1, <2>2, <2>3 DEF Expired, Posting, Credit, IsCurrent
    <2> QED
      BY <1>0, <2>1, <2>4, CopiesKept
  <1> QED
    BY <1>1, <1>2, <1>3, <1>4, <1>5, CopiesExpiry, CopiesPost, CopiesClaim, CopiesComplete
    DEF HookNext, Treat, Dispatching

\* Every copy beyond the first is paid for by an attempt whose outcome nobody could
\* record, for any number of dispatchers.
THEOREM CopiesHaveAReason == HookSpec => []CopiesAreExplained
  <1>1. HookInit => CInv
    <2> SUFFICES ASSUME HookInit PROVE CInv
      OBVIOUS
    <2>1. ASSUME NEW a \in Wanted
          PROVE  Copies(a)
      <3>1. Expired(a) = {}
        BY <2>1 DEF HookInit, Expired, Posting, AtRest
      <3>2. accepted[a] = 0 /\ doubts[a] = 0
        BY <2>1, HookAssumption DEF HookInit
      <3> QED
        BY <3>1, <3>2, FS_EmptySet DEF Copies
    <2> QED
      BY <2>1, HookInitial DEF CInv
  <1>2. CInv /\ [HookNext]_hookVars => CInv'
    <2> SUFFICES ASSUME CInv, [HookNext]_hookVars PROVE CInv'
      OBVIOUS
    <2>1. HInv'
      BY HookInductive DEF CInv
    <2> QED
      BY <2>1, CopiesStep DEF CInv
  <1>3. CInv => CopiesAreExplained
    <2> SUFFICES ASSUME CInv, NEW a \in Alerts PROVE accepted[a] <= doubts[a] + 1
      BY DEF CopiesAreExplained
    <2>1. accepted[a] \in Nat /\ doubts[a] \in Nat
      BY DEF CInv, HInv, HookTypeOK
    <2>2. CASE a \in Wanted
      <3>1. /\ accepted[a] + Cardinality(Expired(a)) <= doubts[a] + 1
            /\ Cardinality(Expired(a)) \in Nat
        BY <2>2, FS_CardinalityType DEF CInv, Copies
      <3> QED
        BY <2>1, <3>1
    <2>3. CASE a \notin Wanted
      BY <2>1, <2>3 DEF CInv, HInv, RowsAreTrue
    <2> QED
      BY <2>2, <2>3
  <1> QED
    BY <1>1, <1>2, <1>3, PTL DEF HookSpec

-----------------------------------------------------------------------------
(* The deliveries implement Outbox. *)

\* Dispatchers read only alerts that are stored.
RowsAreStored == \A w \in Dispatchers : dispatcher[w].rows \subseteq alerts

LEMMA RowsStep ==
    ASSUME HInv, RowsAreStored, [HookNext]_hookVars
    PROVE  RowsAreStored'
  <1> SUFFICES ASSUME NEW v \in Dispatchers PROVE dispatcher'[v].rows \subseteq alerts'
    BY DEF RowsAreStored
  <1>0. /\ dispatcher \in [Dispatchers -> DispatcherLocals]
        /\ dispatcher[v] \in DispatcherLocals /\ dispatcher[v].rows \subseteq alerts
    BY DEF HInv, HookTypeOK, RowsAreStored
  <1>1. CASE UNCHANGED hookVars
    BY <1>0, <1>1 DEF hookVars
  <1>2. ASSUME NEW a \in Alerts, StoreAlert(a) \/ LeaseExpires(a) \/ PostIsDue(a)
        PROVE  dispatcher'[v].rows \subseteq alerts'
    BY <1>0, <1>2 DEF StoreAlert, LeaseExpires, PostIsDue
  <1>3. ASSUME NEW w \in Dispatchers, ReadPending(w)
        PROVE  dispatcher'[v].rows \subseteq alerts'
    <2>1. {a \in Alerts : Pending(a)} \subseteq alerts
      BY DEF Pending
    <2>2. dispatcher'[v].rows \in {dispatcher[v].rows, {a \in Alerts : Pending(a)}}
      BY <1>0, <1>3 DEF ReadPending, DispatcherLocals
    <2> QED
      BY <1>0, <1>3, <2>1, <2>2 DEF ReadPending
  <1>4. ASSUME NEW w \in Dispatchers,
               EndRound(w) \/ Dispatching(w) \/ Die(w) \/ \E a \in Alerts : Filter(w, a)
        PROVE  dispatcher'[v].rows \subseteq alerts'
    <2>1. CASE v # w
      BY <1>0, <1>4, <2>1 DEF EndRound, Dispatching, Resolve, Post, CompleteDelivery, Die, Filter
    <2>2. CASE v = w
      <3>1. dispatcher'[w].rows \subseteq dispatcher[w].rows
        <4>1. CASE EndRound(w) \/ Die(w)
          <5>1. AtRest.rows = {}
            BY DEF AtRest
          <5> QED
            BY <1>0, <2>2, <4>1, <5>1 DEF EndRound, Die
        <4>2. CASE CompleteDelivery(w)
          <5>1. [AtRest EXCEPT !.at = "next", !.rows = dispatcher[w].rows].rows
                    = dispatcher[w].rows
            BY DEF AtRest
          <5> QED
            BY <1>0, <2>2, <4>2, <5>1 DEF CompleteDelivery
        <4>3. CASE Resolve(w)
          BY <1>0, <2>2, <4>3 DEF Resolve, DispatcherLocals
        <4>4. CASE Post(w)
          BY <1>0, <2>2, <4>4 DEF Post, DispatcherLocals
        <4>5. ASSUME NEW a \in Alerts, Filter(w, a)
              PROVE  dispatcher'[w].rows \subseteq dispatcher[w].rows
          BY <1>0, <2>2, <4>5 DEF Filter, DispatcherLocals
        <4> QED
          BY <1>4, <4>1, <4>2, <4>3, <4>4, <4>5 DEF Dispatching
      <3>2. alerts' = alerts
        BY <1>4 DEF EndRound, Dispatching, Resolve, Post, CompleteDelivery, Die, Filter
      <3> QED
        BY <1>0, <2>2, <3>1, <3>2
    <2> QED
      BY <2>1, <2>2
  <1>5. ASSUME NEW w \in Dispatchers, NEW a \in Alerts, ClaimDelivery(w, a)
        PROVE  dispatcher'[v].rows \subseteq alerts'
    <2>0. alerts' = alerts
      BY <1>5 DEF ClaimDelivery
    <2>1. CASE v # w
      BY <1>0, <1>5, <2>0, <2>1, OthersWait DEF Treat
    <2>2. CASE v = w /\ MayClaim(a)
      <3>1. dispatcher' = [dispatcher EXCEPT ![w] =
              [dispatcher[w] EXCEPT !.at = "resolve", !.rows = dispatcher[w].rows \ {a},
                                    !.on = a, !.token = delivery[a].attempts + 1]]
        BY <1>5, <2>2 DEF ClaimDelivery
      <3>2. dispatcher'[w].rows = dispatcher[w].rows \ {a}
        BY <1>0, <2>2, <3>1 DEF DispatcherLocals
      <3> QED
        BY <1>0, <2>0, <2>2, <3>2
    <2>3. CASE v = w /\ ~MayClaim(a)
      BY <1>0, <1>5, <2>0, <2>3 DEF ClaimDelivery, DispatcherLocals
    <2> QED
      BY <2>1, <2>2, <2>3
  <1> QED
    BY <1>1, <1>2, <1>3, <1>4, <1>5 DEF HookNext, Treat

LEMMA OutStutter ==
    ASSUME UNCHANGED <<alerts, posts, accepted>>, Ended' = Ended, Begun' = Begun
    PROVE  UNCHANGED Out!outVars
  BY DEF Out!outVars

\* A step on one row that begins no attempt leaves the row open or ended, or ends it
\* for a reason that Outbox knows.
LEMMA RowMaps ==
    ASSUME HInv, NEW a \in Alerts, UNCHANGED <<alerts, posts, accepted>>,
           \A b \in Alerts \ {a} : delivery'[b] = delivery[b],
           Begun'[a] = Begun[a],
           \/ Ended'[a] = Ended[a]
           \/ /\ Ended[a] = "open"
              /\ \/ Ended'[a] = "delivered" /\ accepted[a] > 0
                 \/ Ended'[a] = "permanent_failure" /\ Begun[a] > 0
                 \/ Ended'[a] = "filtered" /\ a \in alerts \ Wanted
    PROVE  [Out!OutNext]_(Out!outVars)
  <1>1. /\ \A b \in Alerts \ {a} : Ended'[b] = Ended[b]
        /\ \A b \in Alerts \ {a} : Begun'[b] = Begun[b]
    BY DEF Ended, Begun
  <1>2. Begun' = Begun
    BY <1>1 DEF Begun
  <1>3. Ended' = [Ended EXCEPT ![a] = Ended'[a]]
    BY <1>1 DEF Ended
  <1>4. CASE Ended'[a] = Ended[a]
    <2>1. Ended' = Ended
      BY <1>1, <1>4 DEF Ended
    <2> QED
      BY <1>2, <2>1, OutStutter
  <1>5. CASE Ended[a] = "open" /\ Ended'[a] = "delivered" /\ accepted[a] > 0
    <2>1. Out!Deliver(a)
      BY <1>2, <1>3, <1>5 DEF Out!Deliver, Out!End
    <2> QED
      BY <2>1 DEF Out!OutNext
  <1>6. CASE Ended[a] = "open" /\ Ended'[a] = "permanent_failure" /\ Begun[a] > 0
    <2>1. Out!GiveUp(a)
      BY <1>2, <1>3, <1>6 DEF Out!GiveUp, Out!End
    <2> QED
      BY <2>1 DEF Out!OutNext
  <1>7. CASE Ended[a] = "open" /\ Ended'[a] = "filtered" /\ a \in alerts \ Wanted
    <2>1. Out!Discard(a)
      BY <1>2, <1>3, <1>7 DEF Out!Discard, Out!End
    <2> QED
      BY <2>1 DEF Out!OutNext
  <1> QED
    BY <1>4, <1>5, <1>6, <1>7

LEMMA FilterMaps ==
    ASSUME HInv, RowsAreStored, NEW w \in Dispatchers, NEW a \in Alerts, Filter(w, a)
    PROVE  [Out!OutNext]_(Out!outVars)
  <1>1. /\ UNCHANGED <<alerts, posts, accepted>> /\ a \in alerts \ Wanted
        /\ delivery \in [Alerts -> Deliveries]
        /\ delivery[a].status \in {"none", "filtered"}
    BY DEF HInv, HookTypeOK, RowsAreTrue, RowsAreStored, Filter
  <1>2. /\ delivery'[a].status = "filtered"
        /\ \A b \in Alerts \ {a} : delivery'[b] = delivery[b]
    BY <1>1 DEF Filter, NoDelivery
  <1>3. Begun'[a] = Begun[a]
    BY <1>1 DEF Begun
  <1>4. Ended'[a] = "filtered" /\ Ended[a] \in {"open", "filtered"}
    BY <1>1, <1>2 DEF Ended, Settled
  <1> QED
    BY <1>1, <1>2, <1>3, <1>4, RowMaps

LEMMA ClaimMaps ==
    ASSUME HInv, RowsAreStored, NEW w \in Dispatchers, NEW a \in Alerts, ClaimDelivery(w, a)
    PROVE  [Out!OutNext]_(Out!outVars)
  <1>1. /\ UNCHANGED <<alerts, posts, accepted>> /\ a \in alerts \cap Wanted
        /\ delivery \in [Alerts -> Deliveries] /\ delivery[a] \in Deliveries
    BY DEF HInv, HookTypeOK, RowsAreStored, ClaimDelivery
  <1>2. CASE MayClaim(a)
    <2>1. delivery' = [delivery EXCEPT ![a] =
            [status |-> "in_progress", attempts |-> delivery[a].attempts + 1,
             token |-> delivery[a].attempts + 1, live |-> TRUE, due |-> TRUE]]
      BY <1>2 DEF ClaimDelivery
    <2>2. /\ delivery'[a].status = "in_progress"
          /\ delivery'[a].attempts = delivery[a].attempts + 1
          /\ \A b \in Alerts \ {a} : delivery'[b] = delivery[b]
      BY <1>1, <2>1
    <2>3. Ended[a] = "open" /\ Ended' = Ended
      BY <1>2, <2>2 DEF MayClaim, Ended, Settled
    <2>4. Begun[a] < HookAttempts /\ Begun' = [Begun EXCEPT ![a] = @ + 1]
      BY <1>1, <1>2, <2>2 DEF MayClaim, Begun
    <2>5. Out!Begin(a)
      BY <1>1, <2>3, <2>4 DEF Out!Begin
    <2> QED
      BY <2>5 DEF Out!OutNext
  <1>3. CASE ~MayClaim(a)
    <2>1. /\ delivery'[a] = GivenUp(a)
          /\ \A b \in Alerts \ {a} : delivery'[b] = delivery[b]
      BY <1>1, <1>3 DEF ClaimDelivery
    <2>2. Begun'[a] = Begun[a]
      BY <2>1, GivenUpLemma DEF Begun
    <2>3. CASE GivenUp(a) = delivery[a]
      <3>1. Ended'[a] = Ended[a]
        BY <2>1, <2>3 DEF Ended
      <3> QED
        BY <1>1, <2>1, <2>2, <3>1, RowMaps
    <2>4. CASE GivenUp(a) # delivery[a]
      <3>1. delivery[a].status = "in_progress" /\ delivery[a].attempts >= HookAttempts
        BY <2>4 DEF GivenUp
      <3>2. GivenUp(a).status = "permanent_failure"
        BY <2>4, GivenUpLemma
      <3>3. Ended[a] = "open" /\ Ended'[a] = "permanent_failure"
        BY <2>1, <3>1, <3>2 DEF Ended, Settled
      <3>4. Begun[a] > 0
        BY <1>1, <3>1, HookAssumption DEF Begun, Deliveries
      <3> QED
        BY <1>1, <2>1, <2>2, <3>3, <3>4, RowMaps
    <2> QED
      BY <2>3, <2>4
  <1> QED
    BY <1>2, <1>3

LEMMA CompleteMaps ==
    ASSUME HInv, NEW w \in Dispatchers, CompleteDelivery(w)
    PROVE  [Out!OutNext]_(Out!outVars)
  <1>1. PICK a \in Alerts : a = dispatcher[w].on
    BY HookAssumption DEF HInv, WorkIsClaimed, CompleteDelivery, Engaged
  <1>2. /\ UNCHANGED <<alerts, posts, accepted>> /\ a \in Wanted
        /\ delivery \in [Alerts -> Deliveries] /\ delivery[a] \in Deliveries
        /\ dispatcher[w].token \in 1..delivery[a].attempts
        /\ dispatcher[w].verdict = "delivered" => accepted[a] > 0
        /\ dispatcher[w].verdict \in Verdicts
    BY <1>1 DEF HInv, HookTypeOK, WorkIsClaimed, CompleteDelivery, Engaged, DispatcherLocals
  <1>3. Begun[a] > 0
    BY <1>2 DEF Begun, Deliveries
  <1>4. CASE IsCurrent(w)
    <2>1. /\ delivery'[a].status = Outcome(w)
          /\ delivery'[a].attempts = delivery[a].attempts
          /\ \A b \in Alerts \ {a} : delivery'[b] = delivery[b]
      BY <1>1, <1>2, <1>4 DEF CompleteDelivery, Deliveries
    <2>2. Begun'[a] = Begun[a]
      BY <2>1 DEF Begun
    <2>3. Ended[a] = "open"
      BY <1>1, <1>4 DEF IsCurrent, Ended, Settled
    <2>4. \/ Outcome(w) = "retryable" \/ Outcome(w) = "permanent_failure"
          \/ Outcome(w) = "delivered" /\ accepted[a] > 0
      BY <1>2 DEF Outcome, Verdicts
    <2>5. \/ Ended'[a] = "open" \/ Ended'[a] = "permanent_failure"
          \/ Ended'[a] = "delivered" /\ accepted[a] > 0
      BY <2>1, <2>4 DEF Ended, Settled
    <2> QED
      BY <1>2, <1>3, <2>1, <2>2, <2>3, <2>5, RowMaps
  <1>5. CASE ~IsCurrent(w)
    <2>1. delivery' = delivery
      BY <1>5 DEF CompleteDelivery
    <2>2. Begun' = Begun /\ Ended' = Ended
      BY <2>1 DEF Begun, Ended
    <2> QED
      BY <1>2, <2>2, OutStutter
  <1> QED
    BY <1>4, <1>5

LEMMA PostMaps ==
    ASSUME BInv, NEW w \in Dispatchers, Post(w)
    PROVE  [Out!OutNext]_(Out!outVars)
  <1>1. PICK a \in Alerts : a = dispatcher[w].on
    BY HookAssumption DEF BInv, HInv, WorkIsClaimed, Post, Engaged
  <1>2. /\ UNCHANGED <<alerts, delivery>> /\ a \in Wanted
        /\ delivery[a] \in Deliveries /\ posts[a] \in Nat
        /\ w \in Posting(a)
    BY <1>1 DEF BInv, HInv, HookTypeOK, WorkIsClaimed, Post, Engaged, Posting
  <1>3. posts[a] < Begun[a]
    <2>1. /\ IsFiniteSet(Posting(a))
          /\ posts[a] + Cardinality(Posting(a)) <= delivery[a].attempts
      BY <1>2 DEF BInv, Budget
    <2>2. Cardinality({}) = 0 /\ {} \in SUBSET Posting(a)
      BY FS_EmptySet
    <2>3. Cardinality(Posting(a)) \in Nat /\ 0 <= Cardinality(Posting(a)) - 1
      BY <1>2, <2>1, <2>2, Shrinks
    <2> QED
      BY <1>2, <2>1, <2>3 DEF Begun, Deliveries
  <1>4. /\ posts' = [posts EXCEPT ![a] = @ + 1]
        /\ accepted' = accepted \/ accepted' = [accepted EXCEPT ![a] = @ + 1]
    BY <1>1 DEF Post
  <1>5. Ended' = Ended /\ Begun' = Begun
    BY <1>2 DEF Ended, Begun
  <1>6. Out!Send(a)
    BY <1>2, <1>3, <1>4, <1>5 DEF Out!Send
  <1> QED
    BY <1>6 DEF Out!OutNext

LEMMA OtherStepMaps ==
    ASSUME HInv, UNCHANGED <<posts, accepted>>, delivery' \in [Alerts -> Deliveries],
           \A a \in Alerts : /\ delivery'[a].status = delivery[a].status
                             /\ delivery'[a].attempts = delivery[a].attempts,
           alerts' = alerts \/ \E a \in Alerts : a \notin alerts /\ alerts' = alerts \cup {a}
    PROVE  [Out!OutNext]_(Out!outVars)
  <1>1. Ended' = Ended /\ Begun' = Begun
    BY DEF Ended, Begun
  <1>2. CASE alerts' = alerts
    BY <1>1, <1>2, OutStutter
  <1>3. ASSUME NEW a \in Alerts, a \notin alerts, alerts' = alerts \cup {a}
        PROVE  [Out!OutNext]_(Out!outVars)
    <2>1. Out!Store(a)
      BY <1>1, <1>3 DEF Out!Store
    <2> QED
      BY <2>1 DEF Out!OutNext
  <1> QED
    BY <1>2, <1>3

LEMMA OutStepMaps ==
    ASSUME BInv, HInv', RowsAreStored, [HookNext]_hookVars
    PROVE  [Out!OutNext]_(Out!outVars)
  <1>0. /\ HInv /\ delivery' \in [Alerts -> Deliveries]
        /\ delivery \in [Alerts -> Deliveries]
    BY DEF BInv, HInv, HookTypeOK
  <1>1. CASE UNCHANGED hookVars
    BY <1>0, <1>1, OtherStepMaps DEF hookVars
  <1>2. ASSUME NEW a \in Alerts, StoreAlert(a) \/ LeaseExpires(a) \/ PostIsDue(a)
        PROVE  [Out!OutNext]_(Out!outVars)
    <2>1. /\ UNCHANGED <<posts, accepted>>
          /\ \/ alerts' = alerts
             \/ a \notin alerts /\ alerts' = alerts \cup {a}
      BY <1>2 DEF StoreAlert, LeaseExpires, PostIsDue
    <2>2. \A b \in Alerts : /\ delivery'[b].status = delivery[b].status
                            /\ delivery'[b].attempts = delivery[b].attempts
      BY <1>0, <1>2 DEF StoreAlert, LeaseExpires, PostIsDue, Deliveries
    <2> QED
      BY <1>0, <2>1, <2>2, OtherStepMaps
  <1>3. ASSUME NEW w \in Dispatchers, ReadPending(w) \/ EndRound(w) \/ Resolve(w) \/ Die(w)
        PROVE  [Out!OutNext]_(Out!outVars)
    <2>1. UNCHANGED <<alerts, delivery, posts, accepted>>
      BY <1>3 DEF ReadPending, EndRound, Resolve, Die
    <2> QED
      BY <1>0, <2>1, OtherStepMaps
  <1> QED
    BY <1>0, <1>1, <1>2, <1>3, FilterMaps, ClaimMaps, CompleteMaps, PostMaps
    DEF HookNext, Treat, Dispatching

\* Dispatchers that share a table, die, outlive their leases and complete late are
\* together what Outbox describes, for any number of them and any limit: an alert ends
\* once, truthfully, and is never posted without an attempt that was counted before.
THEOREM OutboxRefinement == HookSpec => ImplementsOutbox
  <1>1. HookInit => RowsAreStored /\ Out!OutInit
    <2> SUFFICES ASSUME HookInit PROVE RowsAreStored /\ Out!OutInit
      OBVIOUS
    <2>1. RowsAreStored
      BY DEF HookInit, RowsAreStored, AtRest
    <2>2. Ended = [a \in Alerts |-> "open"] /\ Begun = [a \in Alerts |-> 0]
      BY DEF HookInit, Ended, Begun, NoDelivery, Settled
    <2> QED
      BY <2>1, <2>2 DEF HookInit, Out!OutInit
  <1>2. HookSpec => []RowsAreStored
    <2>1. HInv /\ RowsAreStored /\ [HookNext]_hookVars => RowsAreStored'
      BY RowsStep
    <2> QED
      BY <1>1, <2>1, HookInvariant, PTL DEF HookSpec
  <1>3. BInv /\ HInv' /\ RowsAreStored /\ [HookNext]_hookVars => [Out!OutNext]_(Out!outVars)
    BY OutStepMaps
  <1> QED
    BY <1>1, <1>2, <1>3, HookInvariant, BudgetInvariant, PTL
    DEF HookSpec, ImplementsOutbox, Out!OutSpec
=============================================================================
