----------------------------- MODULE EventStore -----------------------------
(***************************************************************************)
(* The durable event queue and the worker-leadership lease, as the SQLite  *)
(* backend keeps them: tables `events` and `worker_leases` of              *)
(* production/storage/backend.py.  Every action is one BEGIN IMMEDIATE     *)
(* transaction, hence atomic.                                              *)
(*                                                                         *)
(* A transaction reads its clock before it waits for SQLite's write lock   *)
(* (busy_timeout), so the time it works with may lag the real clock by up  *)
(* to MaxLag: every operation takes that time as its parameter t.          *)
(*                                                                         *)
(* A worker stands for one SessionWorker object: the pair of its           *)
(* worker_owner and worker_token, drawn afresh by every process.  A claim  *)
(* token is a fresh uuid per claim; here it is the number of the attempt,  *)
(* which no two claims of one event share.                                 *)
(***************************************************************************)
EXTENDS Naturals, FiniteSets

CONSTANTS
    Events,         \* deterministic event ids
    Places,         \* places in the order (received_at, event_id)
    Sessions,       \* canonical session ids
    SessionOf,      \* the session of each event
    Corrupt,        \* events whose stored payload no longer decodes
    Workers,        \* session-worker processes
    NoWorker,       \* SQL NULL in an owner column
    LeaseSeconds,   \* event_lease_seconds
    LeaderSeconds,  \* worker_leader_lease_seconds
    RetryDelays,    \* the delays a failure may be retried after
    MaxAttempts,    \* event_max_attempts
    MaxLag,         \* longest wait for the write lock
    MaxTime         \* bound of the model: the clock stops there

ASSUME StoreAssumption ==
    /\ Places \subseteq Nat \ {0}
    /\ SessionOf \in [Events -> Sessions]
    /\ Corrupt \subseteq Events
    /\ NoWorker \notin Workers
    /\ LeaseSeconds \in Nat \ {0}
    /\ LeaderSeconds \in Nat \ {0}
    /\ LeaseSeconds <= LeaderSeconds
    /\ RetryDelays \subseteq Nat
    /\ MaxAttempts \in Nat \ {0}
    /\ MaxLag \in Nat
    /\ MaxTime \in Nat

VARIABLES
    clock,     \* real time
    recv,      \* recv[e]: place of row e in (received_at, event_id) order, 0: no row
    outcome,   \* processed and processing_outcome together
    attempts,  \* column attempts
    retryAt,   \* next_retry_at, 0: NULL
    claim,     \* claim_owner (= leader binding), claim_token, claim_expires_at
    lease      \* the row of worker_leases for scope session-worker

storeVars == <<clock, recv, outcome, attempts, retryAt, claim, lease>>

Outcomes == {"pending", "retry_scheduled", "succeeded", "dead_letter"}
Terminal == {"succeeded", "dead_letter"}

NoClaim == [owner |-> NoWorker, token |-> 0, exp |-> 0]
NoLease == [owner |-> NoWorker, exp |-> 0]

TypeOK ==
    /\ clock \in Nat
    /\ recv \in [Events -> Nat]
    /\ outcome \in [Events -> Outcomes]
    /\ attempts \in [Events -> Nat]
    /\ retryAt \in [Events -> Nat]
    /\ claim \in [Events -> [owner : Workers \cup {NoWorker},
                             token : Nat, exp : Nat]]
    /\ lease \in [owner : Workers \cup {NoWorker}, exp : Nat]

Init ==
    /\ clock = 0
    /\ recv = [e \in Events |-> 0]
    /\ outcome = [e \in Events |-> "pending"]
    /\ attempts = [e \in Events |-> 0]
    /\ retryAt = [e \in Events |-> 0]
    /\ claim = [e \in Events |-> NoClaim]
    /\ lease = NoLease

\* The times a transaction that commits now may have read.
Nows == {t \in 0..clock : clock <= t + MaxLag}

-----------------------------------------------------------------------------
(* Which row a claim may take. *)

Pending(e) == recv[e] # 0 /\ outcome[e] \notin Terminal

\* e comes before f in the order the queue serves one session.
Precedes(e, f) == SessionOf[e] = SessionOf[f] /\ recv[e] < recv[f]

\* NOT EXISTS an unprocessed predecessor in the session.
AtHead(e) == Pending(e) /\ \A p \in Events : Pending(p) => ~Precedes(p, e)

\* The row's retry is due and no live claim holds it.
Available(e, t) ==
    /\ retryAt[e] <= t
    /\ claim[e].owner = NoWorker \/ claim[e].exp <= t

\* Heads that used up their attempts: claim_events dead-letters them first.
Exhausted(t) ==
    {e \in Events : AtHead(e) /\ Available(e, t) /\ attempts[e] >= MaxAttempts}

Claimable(e, t) ==
    /\ Pending(e)
    /\ Available(e, t)
    /\ attempts[e] < MaxAttempts

\* Bug: a predecessor that waits for its retry no longer blocks its session.
CandidatesPastRetries(t) ==
    {e \in Events :
        /\ Claimable(e, t)
        /\ \A p \in Events :
              (Precedes(p, e) /\ Pending(p)) => (attempts[p] > 0 /\ retryAt[p] > t)}

\* The candidates that remain, those included that come to the head only when
\* the same transaction has dead-lettered the undecodable rows before them.
Candidates(t) ==
    LET gone == Exhausted(t)
    IN  {e \in Events :
            /\ Claimable(e, t)
            /\ \A p \in Events :
                  (Precedes(p, e) /\ Pending(p) /\ p \notin gone)
                     => (p \in Corrupt /\ Claimable(p, t))}

\* The row a claim with limit 1 returns, as a set of at most one event.
FirstValid(t) ==
    LET valid == Candidates(t) \ Corrupt
    IN  {e \in valid : \A f \in valid : recv[e] <= recv[f]}

\* The undecodable rows the loop meets before it finds that one.
CorruptMet(t) ==
    LET got == FirstValid(t)
    IN  {c \in Candidates(t) \cap Corrupt : \A e \in got : recv[c] < recv[e]}

\* The worker's leadership lease does not expire before u.
Leads(w, u) == lease.owner = w /\ lease.exp >= u

\* w holds event e under token k, unexpired, and is still the leader.
Holds(w, e, k, t) ==
    /\ outcome[e] \notin Terminal
    /\ claim[e].owner = w
    /\ claim[e].token = k
    /\ claim[e].exp > t

-----------------------------------------------------------------------------
(* The operations: one transaction each. *)

\* store_event of an event not stored yet (a repeated one is INSERT OR IGNORE).
\* The ingest thread draws received_at before it waits for the write lock, so
\* rows of different sessions may be inserted out of that order.  Those of one
\* session are not: its sensor's forwarder sends them one after the other, and
\* every thread draws the time of the next only after it has stored this one.
StoreEvent(e) ==
    /\ recv[e] = 0
    /\ \E n \in Places :
          /\ \A f \in Events : recv[f] # n
          /\ \A f \in Events : SessionOf[f] = SessionOf[e] => recv[f] < n
          /\ recv' = [recv EXCEPT ![e] = n]
    /\ UNCHANGED <<clock, outcome, attempts, retryAt, claim, lease>>

\* claim_events with limit 1 and a leader binding; it returns FirstValid(t).
ClaimEvents(w, t) ==
    /\ Leads(w, t + LeaseSeconds)
    /\ LET got  == FirstValid(t)
           dead == Exhausted(t) \cup CorruptMet(t) IN
       /\ outcome' = [e \in Events |->
                        IF e \in dead THEN "dead_letter"
                        ELSE IF e \in got THEN "pending" ELSE outcome[e]]
       /\ attempts' = [e \in Events |->
                        IF e \in got THEN attempts[e] + 1 ELSE attempts[e]]
       /\ retryAt' = [e \in Events |-> IF e \in dead THEN 0 ELSE retryAt[e]]
       /\ claim' = [e \in Events |->
                        IF e \in dead THEN NoClaim
                        ELSE IF e \in got
                             THEN [owner |-> w, token |-> attempts[e] + 1,
                                   exp |-> t + LeaseSeconds]
                             ELSE claim[e]]
    /\ UNCHANGED <<clock, recv, lease>>

RenewEventClaim(w, e, k, t) ==
    /\ Holds(w, e, k, t)
    /\ Leads(w, t + LeaseSeconds)
    /\ claim' = [claim EXCEPT ![e].exp = t + LeaseSeconds]
    /\ UNCHANGED <<clock, recv, outcome, attempts, retryAt, lease>>

\* The end of a claim: its row leaves with outcome o, due again at r.
Settle(w, e, k, t, o, r) ==
    /\ Holds(w, e, k, t)
    /\ Leads(w, t + 1)
    /\ outcome' = [outcome EXCEPT ![e] = o]
    /\ retryAt' = [retryAt EXCEPT ![e] = r]
    /\ claim' = [claim EXCEPT ![e] = NoClaim]
    /\ UNCHANGED <<clock, recv, attempts, lease>>

CompleteEvent(w, e, k, t) == Settle(w, e, k, t, "succeeded", 0)

\* fail_event: another attempt if the error allows it and one is left.
FailEvent(w, e, k, t, retryable) ==
    IF retryable /\ attempts[e] < MaxAttempts
    THEN \E d \in RetryDelays : Settle(w, e, k, t, "retry_scheduled", t + d)
    ELSE Settle(w, e, k, t, "dead_letter", 0)

ReleaseEventClaim(w, e, k, t) == Settle(w, e, k, t, "pending", retryAt[e])

\* Bug: a takeover looks only at the lease row.
AcquireDespiteClaims(w, t) ==
    /\ lease.exp > t => lease.owner = w
    /\ lease' = [owner |-> w, exp |-> t + LeaderSeconds]
    /\ UNCHANGED <<clock, recv, outcome, attempts, retryAt, claim>>

\* Extend one's own live lease, or take a lease that is free or expired unless
\* a live claim is bound to another worker.
MayAcquire(w, t) ==
    IF lease.exp > t
    THEN lease.owner = w
    ELSE \A e \in Events :
            Pending(e) => claim[e].owner \in {w, NoWorker} \/ claim[e].exp <= t

AcquireWorkerLease(w, t) ==
    /\ MayAcquire(w, t)
    /\ lease' = [owner |-> w, exp |-> t + LeaderSeconds]
    /\ UNCHANGED <<clock, recv, outcome, attempts, retryAt, claim>>

RenewWorkerLease(w, t) ==
    /\ Leads(w, t + 1)
    /\ lease' = [owner |-> w, exp |-> t + LeaderSeconds]
    /\ UNCHANGED <<clock, recv, outcome, attempts, retryAt, claim>>

ReleaseWorkerLease(w, t) ==
    /\ Leads(w, t + 1)
    /\ lease' = NoLease
    /\ UNCHANGED <<clock, recv, outcome, attempts, retryAt, claim>>

Tick ==
    /\ clock < MaxTime
    /\ clock' = clock + 1
    /\ UNCHANGED <<recv, outcome, attempts, retryAt, claim, lease>>

-----------------------------------------------------------------------------
(* Any worker may call any operation at any time, with any token it was     *)
(* ever given: the queue must protect itself.                               *)

ClaimOp(w, e, t) ==
    \E k \in 1..MaxAttempts :
        \/ RenewEventClaim(w, e, k, t)
        \/ CompleteEvent(w, e, k, t)
        \/ \E retryable \in BOOLEAN : FailEvent(w, e, k, t, retryable)
        \/ ReleaseEventClaim(w, e, k, t)

LeaseOp(w, t) ==
    \/ AcquireWorkerLease(w, t)
    \/ RenewWorkerLease(w, t)
    \/ ReleaseWorkerLease(w, t)

Next ==
    \/ \E e \in Events : StoreEvent(e)
    \/ \E w \in Workers, t \in Nows :
          \/ ClaimEvents(w, t)
          \/ \E e \in Events : ClaimOp(w, e, t)
          \/ LeaseOp(w, t)
    \/ Tick

Spec == Init /\ [][Next]_storeVars

-----------------------------------------------------------------------------
(* Properties. *)

Live(e) == claim[e].owner # NoWorker /\ claim[e].exp > clock

\* No two workers hold live claims at the same time, whatever order leases
\* expire, are released or are taken over in; and while the lease row exists
\* its owner is the one who holds them.  acquire_worker_lease's look at the
\* unexpired claims is what a takeover relies on.
OneWorkerHoldsTheLiveClaims ==
    /\ \A e, f \in Events : Live(e) /\ Live(f) => claim[e].owner = claim[f].owner
    /\ \A e \in Events : Live(e) /\ lease # NoLease => claim[e].owner = lease.owner

\* Head-of-line order: an event is claimed, or has ever been tried, or is
\* settled only when everything before it in its session is settled, also
\* across retries, dead letters and takeovers.
SessionsAreServedInOrder ==
    \A e, f \in Events :
        (recv[e] # 0 /\ Precedes(e, f) /\ attempts[f] > 0) => outcome[e] \in Terminal

\* A settled row is never opened again nor settled the other way, and a row is
\* tried again only after its last claim ended, at most MaxAttempts times.
SettlesOnce ==
    \A e \in Events :
        /\ outcome[e] \in Terminal => outcome'[e] = outcome[e]
        /\ attempts'[e] # attempts[e] =>
              /\ attempts'[e] = attempts[e] + 1
              /\ attempts'[e] <= MaxAttempts
              /\ ~Live(e)

SettledOnce == [][SettlesOnce]_storeVars

\* How the events are settled, for the one who reads only that.
Status == [e \in Events |->
              IF outcome[e] \in Terminal THEN outcome[e] ELSE "unsettled"]

\* The queue implements what it promises: a session is a first-in first-out
\* queue whose rows are settled once, whatever happens to claims and leases.
Queue == INSTANCE SessionQueue WITH place <- recv, status <- Status

ImplementsSessionQueue == Queue!Spec
=============================================================================
