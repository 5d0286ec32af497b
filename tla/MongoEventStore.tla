--------------------------- MODULE MongoEventStore ---------------------------
(***************************************************************************)
(* The event queue and the leadership lease on MongoDB, the backend the    *)
(* service runs on (production/storage/mongodb_backend.py,                 *)
(* mongodb_operations.py), with the dual-durable store of                  *)
(* mongodb_epoch.py.  The state is that of EventStore, but nothing holds a *)
(* lock over two documents: an operation is a sequence of reads and of     *)
(* updates of one document whose filter looks at that document again.      *)
(*                                                                         *)
(* A call in progress is a record of calls, an event being stored a record *)
(* of stores; `at` is the next access to the database, the rest are the    *)
(* locals that are still needed.  Any thread of any worker may have a      *)
(* call, and each may end at every step by a timeout or with its process;  *)
(* two calls that are the same in everything count as one.                 *)
(***************************************************************************)
EXTENDS EventStore

CONSTANTS
    MaxCalls,    \* bound of the model: calls in progress
    MaxStores    \* threads of the ingest API

ASSUME MongoAssumption == MaxCalls \in Nat /\ MaxStores \in Nat

VARIABLES
    calls,   \* calls of the workers in progress
    stores,  \* calls of store_event in progress
    mirror,  \* mirror[e]: received_at of e in the SQLite rollback mirror, 0: no row
    acked    \* events acknowledged to the forwarder

mongoVars == <<calls, stores, mirror, acked>>

Calls == [at : {"heads", "sweep", "pick", "take", "discard", "attempts", "settle",
                "renew", "acquire"},
          worker : Workers, time : Nat, rows : SUBSET Events, token : Nat,
          outcome : Outcomes, due : Nat]

Stores == [at : {"look", "look in mirror", "insert", "insert in mirror", "verify"},
           event : Events, place : Nat]

MongoTypeOK ==
    /\ TypeOK
    /\ calls \subseteq Calls
    /\ stores \subseteq Stores
    /\ mirror \in [Events -> Nat]
    /\ acked \subseteq Events

MongoInit ==
    /\ Init
    /\ calls = {} /\ stores = {}
    /\ mirror = [e \in Events |-> 0]
    /\ acked = {}

-----------------------------------------------------------------------------
(* Storing an event for its acknowledgement.                                *)

\* The next access of a call, or its return.
StoreGoes(s, at) == stores' = (stores \ {s}) \cup {[s EXCEPT !.at = at]}
StoreEnds(s) == stores' = stores \ {s}

\* MongoEpochStorage.store_event: the first durable received_at stays; a new event
\* gets the time of now, which is later than that of every event of its session
\* that is stored, because its sensor's forwarder sends the next one, in whichever
\* request, only after this one is.
StartStore(e) ==
    /\ Cardinality(stores) < MaxStores
    /\ \E n \in Places :
          /\ IF recv[e] # 0
             THEN n = recv[e]
             ELSE /\ \A f \in Events : SessionOf[f] = SessionOf[e] => recv[f] < n
                  /\ \A s \in stores :
                        SessionOf[s.event] = SessionOf[e] /\ recv[s.event] = 0
                            => s.event = e
          /\ stores' = stores \cup {[at |-> "look", event |-> e, place |-> n]}
    /\ UNCHANGED <<storeVars, calls, mirror, acked>>

\* persist_for_ack: a copy that differs is a conflict, an exception.
LookForEvent(s) ==
    /\ s.at = "look"
    /\ IF recv[s.event] \in {0, s.place} THEN StoreGoes(s, "look in mirror") ELSE StoreEnds(s)
    /\ UNCHANGED <<storeVars, calls, mirror, acked>>

LookInMirror(s) ==
    /\ s.at = "look in mirror"
    /\ IF mirror[s.event] \in {0, s.place} THEN StoreGoes(s, "insert") ELSE StoreEnds(s)
    /\ UNCHANGED <<storeVars, calls, mirror, acked>>

\* Bug: the mirror is written before the canonical store.
InsertAfterMirror(s) ==
    /\ s.at \in {"insert", "insert in mirror"}
    /\ IF s.at = "insert"
       THEN /\ mirror' = [mirror EXCEPT ![s.event] = s.place]
            /\ StoreGoes(s, "insert in mirror") /\ UNCHANGED recv
       ELSE /\ recv' = [recv EXCEPT ![s.event] = IF @ = 0 THEN s.place ELSE @]
            /\ StoreGoes(s, "verify") /\ UNCHANGED mirror
    /\ UNCHANGED <<clock, outcome, attempts, retryAt, claim, lease, calls, acked>>

\* insert_one: a duplicate key is only accepted with the same contents.
InsertEvent(s) ==
    /\ s.at = "insert"
    /\ IF recv[s.event] \in {0, s.place}
       THEN /\ recv' = [recv EXCEPT ![s.event] = s.place]
            /\ StoreGoes(s, "insert in mirror")
       ELSE StoreEnds(s) /\ UNCHANGED recv
    /\ UNCHANGED <<clock, outcome, attempts, retryAt, claim, lease, calls, mirror, acked>>

InsertInMirror(s) ==
    /\ s.at = "insert in mirror"
    /\ IF mirror[s.event] \in {0, s.place}
       THEN /\ mirror' = [mirror EXCEPT ![s.event] = s.place]
            /\ StoreGoes(s, "verify")
       ELSE StoreEnds(s) /\ UNCHANGED mirror
    /\ UNCHANGED <<storeVars, calls, acked>>

\* Both copies are read again; only then is the event acknowledged.
Acknowledge(s) ==
    /\ s.at = "verify"
    /\ acked' = acked \cup {e \in {s.event} : recv[e] = s.place /\ mirror[e] = s.place}
    /\ StoreEnds(s)
    /\ UNCHANGED <<storeVars, calls, mirror>>

\* A timeout, the capacity guard, or the end of the process.
StoreFails(s) == StoreEnds(s) /\ UNCHANGED <<storeVars, calls, mirror, acked>>

StoringStep(s) ==
    \/ LookForEvent(s) \/ LookInMirror(s) \/ InsertEvent(s) \/ InsertInMirror(s)
    \/ Acknowledge(s) \/ StoreFails(s)

-----------------------------------------------------------------------------
(* The calls of the workers.                                                *)

NewCall(w, t, at) ==
    [at |-> at, worker |-> w, time |-> t, rows |-> {}, token |-> 0,
     outcome |-> "pending", due |-> 0]

Begins(c) == Cardinality(calls) < MaxCalls /\ calls' = calls \cup {c}
Goes(c, d) == calls' = (calls \ {c}) \cup {d}
Returns(c) == calls' = calls \ {c}

\* The row is no longer what the call is about, or is dead-lettered.
Bury(e) ==
    /\ outcome' = [outcome EXCEPT ![e] = "dead_letter"]
    /\ retryAt' = [retryAt EXCEPT ![e] = 0]
    /\ claim' = [claim EXCEPT ![e] = NoClaim]
    /\ UNCHANGED attempts

\* claim_events with limit 1: _leader_matches first.
StartClaim(w, t) ==
    /\ Leads(w, t + LeaseSeconds)
    /\ Begins(NewCall(w, t, "heads"))
    /\ UNCHANGED <<storeVars, stores, mirror, acked>>

\* Its aggregations: the heads of the sessions, of them those that match.
ReadExhausted(c) ==
    /\ c.at = "heads"
    /\ Goes(c, [c EXCEPT !.at = "sweep", !.rows = Exhausted(c.time)])
    /\ UNCHANGED <<storeVars, stores, mirror, acked>>

\* One update of the sweep, whose filter is the match, not the head.
SweepRow(c) ==
    /\ c.at = "sweep"
    /\ \E e \in c.rows :
          /\ IF Pending(e) /\ Available(e, c.time) /\ attempts[e] >= MaxAttempts
             THEN Bury(e) ELSE UNCHANGED <<outcome, attempts, retryAt, claim>>
          /\ Goes(c, [c EXCEPT !.rows = @ \ {e}])
    /\ UNCHANGED <<clock, recv, lease, stores, mirror, acked>>

\* Bug: every claimable row is a candidate, head or not.
ClaimableRows(t) == {e \in Events : Claimable(e, t)}

ClaimableHeads(t) == {e \in Events : AtHead(e) /\ Claimable(e, t)}

PickHead(c) ==
    /\ c.at = "pick" \/ (c.at = "sweep" /\ c.rows = {})
    /\ LET heads == ClaimableHeads(c.time) IN
       \/ heads = {} /\ Returns(c)
       \/ \E e \in heads :
             /\ \A f \in heads : recv[e] <= recv[f]
             /\ Goes(c, [c EXCEPT !.at = "take", !.rows = {e}])
    /\ UNCHANGED <<storeVars, stores, mirror, acked>>

\* Bug: the update looks at the row's id only, not at the claim conditions again.
TakeUnchecked(c) ==
    /\ c.at = "take"
    /\ \E e \in c.rows :
          /\ attempts' = [attempts EXCEPT ![e] = @ + 1]
          /\ outcome' = [outcome EXCEPT ![e] = "pending"]
          /\ claim' = [claim EXCEPT ![e] = [owner |-> c.worker, token |-> attempts[e] + 1,
                                            exp |-> c.time + LeaseSeconds]]
    /\ Returns(c)
    /\ UNCHANGED <<clock, recv, retryAt, lease, stores, mirror, acked>>

\* find_one_and_update: a row that is no longer claimable ends the call with nothing;
\* the one taken is returned if it decodes.
TakeHead(c) ==
    /\ c.at = "take"
    /\ \E e \in c.rows :
          IF Claimable(e, c.time)
          THEN /\ attempts' = [attempts EXCEPT ![e] = @ + 1]
               /\ outcome' = [outcome EXCEPT ![e] = "pending"]
               /\ claim' = [claim EXCEPT ![e] = [owner |-> c.worker, token |-> attempts[e] + 1,
                                                 exp |-> c.time + LeaseSeconds]]
               /\ IF e \in Corrupt
                  THEN Goes(c, [c EXCEPT !.at = "discard", !.token = attempts[e] + 1])
                  ELSE Returns(c)
          ELSE Returns(c) /\ UNCHANGED <<attempts, outcome, claim>>
    /\ UNCHANGED <<clock, recv, retryAt, lease, stores, mirror, acked>>

\* A row that does not decode is dead-lettered under the claim just made, however
\* late, and the loop goes on.
Discard(c) ==
    /\ c.at = "discard"
    /\ \E e \in c.rows :
          IF Pending(e) /\ claim[e].owner = c.worker /\ claim[e].token = c.token
          THEN Bury(e) ELSE UNCHANGED <<outcome, attempts, retryAt, claim>>
    /\ Goes(c, NewCall(c.worker, c.time, "pick"))
    /\ UNCHANGED <<clock, recv, lease, stores, mirror, acked>>

\* The calls about a claim: the leader is looked up first, then the row is updated
\* if it still has that claim.  A worker knows the tokens it was given, so that a
\* call about any other claim changes nothing.
About(w, e, at, t) ==
    [NewCall(w, t, at) EXCEPT !.rows = {e}, !.token = claim[e].token]

StartRenewal(w, e, t) ==
    /\ claim[e].owner = w /\ Leads(w, t + LeaseSeconds)
    /\ Begins(About(w, e, "renew", t))
    /\ UNCHANGED <<storeVars, stores, mirror, acked>>

RenewRow(c) ==
    /\ c.at = "renew"
    /\ \E e \in c.rows :
          claim' = IF Holds(c.worker, e, c.token, c.time)
                   THEN [claim EXCEPT ![e].exp = c.time + LeaseSeconds] ELSE claim
    /\ Returns(c)
    /\ UNCHANGED <<clock, recv, outcome, attempts, retryAt, lease, stores, mirror, acked>>

\* complete_event, release_event_claim, and fail_event of an error that may be
\* tried again or not.
StartSettling(w, e, t) ==
    /\ claim[e].owner = w /\ Leads(w, t)
    /\ \/ \E o \in {"succeeded", "pending"} :
             Begins([About(w, e, "settle", t) EXCEPT !.outcome = o])
       \/ \E o \in {"retry_scheduled", "dead_letter"} :
             Begins([About(w, e, "attempts", t) EXCEPT !.outcome = o])
    /\ UNCHANGED <<storeVars, stores, mirror, acked>>

ReadAttempts(c) ==
    /\ c.at = "attempts"
    /\ \E e \in c.rows :
          IF Holds(c.worker, e, c.token, c.time)
          THEN IF c.outcome = "retry_scheduled" /\ attempts[e] < MaxAttempts
               THEN \E d \in RetryDelays :
                       Goes(c, [c EXCEPT !.at = "settle", !.due = c.time + d])
               ELSE Goes(c, [c EXCEPT !.at = "settle", !.outcome = "dead_letter"])
          ELSE Returns(c)
    /\ UNCHANGED <<storeVars, stores, mirror, acked>>

SettleRow(c) ==
    /\ c.at = "settle"
    /\ \E e \in c.rows :
          IF Holds(c.worker, e, c.token, c.time)
          THEN /\ outcome' = [outcome EXCEPT ![e] = c.outcome]
               /\ retryAt' = [retryAt EXCEPT ![e] = IF c.outcome = "pending" THEN @ ELSE c.due]
               /\ claim' = [claim EXCEPT ![e] = NoClaim]
          ELSE UNCHANGED <<outcome, retryAt, claim>>
    /\ Returns(c)
    /\ UNCHANGED <<clock, recv, attempts, lease, stores, mirror, acked>>

\* acquire_worker_lease: no live claim of another worker, then an upsert of the
\* lease if it is free, expired or one's own.
StartAcquiring(w, t) ==
    /\ \A e \in Events :
          Pending(e) => claim[e].owner \in {w, NoWorker} \/ claim[e].exp <= t
    /\ Begins(NewCall(w, t, "acquire"))
    /\ UNCHANGED <<storeVars, stores, mirror, acked>>

WriteLease(c) ==
    /\ c.at = "acquire"
    /\ lease' = IF lease.exp <= c.time \/ lease.owner = c.worker
                THEN [owner |-> c.worker, exp |-> c.time + LeaderSeconds] ELSE lease
    /\ Returns(c)
    /\ UNCHANGED <<clock, recv, outcome, attempts, retryAt, claim, stores, mirror, acked>>

\* A timeout or the end of the process.
CallFails(c) == Returns(c) /\ UNCHANGED <<storeVars, stores, mirror, acked>>

CallStep(c) ==
    \/ ReadExhausted(c) \/ SweepRow(c) \/ PickHead(c) \/ TakeHead(c) \/ Discard(c)
    \/ RenewRow(c) \/ ReadAttempts(c) \/ SettleRow(c) \/ WriteLease(c) \/ CallFails(c)

\* Renewal and release of the lease are one update, as on SQLite.
LeaseUpdate(w, t) ==
    /\ RenewWorkerLease(w, t) \/ ReleaseWorkerLease(w, t)
    /\ UNCHANGED mongoVars

StartCall(w, t) ==
    \/ StartClaim(w, t) \/ StartAcquiring(w, t)
    \/ \E e \in Events : StartRenewal(w, e, t) \/ StartSettling(w, e, t)

MongoNext ==
    \/ \E e \in Events : StartStore(e)
    \/ \E s \in stores : StoringStep(s)
    \/ \E w \in Workers, t \in Nows : StartCall(w, t) \/ LeaseUpdate(w, t)
    \/ \E c \in calls : CallStep(c)
    \/ Tick /\ UNCHANGED mongoVars

MongoSpec == MongoInit /\ [][MongoNext]_<<storeVars, mongoVars>>

-----------------------------------------------------------------------------
(* Properties, beside those of EventStore. *)

\* Whatever threads store one event at once, fail or die in between: the rollback
\* mirror holds nothing that the canonical store lacks or dates differently, which
\* would make every later attempt a conflict; and an acknowledged event is in both.
MirrorAgrees ==
    /\ \A e \in Events : mirror[e] # 0 => mirror[e] = recv[e]
    /\ \A e \in acked : mirror[e] # 0
=============================================================================
