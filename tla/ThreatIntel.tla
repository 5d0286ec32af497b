----------------------------- MODULE ThreatIntel -----------------------------
(***************************************************************************)
(* Threat intelligence of the second pipeline: the processor stores a raw  *)
(* event, publishes a look-up of its observable and acknowledges; the TI   *)
(* worker answers the look-up from its caches or the provider, within a    *)
(* budget per minute, attaches the answer to the event and acknowledges.   *)
(* agents/processor-agent and agents/ti-worker.                            *)
(*                                                                         *)
(* Both read a Redis stream with one loop for new messages and one that    *)
(* claims those left pending, a message the first loop is still at         *)
(* included.  Any call may fail and either process may die at any step.    *)
(* All events carry the same observable of one provider.                   *)
(***************************************************************************)
EXTENDS Naturals, Sequences

CONSTANTS
    RawEvents,  \* raw events
    Budget,     \* requests per minute
    StreamMax,  \* TI_JOBS_STREAM_MAXLEN
    MaxJobs     \* bound: look-ups ever published

ASSUME TiAssumption ==
    /\ RawEvents \subseteq Nat \ {0}
    /\ Budget \in Nat \ {0}
    /\ StreamMax \in Nat \ {0} /\ MaxJobs \in Nat \ {0}

Loops == {"consume", "recover"}

VARIABLES
    raw,         \* raw stream: state of an event's message
    kept,        \* events in MongoDB
    canonical,   \* events published on event:canonical
    queued,      \* the key ti:queued:<job> is there
    jobs,        \* stream ti:jobs
    minute,      \* counter of this minute, and history: requests made in it
    cached,      \* a stored answer is valid, in Redis or in collection threat_intel
    projected,   \* events an answer is attached to
    processor,   \* loops of the processor: step and message
    lookup,      \* loops of the TI worker: step and locals
    refused      \* history: look-ups the provider refused for good

tiVars == <<raw, kept, canonical, queued, jobs, minute, cached, projected, processor,
            lookup, refused>>

NoMessage == [at |-> "idle", on |-> 0]
NoLookup == [at |-> "idle", job |-> 0]

TiTypeOK ==
    /\ raw \in [RawEvents -> {"absent", "unread", "pending", "acked"}]
    /\ kept \subseteq RawEvents /\ canonical \subseteq RawEvents /\ queued \in BOOLEAN
    /\ Len(jobs) <= MaxJobs
    /\ \A i \in DOMAIN jobs :
          jobs[i] \in [event : kept, state : {"unread", "pending", "acked", "trimmed"}]
    /\ minute \in [counter : 0..Budget, requests : Nat]
    /\ cached \in BOOLEAN /\ projected \subseteq kept
    /\ processor \in [Loops -> [at : {"idle", "store", "dedup", "publish", "canonical", "ack"},
                                on : RawEvents \cup {0}]]
    /\ lookup \in [Loops -> [at : {"idle", "reserve", "ask", "store",
                                   "attach", "ack"},
                             job : 0..MaxJobs]]
    /\ refused \subseteq DOMAIN jobs

TiInit ==
    /\ raw = [e \in RawEvents |-> "absent"]
    /\ kept = {} /\ canonical = {} /\ queued = FALSE
    /\ jobs = <<>>
    /\ minute = [counter |-> 0, requests |-> 0]
    /\ cached = FALSE /\ projected = {}
    /\ processor = [p \in Loops |-> NoMessage]
    /\ lookup = [t \in Loops |-> NoLookup]
    /\ refused = {}

-----------------------------------------------------------------------------
(* The processor: processMessage in either loop. *)

At(p, from, to) ==
    /\ processor[p].at = from
    /\ processor' = [processor EXCEPT ![p] = IF to = "idle" THEN NoMessage ELSE [@ EXCEPT !.at = to]]

\* The collector adds a message to the raw stream.
Collect(e) ==
    /\ raw[e] = "absent"
    /\ raw' = [raw EXCEPT ![e] = "unread"]
    /\ UNCHANGED <<kept, canonical, queued, jobs, minute, cached, projected, processor,
                   lookup, refused>>

\* XREADGROUP of a new message, or XAUTOCLAIM of a pending one.
TakeMessage(p, e) ==
    /\ processor[p].at = "idle"
    /\ raw[e] = IF p = "consume" THEN "unread" ELSE "pending"
    /\ raw' = [raw EXCEPT ![e] = "pending"]
    /\ processor' = [processor EXCEPT ![p] = [at |-> "store", on |-> e]]
    /\ UNCHANGED <<kept, canonical, queued, jobs, minute, cached, projected, lookup, refused>>

\* Bug: an error of the upsert is ignored.
UpsertUnchecked(p) ==
    /\ At(p, "store", "dedup")
    /\ \E stored \in BOOLEAN : kept' = kept \cup {e \in {processor[p].on} : stored}
    /\ UNCHANGED <<raw, canonical, queued, jobs, minute, cached, projected, lookup, refused>>

\* upsertEvent: $setOnInsert.
UpsertEvent(p) ==
    /\ At(p, "store", "dedup")
    /\ kept' = kept \cup {processor[p].on}
    /\ UNCHANGED <<raw, canonical, queued, jobs, minute, cached, projected, lookup, refused>>

\* SETNX ti:queued: a look-up of the observable within the last minute is enough.
Dedup(p) ==
    /\ At(p, "dedup", IF queued THEN "canonical" ELSE "publish")
    /\ queued' = TRUE
    /\ UNCHANGED <<raw, kept, canonical, jobs, minute, cached, projected, lookup, refused>>

\* XADD ti:jobs, which may trim the oldest entries (the limit is approximate).
PublishJob(p) ==
    /\ At(p, "publish", "canonical")
    /\ \E trim \in BOOLEAN :
         jobs' = [i \in 1..(Len(jobs) + 1) |->
                    IF i > Len(jobs) THEN [event |-> processor[p].on, state |-> "unread"]
                    ELSE IF trim /\ i + StreamMax <= Len(jobs) + 1 /\ jobs[i].state # "acked"
                    THEN [jobs[i] EXCEPT !.state = "trimmed"]
                    ELSE jobs[i]]
    /\ UNCHANGED <<raw, kept, canonical, queued, minute, cached, projected, lookup, refused>>

\* XADD fails and DEL of the key succeeds.
PublishFails(p) ==
    /\ At(p, "publish", "idle")
    /\ queued' = FALSE
    /\ UNCHANGED <<raw, kept, canonical, jobs, minute, cached, projected, lookup, refused>>

PublishCanonical(p) ==
    /\ At(p, "canonical", "ack")
    /\ canonical' = canonical \cup {processor[p].on}
    /\ UNCHANGED <<raw, kept, queued, jobs, minute, cached, projected, lookup, refused>>

AckMessage(p) ==
    /\ At(p, "ack", "idle")
    /\ raw' = [raw EXCEPT ![processor[p].on] = "acked"]
    /\ UNCHANGED <<kept, canonical, queued, jobs, minute, cached, projected, lookup, refused>>

\* A call fails, DEL after a failed XADD included, or the process dies: the message
\* stays pending.
ProcessFails(p) ==
    /\ processor[p].at # "idle"
    /\ processor' = [processor EXCEPT ![p] = NoMessage]
    /\ UNCHANGED <<raw, kept, canonical, queued, jobs, minute, cached, projected, lookup,
                   refused>>

\* The key lives for TI_ENQUEUE_DEDUP_TTL.
KeyExpires ==
    /\ queued
    /\ Len(jobs) + (IF processor["consume"].at = "publish" THEN 1 ELSE 0)
                 + (IF processor["recover"].at = "publish" THEN 1 ELSE 0) < MaxJobs
    /\ queued' = FALSE
    /\ UNCHANGED <<raw, kept, canonical, jobs, minute, cached, projected, processor, lookup,
                   refused>>

-----------------------------------------------------------------------------
(* The TI worker: handleMessage and processJob in either loop. *)

Does(t, from, to) ==
    /\ lookup[t].at = from
    /\ lookup' = [lookup EXCEPT ![t] = IF to = "idle" THEN NoLookup ELSE [@ EXCEPT !.at = to]]

\* XREADGROUP or XAUTOCLAIM, then lookupCached: Redis, or MongoDB, which fills Redis
\* again until the same expiry.
TakeJob(t, i) ==
    /\ lookup[t].at = "idle"
    /\ i \in DOMAIN jobs
    /\ jobs[i].state = IF t = "consume" THEN "unread" ELSE "pending"
    /\ jobs' = [jobs EXCEPT ![i].state = "pending"]
    /\ lookup' = [lookup EXCEPT ![t] =
                    [at |-> IF cached THEN "attach" ELSE "reserve", job |-> i]]
    /\ UNCHANGED <<raw, kept, canonical, queued, minute, cached, projected, processor, refused>>

\* Bug: a request is made before the counter is compared.
ReserveOneMore(t) ==
    /\ IF minute.counter < Budget
       THEN minute' = [minute EXCEPT !.counter = @ + 1] ELSE UNCHANGED minute
    /\ Does(t, "reserve", "ask")
    /\ UNCHANGED <<raw, kept, canonical, queued, jobs, cached, projected, processor, refused>>

\* reserveBudget: INCR of the minute's key, compared with the budget; a look-up
\* beyond it is deferred.  The counter stops here at the budget;
\* the counter of the day works alike.
ReserveBudget(t) ==
    /\ IF minute.counter < Budget
       THEN /\ Does(t, "reserve", "ask")
            /\ minute' = [minute EXCEPT !.counter = @ + 1]
       ELSE Does(t, "reserve", "store") /\ UNCHANGED minute
    /\ UNCHANGED <<raw, kept, canonical, queued, jobs, cached, projected, processor, refused>>

\* queryProvider: an answer, HTTP 429, or a status that is permanent; the message of
\* the last is acknowledged without an answer.
AskProvider(t) ==
    /\ minute' = [minute EXCEPT !.requests = @ + 1]
    /\ \/ Does(t, "ask", "store") /\ UNCHANGED refused
       \/ Does(t, "ask", "ack") /\ refused' = refused \cup {lookup[t].job}
    /\ UNCHANGED <<raw, kept, canonical, queued, jobs, cached, projected, processor>>

\* HTTP 5xx or no answer: the request was made, the message stays pending.
ProviderFails(t) ==
    /\ Does(t, "ask", "idle")
    /\ minute' = [minute EXCEPT !.requests = @ + 1]
    /\ UNCHANGED <<raw, kept, canonical, queued, jobs, cached, projected, processor, refused>>

\* storeRecord: MongoDB, then Redis; the answer is found once the first is written.
StoreAnswer(t) ==
    /\ Does(t, "store", "attach")
    /\ cached' = TRUE
    /\ UNCHANGED <<raw, kept, canonical, queued, jobs, minute, projected, processor, refused>>

AttachToEvent(t) ==
    /\ Does(t, "attach", "ack")
    /\ projected' = projected \cup {jobs[lookup[t].job].event}
    /\ UNCHANGED <<raw, kept, canonical, queued, jobs, minute, cached, processor, refused>>

AckJob(t) ==
    /\ Does(t, "ack", "idle")
    /\ jobs' = [jobs EXCEPT ![lookup[t].job].state = IF @ = "trimmed" THEN @ ELSE "acked"]
    /\ UNCHANGED <<raw, kept, canonical, queued, minute, cached, projected, processor, refused>>

\* Bug: the answer counts as attached once it is stored.
LookupFailsAcked(t) ==
    /\ lookup[t].at # "idle"
    /\ lookup' = [lookup EXCEPT ![t] = IF @.at = "attach" THEN [@ EXCEPT !.at = "ack"] ELSE NoLookup]
    /\ UNCHANGED <<raw, kept, canonical, queued, jobs, minute, cached, projected, processor,
                   refused>>

\* A call fails or the process dies: the look-up stays pending.
LookupFails(t) ==
    /\ lookup[t].at # "idle"
    /\ lookup' = [lookup EXCEPT ![t] = NoLookup]
    /\ UNCHANGED <<raw, kept, canonical, queued, jobs, minute, cached, projected, processor,
                   refused>>

\* The next minute has a counter of its own.
NextMinute ==
    /\ minute # [counter |-> 0, requests |-> 0]
    /\ minute' = [counter |-> 0, requests |-> 0]
    /\ UNCHANGED <<raw, kept, canonical, queued, jobs, cached, projected, processor, lookup,
                   refused>>

\* A stored answer passes its expires_at.
AnswerExpires ==
    /\ cached
    /\ cached' = FALSE
    /\ UNCHANGED <<raw, kept, canonical, queued, jobs, minute, projected, processor, lookup,
                   refused>>

-----------------------------------------------------------------------------
Processing(p) ==
    \/ \E e \in RawEvents : TakeMessage(p, e)
    \/ UpsertEvent(p) \/ Dedup(p) \/ PublishJob(p) \/ PublishFails(p) \/ PublishCanonical(p)
    \/ AckMessage(p) \/ ProcessFails(p)

LookingUp(t) ==
    \/ \E i \in 1..MaxJobs : TakeJob(t, i)
    \/ ReserveBudget(t) \/ AskProvider(t) \/ ProviderFails(t) \/ StoreAnswer(t)
    \/ AttachToEvent(t) \/ AckJob(t) \/ LookupFails(t)

TiNext ==
    \/ \E e \in RawEvents : Collect(e)
    \/ \E l \in Loops : Processing(l) \/ LookingUp(l)
    \/ KeyExpires \/ NextMinute \/ AnswerExpires

TiSpec == TiInit /\ [][TiNext]_tiVars

-----------------------------------------------------------------------------
(* Properties. *)

\* The budget of a minute is exceeded by at most one request of each loop, made on a
\* reservation of the minute before: neither a retry nor a message that both loops
\* work on asks the provider without a reservation of its own.
QuotaIsKept == minute.requests <= Budget + 2

\* What is acknowledged is done, whatever calls failed or processes died in whichever
\* loop: an event is in MongoDB and on the canonical stream, and the event of a look-up
\* has an answer, unless the provider refused for good.
AckedIsDone ==
    /\ \A e \in RawEvents : raw[e] = "acked" => e \in kept \cap canonical
    /\ \A i \in DOMAIN jobs :
          jobs[i].state = "acked" => i \in refused \/ jobs[i].event \in projected
=============================================================================
