---------------------------- MODULE SessionWorker ----------------------------
(***************************************************************************)
(* The session worker (production/workers/session_worker.py) at work on    *)
(* the event queue of EventStore: it gains leadership, recovers the active *)
(* sessions from the durable rows, then claims one event at a time,        *)
(* applies it to the session in its memory, saves the session and          *)
(* completes the claim, while a heartbeat thread renews lease and claim.   *)
(* Any step may fail, a process may crash or be stopped anywhere, and with *)
(* MayStall it may be suspended for longer than its leases last.           *)
(*                                                                         *)
(* A session is the sequence of the events applied to it; its              *)
(* last_applied_event_id is the last of them, and it is ended when one of  *)
(* them closes it.  The empty sequence stands for no session.              *)
(***************************************************************************)
EXTENDS EventStore, Sequences

CONSTANTS
    Closing,     \* events of type cowrie.session.closed
    MayStall     \* may a process be suspended beyond its claim's expiry?

ASSUME WorkerAssumption ==
    /\ Events \subseteq Nat \ {0}
    /\ Closing \subseteq Events
    /\ MayStall \in BOOLEAN

VARIABLES
    sessions,    \* rows of table sessions
    announced,   \* sessions with an analysis job, or marked skipped
    pc,          \* what each process does next
    held,        \* SessionWorker._leader_held
    mem,         \* SessionMonitor._sessions of each process
    work,        \* locals of process_unprocessed: the claimed event
    hb           \* the heartbeat thread of that event

localVars == <<pc, held, mem, work, hb>>
workerVars == <<sessions, announced, localVars>>
allVars == <<storeVars, workerVars>>

\* Steps inside the try block of process_unprocessed, in the order of the code.
Processing == {"lead1", "renew1", "apply", "save", "announce", "resave",
               "lead2", "renew2", "complete"}
Running == Processing \cup
           {"lead", "claim", "raised", "failed", "batch end", "closing"}
Steps == Running \cup {"new", "gone"}

\* A session: the events applied to it, in order.
States == Seq(Events)

NoWork == [event |-> 0, token |-> 0, before |-> <<>>, state |-> <<>>, why |-> ""]
NoMemory == [s \in Sessions |-> <<>>]

Works == [event : Events \cup {0}, token : Nat, before : States, state : States,
          why : {"", "leader", "lease", "error", "recovery"}]

LocalTypeOK ==
    /\ sessions \in [Sessions -> States]
    /\ announced \subseteq Sessions
    /\ pc \in [Workers -> Steps]
    /\ held \in [Workers -> BOOLEAN]
    /\ mem \in [Workers -> [Sessions -> States]]
    /\ work \in [Workers -> Works]
    /\ hb \in [Workers -> {"off", "wait", "renew", "unled", "lost"}]

TypesOK == TypeOK /\ LocalTypeOK

\* A process inside the try block, or handling its failure, works on an event that it
\* got with an attempt left, and only inside the with block it has a heartbeat.
WorkInProgress ==
    \A w \in Workers :
        /\ pc[w] \in Processing \cup {"raised", "failed"} =>
              work[w].event \in Events /\ work[w].token \in 1..MaxAttempts
        /\ hb[w] # "off" => pc[w] \in Processing \cup {"raised"}

WorkerTypeOK == TypesOK /\ WorkInProgress

WorkerInit ==
    /\ Init
    /\ sessions = NoMemory
    /\ announced = {}
    /\ pc = [w \in Workers |-> "new"]
    /\ held = [w \in Workers |-> FALSE]
    /\ mem = [w \in Workers |-> NoMemory]
    /\ work = [w \in Workers |-> NoWork]
    /\ hb = [w \in Workers |-> "off"]

-----------------------------------------------------------------------------
Ended(state) == \E i \in DOMAIN state : state[i] \in Closing

Applied(state) == {state[i] : i \in DOMAIN state}

\* _recover_active_sessions: the memory is replaced by the rows not ended.
Recovered == [s \in Sessions |-> IF Ended(sessions[s]) THEN <<>> ELSE sessions[s]]

SessionAt(w) == SessionOf[work[w].event]

\* The storage would still let w renew or settle the claim it works on.
ClaimHeld(w, t, u) == Holds(w, work[w].event, work[w].token, t) /\ Leads(w, u)

Goto(w, steps) == \E p \in steps : pc' = [pc EXCEPT ![w] = p]

\* The work on the event is over: its locals and its heartbeat thread go.
Finish(w, steps) ==
    /\ Goto(w, steps)
    /\ work' = [work EXCEPT ![w] = NoWork]
    /\ hb' = [hb EXCEPT ![w] = "off"]

\* An exception inside the with block, where the heartbeat still runs.
Raise(w, why) ==
    /\ Goto(w, {"raised"})
    /\ work' = [work EXCEPT ![w].why = why]
    /\ UNCHANGED hb

\* Bug: leadership is gained without recovering the sessions.
EnsureLeadershipWithoutRecovery(w, t) ==
    \/ /\ held[w]
       /\ \/ RenewWorkerLease(w, t) /\ UNCHANGED held
          \/ /\ ~Leads(w, t + 1)
             /\ held' = [held EXCEPT ![w] = FALSE]
             /\ UNCHANGED storeVars
       /\ UNCHANGED mem
    \/ /\ ~held[w]
       /\ \/ AcquireWorkerLease(w, t) /\ held' = [held EXCEPT ![w] = TRUE]
          \/ ~MayAcquire(w, t) /\ UNCHANGED <<storeVars, held>>
       /\ UNCHANGED mem

\* _ensure_leadership: renew, or acquire and recover; it changes held and mem.
EnsureLeadership(w, t) ==
    \/ /\ held[w]
       /\ \/ RenewWorkerLease(w, t) /\ UNCHANGED held
          \/ /\ ~Leads(w, t + 1)
             /\ held' = [held EXCEPT ![w] = FALSE]
             /\ UNCHANGED storeVars
       /\ UNCHANGED mem
    \/ /\ ~held[w]
       /\ AcquireWorkerLease(w, t)
       /\ held' = [held EXCEPT ![w] = TRUE]
       /\ mem' = [mem EXCEPT ![w] = Recovered]
    \/ /\ ~held[w]
       /\ ~MayAcquire(w, t)
       /\ UNCHANGED <<storeVars, held, mem>>

-----------------------------------------------------------------------------
(* The main thread. *)

Start(w) ==
    /\ pc[w] = "new"
    /\ Goto(w, {"lead"})
    /\ UNCHANGED <<storeVars, sessions, announced, held, mem, work, hb>>

\* The head of the loop over one batch.
LeadBatch(w, t) ==
    /\ pc[w] = "lead"
    /\ EnsureLeadership(w, t)
    /\ Goto(w, IF held'[w] THEN {"claim"} ELSE {"batch end"})
    /\ UNCHANGED <<sessions, announced, work, hb>>

Claim(w, t) ==
    /\ pc[w] = "claim"
    /\ ClaimEvents(w, t) \/ (~Leads(w, t + LeaseSeconds) /\ UNCHANGED storeVars)
    /\ IF Leads(w, t + LeaseSeconds) /\ FirstValid(t) # {}
       THEN \E e \in FirstValid(t) :
              /\ work' = [work EXCEPT ![w] =
                            [event |-> e, token |-> attempts[e] + 1,
                             before |-> mem[w][SessionOf[e]],
                             state |-> <<>>, why |-> ""]]
              /\ hb' = [hb EXCEPT ![w] = "wait"]
              /\ Goto(w, {"lead1"})
       ELSE Goto(w, {"batch end"}) /\ UNCHANGED <<work, hb>>
    /\ UNCHANGED <<sessions, announced, held, mem>>

\* The signal to stop came between the claim and the work on it.
ReleaseOnStop(w, t) ==
    /\ pc[w] = "lead1"
    /\ hb[w] = "wait"
    /\ \/ ReleaseEventClaim(w, work[w].event, work[w].token, t)
       \/ ~ClaimHeld(w, t, t + 1) /\ UNCHANGED storeVars
    /\ Finish(w, {"closing"})
    /\ UNCHANGED <<sessions, announced, held, mem>>

\* _renew_claim, first half.
LeadEvent(w, t) ==
    /\ pc[w] \in {"lead1", "lead2"}
    /\ EnsureLeadership(w, t)
    /\ IF held'[w]
       THEN /\ Goto(w, IF pc[w] = "lead1" THEN {"renew1"} ELSE {"renew2"})
            /\ UNCHANGED <<work, hb>>
       ELSE Raise(w, "leader")
    /\ UNCHANGED <<sessions, announced>>

\* _renew_claim, second half, and heartbeat.check.
RenewClaim(w, t) ==
    /\ pc[w] \in {"renew1", "renew2"}
    /\ \/ RenewEventClaim(w, work[w].event, work[w].token, t)
       \/ ~ClaimHeld(w, t, t + LeaseSeconds) /\ UNCHANGED storeVars
    /\ IF ClaimHeld(w, t, t + LeaseSeconds) /\ hb[w] # "lost"
       THEN /\ Goto(w, IF pc[w] = "renew1" THEN {"apply"} ELSE {"complete"})
            /\ UNCHANGED <<work, hb>>
       ELSE Raise(w, "lease")
    /\ UNCHANGED <<sessions, announced, held, mem>>

\* Bug: an event is applied again although the row contains it.
NeverDurable(w) == FALSE

\* _durable_state_for_event: the row already contains the event.
Durable(w) ==
    LET row == sessions[SessionAt(w)]
    IN  row # <<>> /\ row[Len(row)] = work[w].event

\* Take the session from its row if it contains the event, else apply it.
Apply(w) ==
    /\ pc[w] = "apply"
    /\ LET s     == SessionAt(w)
           state == IF Durable(w) THEN sessions[s] ELSE Append(mem[w][s], work[w].event)
       IN  /\ mem' = [mem EXCEPT ![w][s] = state]
           /\ work' = [work EXCEPT ![w].state = state]
    /\ Goto(w, {"save"})
    /\ UNCHANGED <<storeVars, sessions, announced, held, hb>>

\* save_session: an unconditional upsert, not fenced by the claim.
SaveSession(w) == sessions' = [sessions EXCEPT ![SessionAt(w)] = work[w].state]

\* Bug: a session whose row is closed already is taken to be announced.
SaveUnlessClosed(w) ==
    /\ pc[w] = "save"
    /\ SaveSession(w)
    /\ Goto(w, IF Ended(work[w].state) /\ ~Ended(sessions[SessionAt(w)])
               THEN {"announce"} ELSE {"lead2"})
    /\ UNCHANGED <<storeVars, announced, held, mem, work, hb>>

\* _save_active_session, or _on_session_end up to the first save.
Save(w) ==
    /\ pc[w] = "save"
    /\ SaveSession(w)
    /\ Goto(w, IF Ended(work[w].state) THEN {"announce"} ELSE {"lead2"})
    /\ UNCHANGED <<storeVars, announced, held, mem, work, hb>>

\* _on_session_end: the analysis job, or the mark that none is needed.
Announce(w) ==
    /\ pc[w] = "announce"
    /\ announced' = announced \cup {SessionAt(w)}
    /\ Goto(w, {"resave"})
    /\ UNCHANGED <<storeVars, sessions, held, mem, work, hb>>

\* _on_session_end: threat hunts, then the second save.
Resave(w) ==
    /\ pc[w] = "resave"
    /\ SaveSession(w)
    /\ Goto(w, {"lead2"})
    /\ UNCHANGED <<storeVars, announced, held, mem, work, hb>>

Complete(w, t) ==
    /\ pc[w] = "complete"
    /\ \/ /\ CompleteEvent(w, work[w].event, work[w].token, t)
          /\ Finish(w, {"lead", "batch end"})
       \/ /\ ~ClaimHeld(w, t, t + 1)
          /\ Raise(w, "lease")
          /\ UNCHANGED storeVars
    /\ UNCHANGED <<sessions, announced, held, mem>>

\* Any call inside the try block raises; _ensure_leadership then forgets that
\* it leads.
Error(w) ==
    /\ pc[w] \in Processing
    /\ Raise(w, "error")
    /\ held' = [held EXCEPT ![w] = @ /\ pc[w] \notin {"lead1", "lead2"}]
    /\ UNCHANGED <<storeVars, sessions, announced, mem>>

\* _recover_active_sessions raises behind a new lease, which is given back, unless
\* that fails as well.
RecoveryFails(w, t) ==
    /\ pc[w] \in {"lead1", "lead2"} /\ ~held[w]
    /\ AcquireWorkerLease(w, t)
    /\ Raise(w, "recovery")
    /\ UNCHANGED <<sessions, announced, held, mem>>

GiveLeaseBack(w, t) ==
    /\ pc[w] = "raised" /\ work[w].why = "recovery"
    /\ ReleaseWorkerLease(w, t)
    /\ work' = [work EXCEPT ![w].why = "error"]
    /\ UNCHANGED <<sessions, announced, pc, held, mem, hb>>

\* Bug: the heartbeat is not stopped when the event failed.
ExitAlone(w) ==
    /\ pc[w] = "raised"
    /\ Goto(w, {"failed"})
    /\ UNCHANGED <<storeVars, sessions, announced, held, mem, work, hb>>

\* The with block is left: the heartbeat is stopped.
Exit(w) ==
    /\ pc[w] = "raised"
    /\ Goto(w, {"failed"})
    /\ hb' = [hb EXCEPT ![w] = "off"]
    /\ UNCHANGED <<storeVars, sessions, announced, held, mem, work>>

\* Bug: a failed event is undone in the row as well.
HandleFailureInRow(w, t) ==
    /\ pc[w] = "failed"
    /\ mem' = [mem EXCEPT ![w][SessionAt(w)] = work[w].before]
    /\ sessions' = [sessions EXCEPT ![SessionAt(w)] = work[w].before]
    /\ \E retryable \in BOOLEAN :
          FailEvent(w, work[w].event, work[w].token, t, retryable)
    /\ Finish(w, {"lead", "batch end"})
    /\ UNCHANGED <<announced, held>>

\* The except clause: undo the event in memory, then fail_event, whose own
\* failure is swallowed.
HandleFailure(w, t) ==
    /\ pc[w] = "failed"
    /\ mem' = [mem EXCEPT ![w][SessionAt(w)] = work[w].before]
    /\ \/ \E retryable \in (IF work[w].why \in {"error", "recovery"} THEN BOOLEAN ELSE {TRUE}) :
             FailEvent(w, work[w].event, work[w].token, t, retryable)
       \/ UNCHANGED storeVars
    /\ Finish(w, IF work[w].why = "leader" THEN {"batch end"} ELSE {"lead", "batch end"})
    /\ UNCHANGED <<sessions, announced, held>>

\* _evict_closed_sessions, then the next batch.
EndBatch(w) ==
    /\ pc[w] = "batch end"
    /\ mem' = [mem EXCEPT ![w] =
                 [s \in Sessions |-> IF Ended(@[s]) THEN <<>> ELSE @[s]]]
    /\ Goto(w, {"lead"})
    /\ UNCHANGED <<storeVars, sessions, announced, held, work, hb>>

-----------------------------------------------------------------------------
(* The heartbeat thread. *)

HeartbeatLease(w, t) ==
    /\ hb[w] = "wait"
    /\ EnsureLeadership(w, t)
    /\ hb' = [hb EXCEPT ![w] = IF held'[w] THEN "renew" ELSE "lost"]
    /\ UNCHANGED <<sessions, announced, pc, work>>

HeartbeatClaim(w, t) ==
    /\ hb[w] = "renew"
    /\ \/ /\ RenewEventClaim(w, work[w].event, work[w].token, t)
          /\ hb' = [hb EXCEPT ![w] = "wait"]
       \/ /\ ~ClaimHeld(w, t, t + LeaseSeconds)
          /\ hb' = [hb EXCEPT ![w] = "lost"]
          /\ UNCHANGED storeVars
    /\ UNCHANGED <<sessions, announced, pc, held, mem, work>>

\* The storage raises in the heartbeat thread.
HeartbeatError(w) ==
    /\ hb[w] \in {"wait", "renew"}
    /\ hb' = [hb EXCEPT ![w] = "lost"]
    /\ held' = [held EXCEPT ![w] = @ /\ hb[w] = "renew"]
    /\ UNCHANGED <<storeVars, sessions, announced, pc, mem, work>>

\* The recovery raises in the heartbeat thread, behind a new lease.
HeartbeatRecoveryFails(w, t) ==
    /\ hb[w] = "wait" /\ ~held[w]
    /\ AcquireWorkerLease(w, t)
    /\ hb' = [hb EXCEPT ![w] = "unled"]
    /\ UNCHANGED <<sessions, announced, pc, held, mem, work>>

HeartbeatGivesBack(w, t) ==
    /\ hb[w] = "unled"
    /\ ReleaseWorkerLease(w, t) \/ UNCHANGED storeVars
    /\ hb' = [hb EXCEPT ![w] = "lost"]
    /\ UNCHANGED <<sessions, announced, pc, held, mem, work>>

-----------------------------------------------------------------------------
(* Processes come and go. *)

\* SIGTERM, or an exception outside the try block, ends run_forever.
Stop(w) ==
    /\ pc[w] \in {"lead", "claim", "batch end"}
    /\ Goto(w, {"closing"})
    /\ UNCHANGED <<storeVars, sessions, announced, held, mem, work, hb>>

Vanish(w) ==
    /\ Finish(w, {"gone"})
    /\ held' = [held EXCEPT ![w] = FALSE]
    /\ mem' = [mem EXCEPT ![w] = NoMemory]
    /\ UNCHANGED <<sessions, announced>>

\* close: give the lease back if it is believed held.
Close(w, t) ==
    /\ pc[w] = "closing"
    /\ \/ held[w] /\ ReleaseWorkerLease(w, t)
       \/ UNCHANGED storeVars
    /\ Vanish(w)

Crash(w) == pc[w] \in Running /\ Vanish(w) /\ UNCHANGED storeVars

\* Events of a session are stored in the order it produced them, or never: the
\* sensor gives up one that the ingest API refuses.
Arrive(e) ==
    /\ \A f \in Events : SessionOf[f] = SessionOf[e] /\ recv[f] # 0 => f < e
    /\ StoreEvent(e)
    /\ UNCHANGED workerVars

\* Unless processes may stall, no claim expires under a process working on it:
\* its steps take less than LeaseSeconds, or its heartbeat is in time.
Wait ==
    /\ MayStall \/ \A w \in Workers :
                      pc[w] \in Processing \cup {"raised"} =>
                          claim[work[w].event].exp > clock + 1
    /\ Tick
    /\ UNCHANGED workerVars

MainStep(w, t) ==
    \/ LeadBatch(w, t) \/ Claim(w, t) \/ ReleaseOnStop(w, t) \/ LeadEvent(w, t)
    \/ RenewClaim(w, t) \/ Complete(w, t) \/ HandleFailure(w, t) \/ Close(w, t)
    \/ RecoveryFails(w, t) \/ GiveLeaseBack(w, t)

HeartbeatStep(w, t) ==
    \/ HeartbeatLease(w, t) \/ HeartbeatClaim(w, t)
    \/ HeartbeatRecoveryFails(w, t) \/ HeartbeatGivesBack(w, t)

WorkerStep(w) ==
    \/ Start(w) \/ Apply(w) \/ Save(w) \/ Announce(w) \/ Resave(w)
    \/ Error(w) \/ Exit(w) \/ EndBatch(w) \/ HeartbeatError(w) \/ Stop(w) \/ Crash(w)
    \/ \E t \in Nows : MainStep(w, t) \/ HeartbeatStep(w, t)

WorkerNext ==
    \/ \E w \in Workers : WorkerStep(w)
    \/ \E e \in Events : Arrive(e)
    \/ Wait

WorkerSpec == WorkerInit /\ [][WorkerNext]_allVars

-----------------------------------------------------------------------------
(* Properties. *)

Ordered(state) ==
    \A i, j \in DOMAIN state : i < j => recv[state[i]] < recv[state[j]]

\* However often an event is tried, by however many processes, a session never
\* counts it twice nor counts events out of order: neither the durable rows nor
\* the memory of any process.  The check of last_applied_event_id and the undo
\* of a failed event must work together for this.
AppliedOnceInOrder ==
    /\ \A s \in Sessions : Ordered(sessions[s])
    /\ \A w \in Workers, s \in Sessions : Ordered(mem[w][s])

\* The effects of an event that succeeded stay in its durable session row.
SucceededIsKept ==
    \A e \in Events :
        outcome[e] = "succeeded" => e \in Applied(sessions[SessionOf[e]])

\* Analysis hears of a session only while its row is closed: it is announced
\* after the close is durable.
AnalysisSeesClosedRow == \A s \in announced : Ended(sessions[s])

\* A session whose closing event succeeded was announced, whatever crashed or
\* stalled between the save, the announcement and the completion.
ClosedIsAnnounced ==
    \A e \in Closing : outcome[e] = "succeeded" => SessionOf[e] \in announced

\* The memory a worker is about to apply its event to, under a live claim, has
\* every event of that session that succeeded.
MemoryIsCurrent ==
    \A w \in Workers : pc[w] = "apply" /\ ClaimHeld(w, clock, clock) =>
        LET s == SessionAt(w) IN
        Ended(sessions[s]) \/
        \A e \in Applied(sessions[s]) :
            outcome[e] = "succeeded" => e \in Applied(mem[w][s])

\* A closed session is never opened again.
ClosedStaysClosed ==
    [][\A s \in Sessions : Ended(sessions[s]) => Ended(sessions'[s])]_allVars

\* Whatever the processes do to their memories, and whenever they crash, fail or
\* take over, the rows are what SessionLog promises: one log per session, written
\* in the order of the queue, each event once and before it succeeds, and final
\* when it is closed.
Log == INSTANCE SessionLog WITH place <- recv, status <- Status, row <- sessions

ImplementsSessionLog == Log!LogSpec
=============================================================================
