------------------------- MODULE SessionWorkerProofs -------------------------
(* Theorems about SessionWorker, for any number of processes, events and    *)
(* sessions, with crashes and failures anywhere.  The first ones hold with  *)
(* processes that stall, too; what the sessions contain, in the last three  *)
(* sections, needs a process not to outlive its claim.                      *)
EXTENDS SessionWorker, EventStoreProofs

\* What a process has reached with a closing event.
CloseInProgress ==
    \A w \in Workers : work[w].event \in Closing =>
        /\ pc[w] = "save" => Ended(work[w].state)
        /\ pc[w] \in {"resave", "lead2", "renew2", "complete"} =>
              SessionAt(w) \in announced

WIInv == TypesOK /\ WorkInProgress /\ CloseInProgress /\ ClosedIsAnnounced

-----------------------------------------------------------------------------
(* The worker calls the queue as EventStore allows it to be called.         *)

\* The event a claim returns has an attempt left, which is its token.
LEMMA TokenLemma ==
    ASSUME TypeOK, NEW t \in Nows, NEW e \in FirstValid(t)
    PROVE  e \in Events /\ attempts[e] + 1 \in 1..MaxAttempts
  BY StoreAssumption DEF FirstValid, Candidates, Claimable, TypeOK

LEMMA EnsureLemma ==
    ASSUME TypeOK, NEW w \in Workers, NEW t \in Nows, EnsureLeadership(w, t)
    PROVE  [Next]_storeVars
  BY DEF EnsureLeadership, Next, LeaseOp

\* Every step of the composition is a step of the queue or leaves it alone.
LEMMA StoreStep ==
    ASSUME TypesOK, WorkInProgress, [WorkerNext]_allVars
    PROVE  [Next]_storeVars
  <1>0. TypeOK
    BY DEF TypesOK
  <1>1. ASSUME NEW w \in Workers, NEW t \in Nows, MainStep(w, t)
        PROVE  [Next]_storeVars
    <2>1. CASE LeadBatch(w, t) \/ LeadEvent(w, t)
      BY <1>0, <2>1, EnsureLemma DEF LeadBatch, LeadEvent
    <2>2. CASE Claim(w, t)
      BY <2>2 DEF Claim, Next
    <2>3. CASE ReleaseOnStop(w, t)
      <3>1. work[w].event \in Events /\ work[w].token \in 1..MaxAttempts
        BY <2>3 DEF ReleaseOnStop, WorkInProgress, Processing
      <3> QED
        BY <2>3, <3>1 DEF ReleaseOnStop, Next, ClaimOp
    <2>4. CASE RenewClaim(w, t)
      <3>1. work[w].event \in Events /\ work[w].token \in 1..MaxAttempts
        BY <2>4 DEF RenewClaim, WorkInProgress, Processing
      <3> QED
        BY <2>4, <3>1 DEF RenewClaim, Next, ClaimOp
    <2>5. CASE Complete(w, t)
      <3>1. work[w].event \in Events /\ work[w].token \in 1..MaxAttempts
        BY <2>5 DEF Complete, WorkInProgress, Processing
      <3> QED
        BY <2>5, <3>1 DEF Complete, Next, ClaimOp
    <2>6. CASE HandleFailure(w, t)
      <3>1. work[w].event \in Events /\ work[w].token \in 1..MaxAttempts
        BY <2>6 DEF HandleFailure, WorkInProgress
      <3>2. CASE UNCHANGED storeVars
        BY <3>2
      <3>3. CASE \E retryable \in (IF work[w].why \in {"error", "recovery"} THEN BOOLEAN ELSE {TRUE}) :
                    FailEvent(w, work[w].event, work[w].token, t, retryable)
        <4>1. \E retryable \in BOOLEAN :
                 FailEvent(w, work[w].event, work[w].token, t, retryable)
          BY <3>3
        <4> QED
          BY <3>1, <4>1 DEF Next, ClaimOp
      <3> QED
        BY <2>6, <3>2, <3>3 DEF HandleFailure
    <2>7. CASE Close(w, t) \/ RecoveryFails(w, t) \/ GiveLeaseBack(w, t)
      BY <2>7 DEF Close, RecoveryFails, GiveLeaseBack, Next, LeaseOp
    <2> QED
      BY <1>1, <2>1, <2>2, <2>3, <2>4, <2>5, <2>6, <2>7 DEF MainStep
  <1>2. ASSUME NEW w \in Workers, NEW t \in Nows, HeartbeatStep(w, t)
        PROVE  [Next]_storeVars
    <2>1. CASE HeartbeatLease(w, t)
      BY <1>0, <2>1, EnsureLemma DEF HeartbeatLease
    <2>2. CASE HeartbeatClaim(w, t)
      <3>1. work[w].event \in Events /\ work[w].token \in 1..MaxAttempts
        BY <2>2 DEF HeartbeatClaim, WorkInProgress
      <3> QED
        BY <2>2, <3>1 DEF HeartbeatClaim, Next, ClaimOp
    <2>3. CASE HeartbeatRecoveryFails(w, t) \/ HeartbeatGivesBack(w, t)
      BY <2>3 DEF HeartbeatRecoveryFails, HeartbeatGivesBack, Next, LeaseOp
    <2> QED
      BY <1>2, <2>1, <2>2, <2>3 DEF HeartbeatStep
  <1>3. ASSUME NEW w \in Workers, WorkerStep(w) PROVE [Next]_storeVars
    BY <1>1, <1>2, <1>3
       DEF WorkerStep, Start, Apply, Save, Announce, Resave, Error, Exit,
           EndBatch, HeartbeatError, Stop, Crash
  <1>4. ASSUME NEW e \in Events, Arrive(e) PROVE [Next]_storeVars
    BY <1>4 DEF Arrive, Next
  <1>5. CASE Wait
    BY <1>5 DEF Wait, Next
  <1>6. CASE UNCHANGED allVars
    BY <1>6 DEF allVars
  <1> QED
    BY <1>3, <1>4, <1>5, <1>6 DEF WorkerNext

-----------------------------------------------------------------------------
(* The local state of the processes.                                        *)

LEMMA EmptyState == <<>> \in States
  BY DEF States

LEMMA AppendState ==
    ASSUME NEW state \in States, NEW e \in Events
    PROVE  Append(state, e) \in States
  BY DEF States

LEMMA RecoveredType == LocalTypeOK => Recovered \in [Sessions -> States]
  BY EmptyState DEF LocalTypeOK, Recovered

LEMMA NoMemoryType == NoMemory \in [Sessions -> States]
  BY EmptyState DEF NoMemory

LEMMA NoWorkType == NoWork \in Works
  BY EmptyState DEF NoWork, Works

LEMMA WorkerInitOK == WorkerInit => WIInv
  <1> SUFFICES ASSUME WorkerInit PROVE WIInv
    OBVIOUS
  <1>1. TypeOK
    BY InitType DEF WorkerInit
  <1>2. LocalTypeOK
    BY NoMemoryType, NoWorkType DEF WorkerInit, LocalTypeOK, Steps
  <1>3. WorkInProgress
    BY DEF WorkerInit, WorkInProgress, Processing
  <1>4. CloseInProgress
    BY DEF WorkerInit, CloseInProgress
  <1>5. ClosedIsAnnounced
    BY WorkerAssumption DEF WorkerInit, Init, ClosedIsAnnounced
  <1> QED
    BY <1>1, <1>2, <1>3, <1>4, <1>5 DEF WIInv, TypesOK

\* Leadership may change, and memory may be replaced by the recovered one.
LEMMA EnsureType ==
    ASSUME LocalTypeOK, NEW w \in Workers, NEW t \in Nows, EnsureLeadership(w, t)
    PROVE  /\ held' \in [Workers -> BOOLEAN]
           /\ mem' \in [Workers -> [Sessions -> States]]
  BY RecoveredType DEF EnsureLeadership, LocalTypeOK

LEMMA FinishType ==
    ASSUME LocalTypeOK, NEW w \in Workers, NEW P \in SUBSET Steps,
           Finish(w, P)
    PROVE  /\ pc' \in [Workers -> Steps]
           /\ work' \in [Workers -> Works]
           /\ hb' \in [Workers -> {"off", "wait", "renew", "unled", "lost"}]
  BY NoWorkType DEF Finish, Goto, LocalTypeOK

\* A reason noted for the except clause leaves the rest of the work as it is.
LEMMA WhyOnly ==
    ASSUME LocalTypeOK, NEW w \in Workers,
           NEW why \in {"leader", "lease", "error", "recovery"},
           work' = [work EXCEPT ![w].why = why]
    PROVE  /\ work' \in [Workers -> Works]
           /\ work'[w].event = work[w].event /\ work'[w].token = work[w].token
           /\ work'[w].before = work[w].before /\ work'[w].state = work[w].state
  <1>1. work[w] \in Works
    BY DEF LocalTypeOK
  <1>2. [work[w] EXCEPT !.why = why] \in Works
    BY <1>1 DEF Works
  <1>3. work' = [work EXCEPT ![w] = [work[w] EXCEPT !.why = why]]
    OBVIOUS
  <1>4. work'[w] = [work[w] EXCEPT !.why = why]
    BY <1>3 DEF LocalTypeOK
  <1>5. work' \in [Workers -> Works]
    BY <1>2, <1>3 DEF LocalTypeOK
  <1> QED
    BY <1>1, <1>4, <1>5 DEF Works

LEMMA RaiseType ==
    ASSUME LocalTypeOK, NEW w \in Workers,
           NEW why \in {"leader", "lease", "error", "recovery"}, Raise(w, why)
    PROVE  /\ pc' \in [Workers -> Steps]
           /\ work' \in [Workers -> Works]
           /\ hb' \in [Workers -> {"off", "wait", "renew", "unled", "lost"}]
  <1>1. work' \in [Workers -> Works]
    BY WhyOnly DEF Raise
  <1> QED
    BY <1>1 DEF Raise, Goto, LocalTypeOK, Steps, Running

\* The session a process works on.
LEMMA SessionType ==
    ASSUME WorkInProgress, NEW w \in Workers,
           pc[w] \in Processing \cup {"raised", "failed"}
    PROVE  SessionAt(w) \in Sessions
  BY StoreAssumption DEF WorkInProgress, SessionAt

LEMMA LocalType ==
    ASSUME TypesOK, WorkInProgress, [WorkerNext]_allVars
    PROVE  LocalTypeOK'
  <1> USE DEF LocalTypeOK
  <1>0. LocalTypeOK /\ TypeOK
    BY DEF TypesOK
  <1>1. ASSUME NEW w \in Workers, NEW t \in Nows, MainStep(w, t)
        PROVE  LocalTypeOK'
    <2>1. CASE LeadBatch(w, t)
      <3>1. pc' \in [Workers -> Steps]
        BY <1>0, <2>1 DEF LeadBatch, Goto, Steps, Running
      <3> QED
        BY <1>0, <2>1, <3>1, EnsureType DEF LeadBatch
    <2>2. CASE Claim(w, t)
      <3>0. \/ pc' = [pc EXCEPT ![w] = "lead1"]
            \/ pc' = [pc EXCEPT ![w] = "batch end"]
        <4>1. (\E e \in FirstValid(t) : Goto(w, {"lead1"})) \/ Goto(w, {"batch end"})
          BY <2>2 DEF Claim
        <4> QED
          BY <4>1 DEF Goto
      <3>1. pc' \in [Workers -> Steps]
        BY <1>0, <3>0 DEF Steps, Running, Processing
      <3>2. ASSUME NEW e \in FirstValid(t),
                   work' = [work EXCEPT ![w] =
                            [event |-> e, token |-> attempts[e] + 1,
                             before |-> mem[w][SessionOf[e]],
                             state |-> <<>>, why |-> ""]],
                   hb' = [hb EXCEPT ![w] = "wait"]
            PROVE  /\ work' \in [Workers -> Works]
                   /\ hb' \in [Workers -> {"off", "wait", "renew", "unled", "lost"}]
        <4>1. e \in Events /\ attempts[e] + 1 \in Nat
          BY <1>0, TokenLemma, StoreAssumption
        <4>2. mem[w][SessionOf[e]] \in States
          BY <1>0, <4>1, StoreAssumption
        <4> QED
          BY <1>0, <3>2, <4>1, <4>2, EmptyState DEF Works
      <3> QED
        BY <1>0, <2>2, <3>1, <3>2 DEF Claim
    <2>3. CASE ReleaseOnStop(w, t)
      BY <1>0, <2>3, FinishType DEF ReleaseOnStop, Running, Steps
    <2>4. CASE LeadEvent(w, t)
      <3>1. held' \in [Workers -> BOOLEAN] /\ mem' \in [Workers -> [Sessions -> States]]
        BY <1>0, <2>4, EnsureType DEF LeadEvent
      <3>2. CASE Raise(w, "leader")
        BY <1>0, <2>4, <3>1, <3>2, RaiseType DEF LeadEvent
      <3>3. CASE /\ Goto(w, IF pc[w] = "lead1" THEN {"renew1"} ELSE {"renew2"})
                 /\ UNCHANGED <<work, hb>>
        BY <1>0, <2>4, <3>1, <3>3 DEF LeadEvent, Goto, Steps, Running, Processing
      <3> QED
        BY <2>4, <3>2, <3>3 DEF LeadEvent
    <2>5. CASE RenewClaim(w, t)
      <3>1. CASE Raise(w, "lease")
        BY <1>0, <2>5, <3>1, RaiseType DEF RenewClaim
      <3>2. CASE /\ Goto(w, IF pc[w] = "renew1" THEN {"apply"} ELSE {"complete"})
                 /\ UNCHANGED <<work, hb>>
        BY <1>0, <2>5, <3>2 DEF RenewClaim, Goto, Steps, Running, Processing
      <3> QED
        BY <2>5, <3>1, <3>2 DEF RenewClaim
    <2>6. CASE Complete(w, t)
      <3>1. CASE Raise(w, "lease")
        BY <1>0, <2>6, <3>1, RaiseType DEF Complete
      <3>2. CASE Finish(w, {"lead", "batch end"})
        BY <1>0, <2>6, <3>2, FinishType DEF Complete, Steps, Running
      <3> QED
        BY <2>6, <3>1, <3>2 DEF Complete
    <2>7. CASE HandleFailure(w, t)
      <3>1. SessionAt(w) \in Sessions /\ work[w].before \in States
        BY <1>0, <2>7, SessionType DEF HandleFailure, Works
      <3>2. mem' \in [Workers -> [Sessions -> States]]
        BY <1>0, <2>7, <3>1 DEF HandleFailure
      <3> QED
        BY <1>0, <2>7, <3>2, FinishType DEF HandleFailure, Steps, Running
    <2>8. CASE Close(w, t)
      <3>1. mem' \in [Workers -> [Sessions -> States]]
        BY <1>0, <2>8, NoMemoryType DEF Close, Vanish
      <3> QED
        BY <1>0, <2>8, <3>1, FinishType DEF Close, Vanish, Steps
    <2>9. CASE RecoveryFails(w, t)
      BY <1>0, <2>9, RaiseType DEF RecoveryFails
    <2>10. CASE GiveLeaseBack(w, t)
      BY <1>0, <2>10, WhyOnly DEF GiveLeaseBack
    <2> QED
      BY <1>1, <2>1, <2>2, <2>3, <2>4, <2>5, <2>6, <2>7, <2>8, <2>9, <2>10 DEF MainStep
  <1>2. ASSUME NEW w \in Workers, NEW t \in Nows, HeartbeatStep(w, t)
        PROVE  LocalTypeOK'
    <2>1. CASE HeartbeatLease(w, t)
      <3>1. held' \in [Workers -> BOOLEAN] /\ mem' \in [Workers -> [Sessions -> States]]
        BY <1>0, <2>1, EnsureType DEF HeartbeatLease
      <3> QED
        BY <1>0, <2>1, <3>1 DEF HeartbeatLease
    <2>2. CASE HeartbeatClaim(w, t)
      BY <1>0, <2>2 DEF HeartbeatClaim
    <2>3. CASE HeartbeatRecoveryFails(w, t) \/ HeartbeatGivesBack(w, t)
      BY <1>0, <2>3 DEF HeartbeatRecoveryFails, HeartbeatGivesBack
    <2> QED
      BY <1>2, <2>1, <2>2, <2>3 DEF HeartbeatStep
  <1>3. ASSUME NEW w \in Workers, WorkerStep(w) PROVE LocalTypeOK'
    <2>1. CASE Start(w) \/ Announce(w) \/ Stop(w) \/ Exit(w) \/ HeartbeatError(w)
      <3>1. Announce(w) => SessionAt(w) \in Sessions
        BY SessionType DEF Announce, Processing
      <3> QED
        BY <1>0, <2>1, <3>1
           DEF Start, Announce, Stop, Exit, HeartbeatError, Goto, Steps, Running,
               Processing
    <2>2. CASE Apply(w)
      <3>1. /\ SessionAt(w) \in Sessions
            /\ work[w].event \in Events
        BY <2>2, SessionType DEF Apply, Processing, WorkInProgress
      <3> DEFINE state == IF Durable(w) THEN sessions[SessionAt(w)]
                          ELSE Append(mem[w][SessionAt(w)], work[w].event)
      <3>2. state \in States
        BY <1>0, <3>1, AppendState
      <3>3. /\ mem' = [mem EXCEPT ![w][SessionAt(w)] = state]
            /\ work' = [work EXCEPT ![w].state = state]
        BY <2>2 DEF Apply
      <3>4. mem' \in [Workers -> [Sessions -> States]]
        BY <1>0, <3>1, <3>2, <3>3
      <3>5. work' \in [Workers -> Works]
        <4>1. [work[w] EXCEPT !.state = state] \in Works
          BY <1>0, <3>2 DEF Works
        <4>2. work' = [work EXCEPT ![w] = [work[w] EXCEPT !.state = state]]
          BY <3>3
        <4> QED
          BY <1>0, <4>1, <4>2
      <3> QED
        BY <1>0, <2>2, <3>4, <3>5 DEF Apply, Goto, Steps, Running, Processing
    <2>3. CASE Save(w) \/ Resave(w)
      <3>1. SessionAt(w) \in Sessions /\ work[w].state \in States
        BY <1>0, <2>3, SessionType DEF Save, Resave, Processing, Works
      <3>2. sessions' \in [Sessions -> States]
        BY <1>0, <2>3, <3>1 DEF Save, Resave, SaveSession
      <3> QED
        BY <1>0, <2>3, <3>2 DEF Save, Resave, Goto, Steps, Running, Processing
    <2>4. CASE Error(w)
      BY <1>0, <2>4, RaiseType DEF Error
    <2>5. CASE EndBatch(w)
      <3>1. mem' \in [Workers -> [Sessions -> States]]
        BY <1>0, <2>5, EmptyState DEF EndBatch
      <3> QED
        BY <1>0, <2>5, <3>1 DEF EndBatch, Goto, Steps, Running
    <2>6. CASE Crash(w)
      <3>1. mem' \in [Workers -> [Sessions -> States]]
        BY <1>0, <2>6, NoMemoryType DEF Crash, Vanish
      <3> QED
        BY <1>0, <2>6, <3>1, FinishType DEF Crash, Vanish, Steps
    <2> QED
      BY <1>1, <1>2, <1>3, <2>1, <2>2, <2>3, <2>4, <2>5, <2>6 DEF WorkerStep
  <1>4. CASE Wait \/ UNCHANGED allVars \/ \E e \in Events : Arrive(e)
    BY <1>0, <1>4 DEF Wait, Arrive, allVars, workerVars, localVars
  <1> QED
    BY <1>3, <1>4 DEF WorkerNext

-----------------------------------------------------------------------------
(* What a process has reached in its work.                                  *)

\* The processes not taking the step keep their work.
LEMMA OthersKeep ==
    ASSUME LocalTypeOK, NEW w \in Workers, NEW v \in Workers, v # w,
           WorkerStep(w)
    PROVE  pc'[v] = pc[v] /\ work'[v] = work[v] /\ hb'[v] = hb[v]
  <1>1. ASSUME NEW t \in Nows, MainStep(w, t)
        PROVE  pc'[v] = pc[v] /\ work'[v] = work[v] /\ hb'[v] = hb[v]
    BY <1>1 DEF LocalTypeOK, MainStep, LeadBatch, Claim, ReleaseOnStop, LeadEvent,
                RenewClaim, Complete, HandleFailure, Close, RecoveryFails, GiveLeaseBack,
                Vanish, Finish, Raise, Goto
  <1>2. ASSUME NEW t \in Nows, HeartbeatStep(w, t)
        PROVE  pc'[v] = pc[v] /\ work'[v] = work[v] /\ hb'[v] = hb[v]
    BY <1>2 DEF LocalTypeOK, HeartbeatStep, HeartbeatLease, HeartbeatClaim,
                HeartbeatRecoveryFails, HeartbeatGivesBack
  <1> QED
    BY <1>1, <1>2
       DEF LocalTypeOK, WorkerStep, Start, Apply, Save, Announce, Resave, Error,
           Exit, EndBatch, HeartbeatError, Stop, Crash, Vanish, Finish, Raise, Goto

LEMMA OwnWork ==
    ASSUME TypesOK, WorkInProgress, NEW w \in Workers, WorkerStep(w)
    PROVE  /\ pc'[w] \in Processing \cup {"raised", "failed"} =>
                 work'[w].event \in Events /\ work'[w].token \in 1..MaxAttempts
           /\ hb'[w] # "off" => pc'[w] \in Processing \cup {"raised"}
  <1> DEFINE Goal == /\ pc'[w] \in Processing \cup {"raised", "failed"} =>
                           work'[w].event \in Events /\ work'[w].token \in 1..MaxAttempts
                     /\ hb'[w] # "off" => pc'[w] \in Processing \cup {"raised"}
  <1>0. LocalTypeOK /\ TypeOK
    BY DEF TypesOK
  <1>1. ASSUME NEW steps \in SUBSET {"lead", "batch end", "closing", "gone"},
               Finish(w, steps)
        PROVE  Goal
    BY <1>0, <1>1 DEF Finish, Goto, LocalTypeOK, Processing
  <1>2. ASSUME NEW why \in {"leader", "lease", "error", "recovery"}, Raise(w, why),
               pc[w] \in Processing
        PROVE  Goal
    <2>1. pc'[w] = "raised"
      BY <1>0, <1>2 DEF Raise, Goto, LocalTypeOK
    <2>2. work'[w].event = work[w].event /\ work'[w].token = work[w].token
      BY <1>0, <1>2, WhyOnly DEF Raise
    <2> QED
      BY <1>2, <2>1, <2>2 DEF WorkInProgress
  <1>3. ASSUME NEW t \in Nows, MainStep(w, t) PROVE Goal
    <2>1. CASE LeadBatch(w, t)
      BY <1>0, <2>1 DEF LeadBatch, Goto, LocalTypeOK, WorkInProgress, Processing
    <2>2. CASE Claim(w, t)
      <3>1. CASE Leads(w, t + LeaseSeconds) /\ FirstValid(t) # {}
        <4>1. PICK e \in FirstValid(t) :
                 /\ work' = [work EXCEPT ![w] =
                               [event |-> e, token |-> attempts[e] + 1,
                                before |-> mem[w][SessionOf[e]],
                                state |-> <<>>, why |-> ""]]
                 /\ pc' = [pc EXCEPT ![w] = "lead1"]
          BY <2>2, <3>1 DEF Claim, Goto
        <4>2. e \in Events /\ attempts[e] + 1 \in 1..MaxAttempts
          BY <1>0, TokenLemma
        <4>3. pc'[w] = "lead1" /\ work'[w].event = e /\ work'[w].token = attempts[e] + 1
          BY <1>0, <4>1 DEF LocalTypeOK
        <4> QED
          BY <4>2, <4>3 DEF Processing
      <3>2. CASE ~(Leads(w, t + LeaseSeconds) /\ FirstValid(t) # {})
        BY <1>0, <2>2, <3>2 DEF Claim, Goto, LocalTypeOK, WorkInProgress, Processing
      <3> QED
        BY <3>1, <3>2
    <2>3. CASE ReleaseOnStop(w, t) \/ Close(w, t)
      BY <2>3, <1>1 DEF ReleaseOnStop, Close, Vanish
    <2>4. CASE LeadEvent(w, t)
      <3>1. CASE Raise(w, "leader")
        BY <2>4, <3>1, <1>2 DEF LeadEvent, Processing
      <3>2. CASE /\ Goto(w, IF pc[w] = "lead1" THEN {"renew1"} ELSE {"renew2"})
                 /\ UNCHANGED <<work, hb>>
        BY <1>0, <2>4, <3>2 DEF LeadEvent, Goto, LocalTypeOK, WorkInProgress, Processing
      <3> QED
        BY <2>4, <3>1, <3>2 DEF LeadEvent
    <2>5. CASE RenewClaim(w, t)
      <3>1. CASE Raise(w, "lease")
        BY <2>5, <3>1, <1>2 DEF RenewClaim, Processing
      <3>2. CASE /\ Goto(w, IF pc[w] = "renew1" THEN {"apply"} ELSE {"complete"})
                 /\ UNCHANGED <<work, hb>>
        BY <1>0, <2>5, <3>2 DEF RenewClaim, Goto, LocalTypeOK, WorkInProgress, Processing
      <3> QED
        BY <2>5, <3>1, <3>2 DEF RenewClaim
    <2>6. CASE Complete(w, t)
      <3>1. CASE Raise(w, "lease")
        BY <2>6, <3>1, <1>2 DEF Complete, Processing
      <3> QED
        BY <2>6, <3>1, <1>1 DEF Complete
    <2>7. CASE HandleFailure(w, t)
      BY <2>7, <1>1 DEF HandleFailure
    <2>8. CASE RecoveryFails(w, t)
      BY <2>8, <1>2 DEF RecoveryFails, Processing
    <2>9. CASE GiveLeaseBack(w, t)
      <3>1. pc[w] = "raised" /\ UNCHANGED <<pc, hb>>
        BY <2>9 DEF GiveLeaseBack
      <3>2. work'[w].event = work[w].event /\ work'[w].token = work[w].token
        BY <1>0, <2>9, WhyOnly DEF GiveLeaseBack
      <3> QED
        BY <3>1, <3>2 DEF WorkInProgress
    <2> QED
      BY <1>3, <2>1, <2>2, <2>3, <2>4, <2>5, <2>6, <2>7, <2>8, <2>9 DEF MainStep
  <1>4. ASSUME NEW t \in Nows, HeartbeatStep(w, t)
        PROVE  Goal
    BY <1>0, <1>4 DEF HeartbeatStep, HeartbeatLease, HeartbeatClaim,
                      HeartbeatRecoveryFails, HeartbeatGivesBack, LocalTypeOK,
                      WorkInProgress
  <1>5. CASE Start(w) \/ Save(w) \/ Announce(w) \/ Resave(w) \/ EndBatch(w)
             \/ HeartbeatError(w) \/ Stop(w) \/ Exit(w)
    BY <1>0, <1>5
       DEF Start, Save, Announce, Resave, EndBatch, HeartbeatError, Stop, Exit, Goto,
           LocalTypeOK, WorkInProgress, Processing
  <1>6. CASE Apply(w)
    <2>1. PICK state : work' = [work EXCEPT ![w] = [work[w] EXCEPT !.state = state]]
      BY <1>6 DEF Apply
    <2>2. work'[w] = [work[w] EXCEPT !.state = state]
      BY <1>0, <2>1 DEF LocalTypeOK
    <2>3. work'[w].event = work[w].event /\ work'[w].token = work[w].token
      <3>1. work[w] \in Works
        BY <1>0 DEF LocalTypeOK
      <3> QED
        BY <2>2, <3>1 DEF Works
    <2>4. pc'[w] = "save" /\ hb' = hb /\ pc[w] = "apply"
      BY <1>0, <1>6 DEF Apply, Goto, LocalTypeOK
    <2> QED
      BY <2>3, <2>4 DEF WorkInProgress, Processing
  <1>7. CASE Error(w)
    BY <1>7, <1>2 DEF Error
  <1>8. CASE Crash(w)
    BY <1>8, <1>1 DEF Crash, Vanish
  <1> QED
    BY <1>3, <1>4, <1>5, <1>6, <1>7, <1>8 DEF WorkerStep

LEMMA WorkStep ==
    ASSUME TypesOK, WorkInProgress, [WorkerNext]_allVars
    PROVE  WorkInProgress'
  <1>1. ASSUME NEW w \in Workers, WorkerStep(w) PROVE WorkInProgress'
    BY <1>1, OwnWork, OthersKeep DEF WorkInProgress, TypesOK
  <1>2. CASE Wait \/ UNCHANGED allVars \/ \E e \in Events : Arrive(e)
    BY <1>2 DEF Wait, Arrive, allVars, workerVars, localVars, WorkInProgress
  <1> QED
    BY <1>1, <1>2 DEF WorkerNext

-----------------------------------------------------------------------------
(* A closing event completes only after its session was announced.          *)

LEMMA AppliedEnds ==
    ASSUME NEW row \in States, NEW e \in Closing, row # <<>>, row[Len(row)] = e
    PROVE  Ended(row)
  <1>1. Len(row) \in DOMAIN row
    BY DEF States
  <1> QED
    BY <1>1 DEF Ended

LEMMA AppendedEnds ==
    ASSUME NEW row \in States, NEW e \in Closing
    PROVE  Ended(Append(row, e))
  <1> DEFINE new == Append(row, e)
  <1>0. e \in Events
    BY WorkerAssumption
  <1>1. Len(row) + 1 \in DOMAIN new /\ new[Len(row) + 1] = e
    BY <1>0 DEF States
  <1> QED
    BY <1>1 DEF Ended

LEMMA AnnouncedGrows ==
    ASSUME NEW w \in Workers, WorkerStep(w)
    PROVE  announced \subseteq announced'
  <1>1. ASSUME NEW t \in Nows, MainStep(w, t) PROVE announced' = announced
    BY <1>1 DEF MainStep, LeadBatch, Claim, ReleaseOnStop, LeadEvent, RenewClaim,
                Complete, HandleFailure, Close, RecoveryFails, GiveLeaseBack, Vanish
  <1>2. ASSUME NEW t \in Nows, HeartbeatStep(w, t) PROVE announced' = announced
    BY <1>2 DEF HeartbeatStep, HeartbeatLease, HeartbeatClaim, HeartbeatRecoveryFails,
                HeartbeatGivesBack
  <1> QED
    BY <1>1, <1>2 DEF WorkerStep, Start, Apply, Save, Announce, Resave, Error, Exit,
                      EndBatch, HeartbeatError, Stop, Crash, Vanish

LEMMA OwnClose ==
    ASSUME TypesOK, WorkInProgress, CloseInProgress,
           NEW w \in Workers, WorkerStep(w), work'[w].event \in Closing
    PROVE  /\ pc'[w] = "save" => Ended(work'[w].state)
           /\ pc'[w] \in {"resave", "lead2", "renew2", "complete"} =>
                 SessionOf[work'[w].event] \in announced'
  <1> DEFINE Goal == /\ pc'[w] = "save" => Ended(work'[w].state)
                     /\ pc'[w] \in {"resave", "lead2", "renew2", "complete"} =>
                           SessionOf[work'[w].event] \in announced'
             Idle == {"lead", "claim", "lead1", "renew1", "apply", "announce",
                      "raised", "failed", "batch end", "closing", "gone"}
  <1>0. LocalTypeOK
    BY DEF TypesOK
  <1>1. ASSUME NEW steps \in SUBSET Idle, Goto(w, steps) PROVE Goal
    BY <1>0, <1>1 DEF Goto, LocalTypeOK
  <1>2. CASE Apply(w)
    <2>1. PICK state :
             /\ work' = [work EXCEPT ![w].state = state]
             /\ state = IF Durable(w) THEN sessions[SessionAt(w)]
                        ELSE Append(mem[w][SessionAt(w)], work[w].event)
      BY <1>2 DEF Apply
    <2>2. pc'[w] = "save" /\ pc[w] = "apply" /\ work[w] \in Works
      BY <1>0, <1>2 DEF Apply, Goto, LocalTypeOK
    <2>3. work'[w] = [work[w] EXCEPT !.state = state]
      BY <1>0, <2>1 DEF LocalTypeOK
    <2>4. work'[w].state = state /\ work'[w].event = work[w].event
      BY <2>2, <2>3 DEF Works
    <2>5. SessionAt(w) \in Sessions
      BY <2>2, SessionType DEF Processing
    <2>6. CASE Durable(w)
      BY <1>0, <2>1, <2>2, <2>4, <2>5, <2>6, AppliedEnds DEF LocalTypeOK, Durable
    <2>7. CASE ~Durable(w)
      <3>1. mem[w][SessionAt(w)] \in States
        BY <1>0, <2>5 DEF LocalTypeOK
      <3> QED
        BY <2>1, <2>2, <2>4, <2>7, <3>1, AppendedEnds
    <2> QED
      BY <2>6, <2>7
  <1>3. CASE Save(w)
    <2>1. UNCHANGED work /\ pc[w] = "save"
      BY <1>3 DEF Save
    <2>2. Ended(work[w].state)
      BY <2>1 DEF CloseInProgress
    <2> QED
      BY <1>1, <1>3, <2>2 DEF Save
  <1>4. CASE Announce(w)
    BY <1>0, <1>4 DEF Announce, Goto, LocalTypeOK, SessionAt
  <1>5. CASE Resave(w)
    BY <1>0, <1>5 DEF Resave, Goto, LocalTypeOK, SessionAt, CloseInProgress
  <1>6. ASSUME NEW t \in Nows, MainStep(w, t) PROVE Goal
    <2>1. CASE LeadEvent(w, t)
      BY <1>0, <1>1, <2>1
         DEF LeadEvent, Raise, Goto, LocalTypeOK, SessionAt, CloseInProgress
    <2>2. CASE RenewClaim(w, t)
      BY <1>0, <1>1, <2>2
         DEF RenewClaim, Raise, Goto, LocalTypeOK, SessionAt, CloseInProgress
    <2>3. CASE RecoveryFails(w, t) \/ GiveLeaseBack(w, t)
      <3>1. pc'[w] = "raised"
        BY <1>0, <2>3 DEF RecoveryFails, GiveLeaseBack, Raise, Goto, LocalTypeOK
      <3> QED
        BY <3>1
    <2> QED
      BY <1>1, <1>6, <2>1, <2>2, <2>3
         DEF MainStep, LeadBatch, Claim, ReleaseOnStop, Complete, HandleFailure,
             Close, Vanish, Finish, Raise
  <1>7. ASSUME NEW t \in Nows, HeartbeatStep(w, t)
        PROVE  Goal
    BY <1>7 DEF HeartbeatStep, HeartbeatLease, HeartbeatClaim, HeartbeatRecoveryFails,
                HeartbeatGivesBack, CloseInProgress, SessionAt
  <1>8. CASE HeartbeatError(w)
    BY <1>8 DEF HeartbeatError, CloseInProgress, SessionAt
  <1>9. CASE Start(w) \/ Error(w) \/ Exit(w) \/ EndBatch(w) \/ Stop(w) \/ Crash(w)
    BY <1>1, <1>9 DEF Start, Error, Exit, EndBatch, Stop, Crash, Vanish, Finish, Raise
  <1> QED
    BY <1>2, <1>3, <1>4, <1>5, <1>6, <1>7, <1>8, <1>9 DEF WorkerStep

LEMMA CloseStep ==
    ASSUME TypesOK, WorkInProgress, CloseInProgress, [WorkerNext]_allVars
    PROVE  CloseInProgress'
  <1>1. ASSUME NEW w \in Workers, WorkerStep(w) PROVE CloseInProgress'
    <2> SUFFICES ASSUME NEW v \in Workers, work'[v].event \in Closing
                 PROVE  /\ pc'[v] = "save" => Ended(work'[v].state)
                        /\ pc'[v] \in {"resave", "lead2", "renew2", "complete"} =>
                              SessionOf[work'[v].event] \in announced'
      BY DEF CloseInProgress, SessionAt, Ended
    <2>1. CASE v = w
      BY <1>1, <2>1, OwnClose
    <2>2. CASE v # w
      BY <1>1, <2>2, OthersKeep, AnnouncedGrows
         DEF TypesOK, CloseInProgress, SessionAt
    <2> QED
      BY <2>1, <2>2
  <1>2. CASE Wait \/ UNCHANGED allVars \/ \E e \in Events : Arrive(e)
    BY <1>2 DEF Wait, Arrive, allVars, workerVars, localVars, CloseInProgress,
                SessionAt, Ended
  <1> QED
    BY <1>1, <1>2 DEF WorkerNext

\* Only a completion makes an event succeed.
LEMMA Succeeds ==
    ASSUME TypesOK, WorkInProgress, NEW w \in Workers, WorkerStep(w),
           NEW e \in Events, outcome'[e] = "succeeded", outcome[e] # "succeeded"
    PROVE  e = work[w].event /\ pc[w] = "complete"
  <1>0. TypeOK /\ LocalTypeOK
    BY DEF TypesOK
  <1>1. ASSUME NEW f \in Events, NEW k \in Nat, NEW t \in Nat, NEW r \in Nat,
               NEW o \in Outcomes \ {"succeeded"}, Settle(w, f, k, t, o, r)
        PROVE  FALSE
    BY <1>0, <1>1 DEF Settle, TypeOK
  <1>2. ASSUME NEW t \in Nows, ClaimEvents(w, t) PROVE FALSE
    BY <1>2 DEF ClaimEvents
  <1>3. ASSUME UNCHANGED outcome PROVE FALSE
    BY <1>3
  <1>4. ASSUME NEW t \in Nows, EnsureLeadership(w, t) PROVE FALSE
    BY <1>3, <1>4
       DEF EnsureLeadership, AcquireWorkerLease, RenewWorkerLease, storeVars
  <1>5. ASSUME NEW t \in Nows, MainStep(w, t)
        PROVE  e = work[w].event /\ pc[w] = "complete"
    <2>1. t \in Nat
      BY <1>0, NowsLemma
    <2>2. CASE LeadBatch(w, t) \/ LeadEvent(w, t)
      BY <1>4, <2>2 DEF LeadBatch, LeadEvent
    <2>3. CASE Claim(w, t)
      BY <1>2, <1>3, <2>3 DEF Claim, storeVars
    <2>4. CASE ReleaseOnStop(w, t)
      <3>1. /\ work[w].event \in Events /\ work[w].token \in Nat
            /\ retryAt[work[w].event] \in Nat
        BY <1>0, <2>4, StoreAssumption DEF ReleaseOnStop, WorkInProgress, Processing, TypeOK
      <3>2. CASE ReleaseEventClaim(w, work[w].event, work[w].token, t)
        BY <1>1, <2>1, <3>1, <3>2 DEF ReleaseEventClaim, Outcomes
      <3> QED
        BY <1>3, <2>4, <3>2 DEF ReleaseOnStop, storeVars
    <2>5. CASE RenewClaim(w, t)
      BY <1>3, <2>5 DEF RenewClaim, RenewEventClaim, storeVars
    <2>6. CASE Complete(w, t)
      <3>1. work[w].event \in Events
        BY <2>6 DEF Complete, WorkInProgress, Processing
      <3>2. CASE CompleteEvent(w, work[w].event, work[w].token, t)
        BY <1>0, <2>6, <3>1, <3>2 DEF Complete, CompleteEvent, Settle, TypeOK
      <3> QED
        BY <1>3, <2>6, <3>2 DEF Complete, storeVars
    <2>7. CASE HandleFailure(w, t)
      <3>1. work[w].event \in Events /\ work[w].token \in Nat
        <4>1. pc[w] = "failed"
          BY <2>7 DEF HandleFailure
        <4>2. work[w].event \in Events /\ work[w].token \in 1..MaxAttempts
          BY <4>1 DEF WorkInProgress
        <4> QED
          BY <4>2
      <3>2. ASSUME NEW retryable \in BOOLEAN,
                   FailEvent(w, work[w].event, work[w].token, t, retryable)
            PROVE  FALSE
        <4>1. \A d \in RetryDelays : t + d \in Nat
          BY <2>1, StoreAssumption
        <4> QED
          BY <1>1, <2>1, <3>1, <3>2, <4>1 DEF FailEvent, Outcomes
      <3> QED
        BY <1>3, <2>7, <3>2 DEF HandleFailure, storeVars
    <2>8. CASE Close(w, t) \/ RecoveryFails(w, t) \/ GiveLeaseBack(w, t)
      BY <1>3, <2>8 DEF Close, RecoveryFails, GiveLeaseBack, AcquireWorkerLease,
                        ReleaseWorkerLease, storeVars
    <2> QED
      BY <1>5, <2>2, <2>3, <2>4, <2>5, <2>6, <2>7, <2>8 DEF MainStep
  <1>6. ASSUME NEW t \in Nows, HeartbeatStep(w, t)
        PROVE  FALSE
    BY <1>3, <1>4, <1>6
       DEF HeartbeatStep, HeartbeatLease, HeartbeatClaim, HeartbeatRecoveryFails,
           HeartbeatGivesBack, RenewEventClaim, AcquireWorkerLease, ReleaseWorkerLease,
           storeVars
  <1> QED
    BY <1>3, <1>5, <1>6
       DEF WorkerStep, Start, Apply, Save, Announce, Resave, Error, Exit, EndBatch,
           HeartbeatError, Stop, Crash, storeVars

LEMMA AnnouncedStep ==
    ASSUME WIInv, [WorkerNext]_allVars
    PROVE  ClosedIsAnnounced'
  <1> USE DEF WIInv
  <1>1. ASSUME NEW w \in Workers, WorkerStep(w) PROVE ClosedIsAnnounced'
    <2> SUFFICES ASSUME NEW e \in Closing, outcome'[e] = "succeeded"
                 PROVE  SessionOf[e] \in announced'
      BY DEF ClosedIsAnnounced
    <2>1. e \in Events
      BY WorkerAssumption
    <2>2. CASE outcome[e] = "succeeded"
      BY <1>1, <2>2, AnnouncedGrows DEF ClosedIsAnnounced
    <2>3. CASE outcome[e] # "succeeded"
      <3>1. e = work[w].event /\ pc[w] = "complete"
        BY <1>1, <2>1, <2>3, Succeeds
      <3>2. SessionOf[e] \in announced
        BY <3>1 DEF CloseInProgress, SessionAt
      <3> QED
        BY <1>1, <3>2, AnnouncedGrows
    <2> QED
      BY <2>2, <2>3
  <1>2. CASE Wait \/ UNCHANGED allVars \/ \E e \in Events : Arrive(e)
    BY <1>2 DEF Wait, Arrive, Tick, StoreEvent, allVars, storeVars, workerVars,
                ClosedIsAnnounced
  <1> QED
    BY <1>1, <1>2 DEF WorkerNext

LEMMA WIInvStep == WIInv /\ [WorkerNext]_allVars => WIInv'
  <1> SUFFICES ASSUME WIInv, [WorkerNext]_allVars PROVE WIInv'
    OBVIOUS
  <1> USE DEF WIInv
  <1>1. TypeOK'
    BY StoreStep, NextType DEF TypesOK
  <1>2. TypesOK'
    BY <1>1, LocalType DEF TypesOK
  <1> QED
    BY <1>2, WorkStep, CloseStep, AnnouncedStep

LEMMA WIInvAlways == WorkerSpec => []WIInv
  BY WorkerInitOK, WIInvStep, PTL DEF WorkerSpec

\* Type correctness of the queue, the session rows and the locals of every
\* process, whatever crashes or stalls: a process at work has an event with an
\* attempt left, and none keeps a heartbeat for an event it is done with.
THEOREM WorkerTypeCorrect == WorkerSpec => []WorkerTypeOK
  <1>1. WIInv => WorkerTypeOK
    BY DEF WIInv, WorkerTypeOK
  <1> QED
    BY <1>1, WIInvAlways, PTL

\* A closing event only ever succeeds after _on_session_end announced its
\* session for analysis, whatever crashes, stalls or is retried in between.
THEOREM CloseAnnounced == WorkerSpec => []ClosedIsAnnounced
  <1>1. WIInv => ClosedIsAnnounced
    BY DEF WIInv
  <1> QED
    BY <1>1, WIInvAlways, PTL

\* The worker, its heartbeat and their failures call the queue only in ways the
\* queue allows, so that all that is proved of the queue holds of the whole.
THEOREM UsesTheQueue == WorkerSpec => Spec
  <1>1. WorkerInit => Init
    BY DEF WorkerInit
  <1>2. WIInv /\ [WorkerNext]_allVars => [Next]_storeVars
    BY StoreStep DEF WIInv
  <1> QED
    BY <1>1, <1>2, WIInvAlways, PTL DEF WorkerSpec, Spec

\* Worker processes never work on live claims of the same queue at once.
THEOREM OneWorkerAtATime == WorkerSpec => []OneWorkerHoldsTheLiveClaims
  BY UsesTheQueue, OneWorker, PTL

-----------------------------------------------------------------------------
(* The sessions while no process stalls: what the claim protects.           *)

\* No process is suspended beyond its claim, nor does a transaction wait for the
\* write lock as long as a claim lasts (busy_timeout against event_lease_seconds).
NoStall == MayStall = FALSE /\ MaxLag < LeaseSeconds

\* Cowrie closes a session with its last event.
ClosingIsLast ==
    \A c \in Closing, e \in Events : SessionOf[e] = SessionOf[c] => e <= c

\* The claim protects the event from here to the end of the with block, though a
\* process that could not recover the sessions gives the lease back before.
Serving(w) == pc[w] \in Processing \cup {"raised"}
Engaged(w) == pc[w] \in Processing \cup {"raised", "failed"}

\* The memory of w was recovered under the leadership that still stands.
Current(w) == held[w] /\ lease.owner = w

Succeeded == {x \in Events : outcome[x] = "succeeded"}

\* What a session in memory, m, may lack of its row r: an event that did not
\* succeed was saved and then undone, or the row is closed and was evicted.
Fits(m, r, done) ==
    \/ m = r
    \/ \E x \in Events \ done : r = Append(m, x)
    \/ Ended(r) /\ m = <<>>

\* st holds events of session s that were tried, once each, in their order.
Good(st, s, rcv, att) ==
    /\ \A i \in DOMAIN st : SessionOf[st[i]] = s /\ att[st[i]] > 0
    /\ \A i, j \in DOMAIN st : i < j => rcv[st[i]] < rcv[st[j]]

\* The events of a session are stored in the order of their ids.
ArrivedInOrder ==
    \A e, f \in Events :
        SessionOf[e] = SessionOf[f] /\ e < f /\ recv[e] # 0 /\ recv[f] # 0 =>
            recv[e] < recv[f]

RowsAreGood == \A s \in Sessions : Good(sessions[s], s, recv, attempts)

StatesAreGood(w) ==
    /\ \A s \in Sessions : Good(mem[w][s], s, recv, attempts)
    /\ Engaged(w) => /\ Good(work[w].before, SessionAt(w), recv, attempts)
                     /\ Good(work[w].state, SessionAt(w), recv, attempts)

ClaimOutlivesWork(w) ==
    Serving(w) => /\ claim[work[w].event].owner = w
                  /\ claim[work[w].event].exp > clock
                  /\ lease.owner \in {w, NoWorker}
                  /\ pc[w] # "raised" => lease.owner = w

\* Only the heartbeat drops the leadership of a process at work, and says so.
HeldUnlessLost(w) ==
    /\ pc[w] \in Processing \cup {"claim"} /\ hb[w] # "lost" => held[w]
    /\ hb[w] = "unled" => pc[w] \notin Processing

MemoryFits(w) ==
    \A s \in Sessions :
        /\ Serving(w) \/ Current(w)
        /\ pc[w] \in {"save", "raised", "failed"} => s # SessionAt(w)
        => Fits(mem[w][s], sessions[s], Succeeded)

\* What a failure puts back into the memory fits the row as well.
BeforeFits(w) ==
    Serving(w) \/ (pc[w] = "failed" /\ Current(w)) =>
        Fits(work[w].before, sessions[SessionAt(w)], Succeeded)

\* How the memory, the row and the state worked on relate at every step.
WorkKept(w) ==
    /\ pc[w] \in {"lead1", "renew1"} /\ hb[w] # "lost" =>
          mem[w][SessionAt(w)] = work[w].before
    /\ pc[w] = "apply" => mem[w][SessionAt(w)] = work[w].before
    /\ pc[w] = "save" =>
          /\ mem[w][SessionAt(w)] = work[w].state
          /\ \/ work[w].state = sessions[SessionAt(w)]
             \/ work[w].state = Append(work[w].before, work[w].event)
    /\ pc[w] \in {"announce", "resave", "lead2", "renew2", "complete"} =>
          sessions[SessionAt(w)] = work[w].state
    /\ pc[w] \in {"announce", "resave", "lead2"} =>
          mem[w][SessionAt(w)] = work[w].state
    /\ pc[w] \in {"renew2", "complete"} =>
          \/ mem[w][SessionAt(w)] = work[w].state
          \/ Ended(work[w].state) /\ mem[w][SessionAt(w)] = <<>>
    /\ pc[w] \in {"save", "announce", "resave", "lead2", "renew2", "complete"} =>
          work[w].state # <<>> /\ work[w].state[Len(work[w].state)] = work[w].event
    /\ pc[w] = "announce" => Ended(work[w].state)

ProcessOK(w) ==
    /\ StatesAreGood(w)
    /\ ClaimOutlivesWork(w)
    /\ HeldUnlessLost(w)
    /\ MemoryFits(w)
    /\ BeforeFits(w)
    /\ WorkKept(w)

SInv == /\ WIInv
        /\ IInv
        /\ ArrivedInOrder
        /\ RowsAreGood
        /\ \A w \in Workers : ProcessOK(w)

-----------------------------------------------------------------------------
(* Sessions as sequences. *)

LEMMA EndedAppend ==
    ASSUME NEW m \in States, NEW x \in Events, Ended(m)
    PROVE  Ended(Append(m, x))
  <1>1. PICK i \in DOMAIN m : m[i] \in Closing
    BY DEF Ended
  <1>2. i \in DOMAIN Append(m, x) /\ Append(m, x)[i] = m[i]
    BY <1>1 DEF States
  <1> QED
    BY <1>1, <1>2 DEF Ended

LEMMA AppendedApplied ==
    ASSUME NEW m \in States, NEW x \in Events
    PROVE  Applied(Append(m, x)) = Applied(m) \cup {x}
  <1> DEFINE n == Append(m, x)
  <1>1. /\ DOMAIN n = 1..(Len(m) + 1) /\ DOMAIN m = 1..Len(m) /\ Len(m) \in Nat
        /\ \A i \in 1..Len(m) : n[i] = m[i]
        /\ n[Len(m) + 1] = x
    BY DEF States
  <1> QED
    BY <1>1 DEF Applied

LEMMA EvictedFits ==
    ASSUME NEW m \in States, NEW r \in States, NEW done, Fits(m, r, done), Ended(m)
    PROVE  Fits(<<>>, r, done)
  BY EndedAppend DEF Fits, Ended

LEMMA RecoveredFits ==
    ASSUME NEW s \in Sessions, NEW done
    PROVE  Fits(Recovered[s], sessions[s], done)
  BY DEF Fits, Recovered

\* Events that fail meanwhile keep the memory fitting.
LEMMA StillFits ==
    ASSUME NEW m, NEW r, NEW done, NEW more, more \cap Events \subseteq done,
           Fits(m, r, done)
    PROVE  Fits(m, r, more)
  BY DEF Fits

LEMMA EmptyGood ==
    ASSUME NEW s, NEW rcv, NEW att
    PROVE  Good(<<>>, s, rcv, att)
  BY DEF Good

LEMMA AppendGood ==
    ASSUME NEW m \in States, NEW e \in Events, NEW s, NEW rcv \in [Events -> Nat],
           NEW att \in [Events -> Nat], Good(m, s, rcv, att),
           SessionOf[e] = s, att[e] > 0,
           \A i \in DOMAIN m : rcv[m[i]] < rcv[e]
    PROVE  Good(Append(m, e), s, rcv, att)
  <1> DEFINE n == Append(m, e)
  <1>1. /\ DOMAIN n = 1..(Len(m) + 1) /\ DOMAIN m = 1..Len(m) /\ Len(m) \in Nat
        /\ \A i \in 1..Len(m) : n[i] = m[i]
        /\ n[Len(m) + 1] = e
    BY DEF States
  <1>2. \A i \in DOMAIN n : SessionOf[n[i]] = s /\ att[n[i]] > 0
    BY <1>1 DEF Good
  <1>3. ASSUME NEW i \in DOMAIN n, NEW j \in DOMAIN n, i < j
        PROVE  rcv[n[i]] < rcv[n[j]]
    BY <1>1, <1>3 DEF Good
  <1> QED
    BY <1>2, <1>3 DEF Good

-----------------------------------------------------------------------------
(* What a step of the queue keeps, and whom a claim locks out.              *)

\* The place of a stored row stays, and attempts only grow.
LEMMA PlacesStay ==
    ASSUME TypeOK, [Next]_storeVars, NEW e \in Events
    PROVE  /\ recv[e] # 0 => recv'[e] = recv[e]
           /\ attempts[e] > 0 => attempts'[e] > 0
  <1>1. recv[e] # 0 => recv'[e] = recv[e]
    <2>1. ASSUME NEW f \in Events, StoreEvent(f), recv[e] # 0
          PROVE  recv'[e] = recv[e]
      BY <2>1 DEF StoreEvent, TypeOK
    <2>2. ASSUME NEW w \in Workers, NEW t \in Nows, NEW f \in Events, ClaimOp(w, f, t)
          PROVE  recv' = recv
      BY <2>2 DEF ClaimOp, RenewEventClaim, CompleteEvent, FailEvent,
                  ReleaseEventClaim, Settle
    <2>3. ASSUME NEW w \in Workers, NEW t \in Nows, LeaseOp(w, t)
          PROVE  recv' = recv
      BY <2>3 DEF LeaseOp, AcquireWorkerLease, RenewWorkerLease, ReleaseWorkerLease
    <2> QED
      BY <2>1, <2>2, <2>3 DEF Next, ClaimEvents, Tick, storeVars
  <1>2. attempts[e] > 0 => attempts'[e] > 0
    <2>1. attempts[e] \in Nat
      BY DEF TypeOK
    <2>2. CASE SettlesOnce
      BY <2>1, <2>2 DEF SettlesOnce
    <2>3. CASE UNCHANGED storeVars
      BY <2>3 DEF storeVars
    <2> QED
      BY <2>2, <2>3, NextSettlesOnce
  <1> QED
    BY <1>1, <1>2

LEMMA GoodStays ==
    ASSUME TypeOK, UnstoredIsUntouched, [Next]_storeVars,
           NEW st \in States, NEW s, Good(st, s, recv, attempts)
    PROVE  Good(st, s, recv', attempts')
  <1>1. \A i \in DOMAIN st : st[i] \in Events
    BY DEF States
  <1>2. \A i \in DOMAIN st : attempts[st[i]] > 0
    BY DEF Good
  <1>3. \A e \in Events : attempts[e] > 0 => recv[e] # 0
    BY DEF UnstoredIsUntouched, TypeOK
  <1>4. \A i \in DOMAIN st : attempts'[st[i]] > 0 /\ recv'[st[i]] = recv[st[i]]
    BY <1>1, <1>2, <1>3, PlacesStay
  <1> QED
    BY <1>4 DEF Good

\* A lease comes to a process only by a step of its own.
LEMMA LeaseComes ==
    ASSUME NEW v \in Workers, NEW w \in Workers, v # w, WorkerStep(v),
           lease'.owner = w
    PROVE  lease.owner = w
  <1>0. NoLease.owner # w
    BY StoreAssumption DEF NoLease
  <1>1. ASSUME UNCHANGED lease PROVE lease.owner = w
    BY <1>1
  <1>2. ASSUME NEW t \in Nows, EnsureLeadership(v, t) PROVE lease.owner = w
    BY <1>1, <1>2 DEF EnsureLeadership, RenewWorkerLease, AcquireWorkerLease, storeVars
  <1>3. ASSUME NEW t \in Nows, MainStep(v, t) PROVE lease.owner = w
    <2>1. CASE LeadBatch(v, t) \/ LeadEvent(v, t)
      BY <1>2, <2>1 DEF LeadBatch, LeadEvent
    <2>2. CASE Close(v, t) \/ RecoveryFails(v, t) \/ GiveLeaseBack(v, t)
      BY <1>0, <1>1, <2>2 DEF Close, RecoveryFails, GiveLeaseBack, AcquireWorkerLease,
                              ReleaseWorkerLease, storeVars
    <2> QED
      BY <1>1, <1>3, <2>1, <2>2
         DEF MainStep, Claim, ClaimEvents, ReleaseOnStop, RenewClaim, Complete,
             HandleFailure, RenewEventClaim, CompleteEvent, FailEvent,
             ReleaseEventClaim, Settle, storeVars
  <1>4. ASSUME NEW t \in Nows, HeartbeatStep(v, t)
        PROVE  lease.owner = w
    BY <1>0, <1>1, <1>2, <1>4
       DEF HeartbeatStep, HeartbeatLease, HeartbeatClaim, HeartbeatRecoveryFails,
           HeartbeatGivesBack, RenewEventClaim, AcquireWorkerLease, ReleaseWorkerLease,
           storeVars
  <1> QED
    BY <1>1, <1>3, <1>4
       DEF WorkerStep, Start, Apply, Save, Announce, Resave, Error, Exit, EndBatch,
           HeartbeatError, Stop, Crash, storeVars

\* While no other process leads, and one keeps the lease or a live claim, the other
\* ones change nothing in the queue.
LEMMA LockedOut ==
    ASSUME TypeOK, ClaimsAreOnPendingRows,
           NEW v \in Workers, NEW w \in Workers, v # w, WorkerStep(v),
           lease.owner \in {w, NoWorker},
           \/ lease'.owner = w
           \/ \E e \in Events : claim[e].owner = w /\ claim[e].exp > clock
    PROVE  UNCHANGED storeVars
  <1>1. \A u : ~Leads(v, u)
    BY StoreAssumption DEF Leads
  <1>2. ASSUME NEW t \in Nows PROVE ~AcquireWorkerLease(v, t)
    <2> SUFFICES ASSUME AcquireWorkerLease(v, t) PROVE FALSE
      OBVIOUS
    <2>1. lease'.owner = v
      BY DEF AcquireWorkerLease
    <2>2. PICK e \in Events : claim[e].owner = w /\ claim[e].exp > clock
      BY <2>1
    <2>3. Pending(e) /\ claim[e].exp \in Nat
      BY <2>2, StoreAssumption DEF ClaimsAreOnPendingRows, TypeOK
    <2>4. t \in Nat /\ t <= clock /\ clock \in Nat
      BY NowsLemma DEF TypeOK
    <2>5. ~MayAcquire(v, t)
      BY <2>2, <2>3, <2>4, StoreAssumption DEF MayAcquire
    <2> QED
      BY <2>5 DEF AcquireWorkerLease
  <1>3. ASSUME NEW t \in Nows, EnsureLeadership(v, t) PROVE UNCHANGED storeVars
    BY <1>1, <1>2, <1>3 DEF EnsureLeadership, RenewWorkerLease
  <1>4. ASSUME NEW t \in Nows, MainStep(v, t) PROVE UNCHANGED storeVars
    <2>1. CASE LeadBatch(v, t) \/ LeadEvent(v, t)
      BY <1>3, <2>1 DEF LeadBatch, LeadEvent
    <2>2. CASE \/ Claim(v, t) \/ Close(v, t) \/ RenewClaim(v, t)
               \/ RecoveryFails(v, t) \/ GiveLeaseBack(v, t)
      BY <1>1, <1>2, <2>2
         DEF Claim, ClaimEvents, Close, ReleaseWorkerLease, RenewClaim, RenewEventClaim,
             RecoveryFails, GiveLeaseBack
    <2>3. CASE ReleaseOnStop(v, t) \/ Complete(v, t) \/ HandleFailure(v, t)
      BY <1>1, <2>3 DEF ReleaseOnStop, Complete, HandleFailure, CompleteEvent,
                        FailEvent, ReleaseEventClaim, Settle
    <2> QED
      BY <1>4, <2>1, <2>2, <2>3 DEF MainStep
  <1>5. ASSUME NEW t \in Nows, HeartbeatStep(v, t)
        PROVE  UNCHANGED storeVars
    BY <1>1, <1>2, <1>3, <1>5
       DEF HeartbeatStep, HeartbeatLease, HeartbeatClaim, HeartbeatRecoveryFails,
           HeartbeatGivesBack, RenewEventClaim, ReleaseWorkerLease
  <1> QED
    BY <1>4, <1>5
       DEF WorkerStep, Start, Apply, Save, Announce, Resave, Error, Exit, EndBatch,
           HeartbeatError, Stop, Crash

\* The rows of table sessions are written by the two saves alone.
LEMMA RowsWritten ==
    ASSUME NEW v \in Workers, WorkerStep(v), pc[v] \notin {"save", "resave"}
    PROVE  UNCHANGED sessions
  <1>1. ASSUME NEW t \in Nows, MainStep(v, t) PROVE UNCHANGED sessions
    BY <1>1 DEF MainStep, LeadBatch, Claim, ReleaseOnStop, LeadEvent, RenewClaim,
                Complete, HandleFailure, Close, RecoveryFails, GiveLeaseBack, Vanish
  <1>2. ASSUME NEW t \in Nows, HeartbeatStep(v, t)
        PROVE  UNCHANGED sessions
    BY <1>2 DEF HeartbeatStep, HeartbeatLease, HeartbeatClaim, HeartbeatRecoveryFails,
                HeartbeatGivesBack
  <1> QED
    BY <1>1, <1>2
       DEF WorkerStep, Start, Apply, Save, Announce, Resave, Error, Exit, EndBatch,
           HeartbeatError, Stop, Crash, Vanish

\* A process changes the memory and the leadership of no other one.
LEMMA OthersRemember ==
    ASSUME LocalTypeOK, NEW w \in Workers, NEW v \in Workers, v # w, WorkerStep(v)
    PROVE  held'[w] = held[w] /\ mem'[w] = mem[w]
  <1>1. ASSUME NEW t \in Nows, EnsureLeadership(v, t)
        PROVE  held'[w] = held[w] /\ mem'[w] = mem[w]
    BY <1>1 DEF EnsureLeadership, LocalTypeOK
  <1>2. ASSUME NEW t \in Nows, MainStep(v, t)
        PROVE  held'[w] = held[w] /\ mem'[w] = mem[w]
    BY <1>1, <1>2 DEF LocalTypeOK, MainStep, LeadBatch, Claim, ReleaseOnStop,
                LeadEvent, RenewClaim, Complete, HandleFailure, Close, RecoveryFails,
                GiveLeaseBack, Vanish
  <1>3. ASSUME NEW t \in Nows, HeartbeatStep(v, t)
        PROVE  held'[w] = held[w] /\ mem'[w] = mem[w]
    BY <1>1, <1>3 DEF HeartbeatStep, HeartbeatLease, HeartbeatClaim, HeartbeatRecoveryFails,
                      HeartbeatGivesBack
  <1> QED
    BY <1>2, <1>3
       DEF LocalTypeOK, WorkerStep, Start, Apply, Save, Announce, Resave, Error,
           Exit, EndBatch, HeartbeatError, Stop, Crash, Vanish

\* While a process works under its claim, or is left the leader, every other one
\* leaves the queue and the rows alone.
LEMMA OthersLockedOut ==
    ASSUME SInv, NEW v \in Workers, NEW w \in Workers, v # w, WorkerStep(v),
           Serving(w) \/ lease'.owner = w
    PROVE  UNCHANGED <<storeVars, sessions>>
  <1>0. TypeOK /\ WorkInProgress /\ ClaimsAreOnPendingRows /\ ProcessOK(w) /\ ProcessOK(v)
    BY DEF SInv, WIInv, IInv
  <1>1. Serving(w) => lease.owner \in {w, NoWorker} /\ work[w].event \in Events
    BY <1>0 DEF ProcessOK, ClaimOutlivesWork, WorkInProgress, Serving
  <1>2. lease.owner \in {w, NoWorker}
    BY <1>1, LeaseComes
  <1>3. UNCHANGED storeVars
    BY <1>0, <1>1, <1>2, LockedOut DEF ProcessOK, ClaimOutlivesWork
  <1>4. pc[v] \notin {"save", "resave"}
    BY <1>0, <1>2, StoreAssumption DEF ProcessOK, ClaimOutlivesWork, Serving, Processing
  <1> QED
    BY <1>3, <1>4, RowsWritten

LEMMA OtherProcessOK ==
    ASSUME SInv, NEW v \in Workers, NEW w \in Workers, v # w, WorkerStep(v)
    PROVE  ProcessOK(w)'
  <1>0. TypeOK /\ LocalTypeOK /\ WorkInProgress /\ UnstoredIsUntouched
        /\ ClaimsAreOnPendingRows /\ [Next]_storeVars /\ ProcessOK(w) /\ ProcessOK(v)
    BY StoreStep DEF SInv, WIInv, TypesOK, IInv, WorkerNext
  <1>1. /\ pc'[w] = pc[w] /\ work'[w] = work[w] /\ hb'[w] = hb[w]
        /\ held'[w] = held[w] /\ mem'[w] = mem[w]
    BY <1>0, OthersKeep, OthersRemember
  <1>3. Serving(w) \/ lease'.owner = w => UNCHANGED <<storeVars, sessions>>
    BY OthersLockedOut
  <1>4. StatesAreGood(w)'
    <2>1. \A s \in Sessions : mem[w][s] \in States
      BY <1>0 DEF LocalTypeOK
    <2>2. work[w].before \in States /\ work[w].state \in States
      BY <1>0 DEF LocalTypeOK, Works
    <2> QED
      BY <1>0, <1>1, <2>1, <2>2, GoodStays
         DEF ProcessOK, StatesAreGood, Engaged, SessionAt
  <1>5. ClaimOutlivesWork(w)'
    BY <1>0, <1>1, <1>3 DEF ProcessOK, ClaimOutlivesWork, Serving, storeVars
  <1>6. HeldUnlessLost(w)'
    BY <1>0, <1>1 DEF ProcessOK, HeldUnlessLost
  <1>7. MemoryFits(w)'
    BY <1>0, <1>1, <1>3
       DEF ProcessOK, MemoryFits, Serving, Current, Succeeded, SessionAt, storeVars
  <1>8. BeforeFits(w)'
    BY <1>0, <1>1, <1>3
       DEF ProcessOK, BeforeFits, Serving, Current, Succeeded, SessionAt, storeVars
  <1>9. WorkKept(w)'
    <2>1. CASE Serving(w)
      BY <1>0, <1>1, <1>3, <2>1 DEF ProcessOK, WorkKept, SessionAt, Ended
    <2>2. CASE ~Serving(w)
      BY <1>1, <2>2 DEF WorkKept, Serving, Processing
    <2> QED
      BY <2>1, <2>2
  <1> QED
    BY <1>4, <1>5, <1>6, <1>7, <1>8, <1>9 DEF ProcessOK

-----------------------------------------------------------------------------
(* A process's own steps.                                                   *)

\* Everything about a process at work that its own steps rely on.
LEMMA ServingFacts ==
    ASSUME SInv, NEW w \in Workers, Engaged(w)
    PROVE  /\ work[w].event \in Events /\ SessionAt(w) \in Sessions
           /\ SessionAt(w) = SessionOf[work[w].event]
           /\ work[w] \in Works /\ work[w].before \in States /\ work[w].state \in States
           /\ sessions[SessionAt(w)] \in States /\ mem[w][SessionAt(w)] \in States
           /\ Serving(w) => /\ Pending(work[w].event) /\ attempts[work[w].event] > 0
                            /\ work[w].event \notin Succeeded
  <1>1. LocalTypeOK /\ WorkInProgress /\ ClaimsAreOnPendingRows
    BY DEF SInv, WIInv, TypesOK, IInv
  <1>2. work[w].event \in Events /\ SessionAt(w) \in Sessions
    BY <1>1, SessionType DEF WorkInProgress, Engaged
  <1>3. work[w] \in Works /\ sessions[SessionAt(w)] \in States
        /\ mem[w][SessionAt(w)] \in States
    BY <1>1, <1>2 DEF LocalTypeOK
  <1>4. Serving(w) => claim[work[w].event].owner = w
    BY DEF SInv, ProcessOK, ClaimOutlivesWork
  <1>5. Serving(w) => Pending(work[w].event) /\ attempts[work[w].event] > 0
    BY <1>1, <1>2, <1>4, StoreAssumption DEF ClaimsAreOnPendingRows
  <1> QED
    BY <1>2, <1>3, <1>5 DEF Works, SessionAt, Pending, Terminal, Succeeded

\* The states of a process stay good when they change into states that are.
LEMMA StatesStayGood ==
    ASSUME SInv, NEW w \in Workers, [Next]_storeVars
    PROVE  /\ \A s \in Sessions : Good(mem[w][s], s, recv', attempts')
           /\ \A s \in Sessions : Good(sessions[s], s, recv', attempts')
           /\ \A s \in Sessions : Good(Recovered[s], s, recv', attempts')
           /\ Engaged(w) =>
                 /\ Good(work[w].before, SessionAt(w), recv', attempts')
                 /\ Good(work[w].state, SessionAt(w), recv', attempts')
  <1>1. TypeOK /\ LocalTypeOK /\ UnstoredIsUntouched /\ StatesAreGood(w) /\ RowsAreGood
    BY DEF SInv, WIInv, TypesOK, IInv, ProcessOK
  <1>2. \A s \in Sessions : mem[w][s] \in States /\ sessions[s] \in States
    BY <1>1 DEF LocalTypeOK
  <1>3. work[w].before \in States /\ work[w].state \in States
    BY <1>1 DEF LocalTypeOK, Works
  <1>4. \A s \in Sessions : Good(sessions[s], s, recv', attempts')
    BY <1>1, <1>2, GoodStays DEF RowsAreGood
  <1>5. \A s \in Sessions : Good(Recovered[s], s, recv', attempts')
    BY <1>4, EmptyGood DEF Recovered
  <1> QED
    BY <1>1, <1>2, <1>3, <1>4, <1>5, GoodStays DEF StatesAreGood

\* Rows written by a step of w are those of w's session alone; the rest stay.
LEMMA OwnStates ==
    ASSUME SInv, NEW w \in Workers, WorkerStep(w)
    PROVE  /\ TypeOK /\ LocalTypeOK /\ WorkInProgress /\ [Next]_storeVars
           /\ ProcessOK(w) /\ RowsAreGood
           /\ \A s \in Sessions : mem[w][s] \in States /\ sessions[s] \in States
  BY StoreStep DEF SInv, WIInv, TypesOK, LocalTypeOK, WorkerNext

\* Steps of a process that is neither at work nor gets to be.
LEMMA IdleSteps ==
    ASSUME SInv, NEW w \in Workers, WorkerStep(w),
           Start(w) \/ Stop(w) \/ EndBatch(w) \/ Crash(w) \/ \E t \in Nows : Close(w, t)
    PROVE  ProcessOK(w)'
  <1>0. TypeOK /\ LocalTypeOK /\ WorkInProgress /\ [Next]_storeVars /\ ProcessOK(w)
        /\ \A s \in Sessions : mem[w][s] \in States /\ sessions[s] \in States
    BY OwnStates
  <1>1. ~Engaged(w)' /\ pc'[w] # "claim"
    BY <1>0 DEF Start, Stop, EndBatch, Crash, Close, Vanish, Finish, Goto, LocalTypeOK,
                Engaged, Processing
  <1>2. ~Serving(w)'
    BY <1>1 DEF Engaged, Serving
  <1>3. /\ pc'[w] \notin {"save", "raised", "failed", "lead1", "renew1", "apply", "announce",
                          "resave", "lead2", "renew2", "complete", "claim"}
    BY <1>1 DEF Engaged, Processing
  <1>4. EndBatch(w) =>
            \A s \in Sessions : IF Ended(mem[w][s]) THEN mem'[w][s] = <<>>
                               ELSE mem'[w][s] = mem[w][s]
    <2> SUFFICES ASSUME EndBatch(w), NEW s \in Sessions
                 PROVE  IF Ended(mem[w][s]) THEN mem'[w][s] = <<>>
                        ELSE mem'[w][s] = mem[w][s]
      OBVIOUS
    <2>1. mem'[w] = [r \in Sessions |-> IF Ended(mem[w][r]) THEN <<>> ELSE mem[w][r]]
      BY <1>0 DEF EndBatch, LocalTypeOK
    <2> QED
      BY <2>1
  <1>5. StatesAreGood(w)'
    <2>1. \A s \in Sessions : mem'[w][s] = mem[w][s] \/ mem'[w][s] = <<>>
      <3>1. CASE Crash(w) \/ \E t \in Nows : Close(w, t)
        BY <1>0, <3>1 DEF Crash, Close, Vanish, NoMemory, LocalTypeOK
      <3>2. CASE Start(w) \/ Stop(w)
        BY <3>2 DEF Start, Stop
      <3> QED
        BY <1>4, <3>1, <3>2
    <2> QED
      BY <1>0, <1>1, <2>1, StatesStayGood, EmptyGood DEF StatesAreGood
  <1>6. MemoryFits(w)'
    <2>1. CASE Crash(w) \/ \E t \in Nows : Close(w, t)
      <3>1. ~held'[w]
        BY <1>0, <2>1 DEF Crash, Close, Vanish, LocalTypeOK
      <3> QED
        BY <1>2, <3>1 DEF MemoryFits, Current
    <2>2. CASE Start(w) \/ Stop(w) \/ EndBatch(w)
      <3>1. pc[w] \in {"new", "lead", "claim", "batch end"} /\ UNCHANGED <<storeVars, sessions, held>>
        BY <2>2 DEF Start, Stop, EndBatch
      <3>2. Current(w)' => \A s \in Sessions : Fits(mem[w][s], sessions[s], Succeeded)
        BY <1>0, <3>1 DEF ProcessOK, MemoryFits, Current, storeVars
      <3>3. \A s \in Sessions : \/ mem'[w][s] = mem[w][s]
                                \/ Ended(mem[w][s]) /\ mem'[w][s] = <<>>
        BY <1>4, <2>2 DEF Start, Stop
      <3>4. Current(w)' => \A s \in Sessions : Fits(mem'[w][s], sessions[s], Succeeded)
        BY <1>0, <3>2, <3>3, EvictedFits
      <3> QED
        BY <1>2, <3>1, <3>4 DEF MemoryFits, Succeeded, storeVars
    <2> QED
      BY <2>1, <2>2
  <1> QED
    BY <1>2, <1>3, <1>5, <1>6
       DEF ProcessOK, ClaimOutlivesWork, HeldUnlessLost, BeforeFits, WorkKept, Processing

\* What _ensure_leadership may come to.
LEMMA EnsureCases ==
    ASSUME LocalTypeOK, NEW w \in Workers, NEW t \in Nows, EnsureLeadership(w, t)
    PROVE  /\ UNCHANGED <<clock, recv, outcome, attempts, claim>>
           /\ \/ /\ held[w] /\ held'[w] /\ mem' = mem
                 /\ lease.owner = w /\ lease'.owner = w
              \/ /\ held[w] /\ ~held'[w] /\ mem' = mem /\ lease' = lease
              \/ /\ ~held[w] /\ held'[w] /\ mem'[w] = Recovered /\ lease'.owner = w
              \/ /\ ~held[w] /\ ~held'[w] /\ mem' = mem /\ lease' = lease
  BY DEF EnsureLeadership, RenewWorkerLease, AcquireWorkerLease, Leads, LocalTypeOK,
         storeVars

LEMMA LeadBatchOK ==
    ASSUME SInv, NEW w \in Workers, WorkerStep(w), NEW t \in Nows, LeadBatch(w, t)
    PROVE  ProcessOK(w)'
  <1>0. TypeOK /\ LocalTypeOK /\ WorkInProgress /\ [Next]_storeVars /\ ProcessOK(w)
        /\ \A s \in Sessions : mem[w][s] \in States /\ sessions[s] \in States
    BY OwnStates
  <1>1. pc[w] = "lead" /\ UNCHANGED <<sessions, work, hb>> /\ EnsureLeadership(w, t)
    BY DEF LeadBatch
  <1>2. pc'[w] \in {"claim", "batch end"} /\ (pc'[w] = "claim" => held'[w])
    BY <1>0 DEF LeadBatch, Goto, LocalTypeOK
  <1>3. \/ mem' = mem \/ mem'[w] = Recovered
    BY <1>0, <1>1, EnsureCases
  <1>4. StatesAreGood(w)'
    BY <1>0, <1>2, <1>3, StatesStayGood DEF StatesAreGood, Engaged, Processing
  <1>5. MemoryFits(w)'
    <2> SUFFICES ASSUME NEW s \in Sessions, held'[w], lease'.owner = w
                 PROVE  Fits(mem'[w][s], sessions[s], Succeeded)
      BY <1>0, <1>1, <1>2, EnsureCases
         DEF MemoryFits, Serving, Processing, Current, Succeeded
    <2>1. CASE mem'[w] = Recovered
      BY <2>1, RecoveredFits
    <2>2. CASE held[w] /\ lease.owner = w /\ mem' = mem
      BY <1>0, <1>1, <2>2 DEF ProcessOK, MemoryFits, Current
    <2> QED
      BY <1>0, <1>1, <2>1, <2>2, EnsureCases
  <1> QED
    BY <1>2, <1>4, <1>5
       DEF ProcessOK, ClaimOutlivesWork, HeldUnlessLost, BeforeFits, WorkKept, Serving,
           Processing

LEMMA HeartbeatLeaseOK ==
    ASSUME SInv, NEW w \in Workers, WorkerStep(w), NEW t \in Nows, HeartbeatLease(w, t)
    PROVE  ProcessOK(w)'
  <1>0. TypeOK /\ LocalTypeOK /\ WorkInProgress /\ [Next]_storeVars /\ ProcessOK(w)
        /\ \A s \in Sessions : mem[w][s] \in States /\ sessions[s] \in States
    BY OwnStates
  <1>1. hb[w] = "wait" /\ UNCHANGED <<sessions, pc, work>> /\ EnsureLeadership(w, t)
    BY DEF HeartbeatLease
  <1>2. hb'[w] = IF held'[w] THEN "renew" ELSE "lost"
    BY <1>0 DEF HeartbeatLease, LocalTypeOK
  <1>3. Serving(w)
    BY <1>0, <1>1 DEF WorkInProgress, Serving
  <1>4. pc[w] = "raised" \/ (held[w] /\ mem' = mem)
    BY <1>0, <1>1, <1>3, EnsureCases DEF ProcessOK, HeldUnlessLost, Serving
  <1>5. StatesAreGood(w)'
    <2>1. mem' = mem \/ mem'[w] = Recovered
      BY <1>0, <1>1, EnsureCases
    <2> QED
      BY <1>0, <1>1, <2>1, StatesStayGood DEF StatesAreGood, Engaged, SessionAt
  <1>6. ClaimOutlivesWork(w)'
    BY <1>0, <1>1, <1>3, EnsureCases DEF ProcessOK, ClaimOutlivesWork, Serving
  <1>7. HeldUnlessLost(w)'
    BY <1>2 DEF HeldUnlessLost
  <1>8. MemoryFits(w)'
    <2> SUFFICES ASSUME NEW s \in Sessions,
                        pc[w] \in {"save", "raised", "failed"} => s # SessionAt(w)
                 PROVE  Fits(mem'[w][s], sessions[s], Succeeded)
      BY <1>0, <1>1, EnsureCases DEF MemoryFits, SessionAt, Succeeded
    <2>1. CASE mem'[w] = Recovered
      BY <2>1, RecoveredFits
    <2>2. CASE mem' = mem
      BY <1>0, <1>3, <2>2 DEF ProcessOK, MemoryFits
    <2> QED
      BY <1>0, <1>1, <2>1, <2>2, EnsureCases
  <1>9. BeforeFits(w)'
    BY <1>0, <1>1, <1>3, EnsureCases
       DEF ProcessOK, BeforeFits, Serving, SessionAt, Succeeded
  <1>10. WorkKept(w)'
    <2>1. hb'[w] # "lost" => hb[w] # "lost"
      BY <1>1
    <2>2. CASE pc[w] = "raised"
      BY <1>1, <2>2 DEF WorkKept
    <2>3. CASE mem' = mem
      BY <1>0, <1>1, <2>1, <2>3 DEF ProcessOK, WorkKept, SessionAt, Ended
    <2> QED
      BY <1>4, <2>2, <2>3
  <1> QED
    BY <1>5, <1>6, <1>7, <1>8, <1>9, <1>10 DEF ProcessOK

\* A failure inside the with block keeps the work for the except clause.
LEMMA RaisedWork ==
    ASSUME LocalTypeOK, NEW w \in Workers, NEW why, Raise(w, why)
    PROVE  /\ pc'[w] = "raised" /\ hb' = hb
           /\ work'[w].event = work[w].event /\ work'[w].before = work[w].before
           /\ work'[w].state = work[w].state
  <1>1. work[w] \in Works /\ work'[w] = [work[w] EXCEPT !.why = why]
    BY DEF Raise, LocalTypeOK
  <1> QED
    BY <1>1 DEF Raise, Goto, LocalTypeOK, Works

LEMMA LeadEventOK ==
    ASSUME SInv, NEW w \in Workers, WorkerStep(w), NEW t \in Nows, LeadEvent(w, t)
    PROVE  ProcessOK(w)'
  <1>0. TypeOK /\ LocalTypeOK /\ WorkInProgress /\ [Next]_storeVars /\ ProcessOK(w)
        /\ \A s \in Sessions : mem[w][s] \in States /\ sessions[s] \in States
    BY OwnStates
  <1>1. pc[w] \in {"lead1", "lead2"} /\ UNCHANGED <<sessions, hb>> /\ EnsureLeadership(w, t)
    BY DEF LeadEvent, Raise
  <1>2. Serving(w) /\ Engaged(w)
    BY <1>1 DEF Serving, Engaged, Processing
  <1>3. /\ work'[w].event = work[w].event /\ work'[w].before = work[w].before
        /\ work'[w].state = work[w].state
        /\ IF held'[w] THEN pc'[w] = (IF pc[w] = "lead1" THEN "renew1" ELSE "renew2")
           ELSE pc'[w] = "raised"
    <2>1. CASE Raise(w, "leader") /\ ~held'[w]
      BY <1>0, <2>1, RaisedWork
    <2>2. CASE /\ Goto(w, IF pc[w] = "lead1" THEN {"renew1"} ELSE {"renew2"})
               /\ UNCHANGED <<work, hb>> /\ held'[w]
      BY <1>0, <2>2 DEF Goto, LocalTypeOK
    <2> QED
      BY <2>1, <2>2 DEF LeadEvent
  <1>4. SessionAt(w)' = SessionAt(w) /\ Serving(w)' /\ Engaged(w)'
    BY <1>1, <1>3 DEF SessionAt, Serving, Engaged, Processing
  <1>5. mem' = mem \/ (~held[w] /\ held'[w] /\ mem'[w] = Recovered)
    BY <1>0, <1>1, EnsureCases
  <1>6. UNCHANGED <<clock, outcome, claim>> /\ lease'.owner = w
    <2>1. lease.owner = w
      BY <1>0, <1>1, <1>2 DEF ProcessOK, ClaimOutlivesWork
    <2> QED
      BY <1>0, <1>1, <2>1, EnsureCases
  <1>7. Succeeded' = Succeeded
    BY <1>6 DEF Succeeded
  <1>8. StatesAreGood(w)'
    BY <1>0, <1>1, <1>2, <1>3, <1>4, <1>5, StatesStayGood DEF StatesAreGood
  <1>9. ClaimOutlivesWork(w)'
    BY <1>0, <1>2, <1>3, <1>6 DEF ProcessOK, ClaimOutlivesWork
  <1>10. HeldUnlessLost(w)'
    BY <1>0, <1>1, <1>3 DEF ProcessOK, HeldUnlessLost, Processing
  <1>11. \A s \in Sessions : Fits(mem'[w][s], sessions[s], Succeeded)
    <2>1. CASE mem' = mem
      BY <1>0, <1>1, <1>2, <2>1 DEF ProcessOK, MemoryFits
    <2> QED
      BY <1>5, <2>1, RecoveredFits
  <1>12. MemoryFits(w)'
    <2> SUFFICES ASSUME NEW s \in Sessions PROVE Fits(mem'[w][s], sessions'[s], Succeeded')
      BY DEF MemoryFits
    <2> QED
      BY <1>1, <1>7, <1>11
  <1>13. BeforeFits(w)'
    BY <1>0, <1>1, <1>2, <1>3, <1>4, <1>7 DEF ProcessOK, BeforeFits
  <1>14. WorkKept(w)'
    <2>0. SessionAt(w) \in Sessions
      BY <1>2, ServingFacts
    <2>1. CASE ~held'[w]
      BY <1>3, <2>1 DEF WorkKept
    <2>2. CASE held'[w] /\ pc[w] = "lead1"
      <3>1. hb[w] # "lost" => held[w]
        BY <1>0, <2>2 DEF ProcessOK, HeldUnlessLost, Processing
      <3>2. hb[w] # "lost" => mem' = mem
        BY <1>5, <3>1
      <3> QED
        BY <1>0, <1>1, <1>3, <1>4, <2>2, <3>2 DEF ProcessOK, WorkKept
    <2>3. CASE held'[w] /\ pc[w] = "lead2"
      <3>1. /\ sessions[SessionAt(w)] = work[w].state
            /\ mem[w][SessionAt(w)] = work[w].state
            /\ work[w].state # <<>> /\ work[w].state[Len(work[w].state)] = work[w].event
        BY <1>0, <2>3 DEF ProcessOK, WorkKept
      <3>2. \/ mem'[w][SessionAt(w)] = work[w].state
            \/ Ended(work[w].state) /\ mem'[w][SessionAt(w)] = <<>>
        BY <1>5, <2>0, <3>1 DEF Recovered
      <3>3. pc'[w] = "renew2"
        BY <1>3, <2>3
      <3> QED
        BY <1>1, <1>3, <1>4, <3>1, <3>2, <3>3 DEF WorkKept, Ended
    <2> QED
      BY <1>1, <2>1, <2>2, <2>3
  <1> QED
    BY <1>8, <1>9, <1>10, <1>12, <1>13, <1>14 DEF ProcessOK

\* Only a completion makes another event succeed.
LEMMA SucceededStays ==
    ASSUME SInv, NEW w \in Workers, WorkerStep(w)
    PROVE  /\ pc[w] # "complete" => Succeeded' \subseteq Succeeded
           /\ Succeeded' \subseteq Succeeded \cup {work[w].event}
  BY Succeeds DEF Succeeded, SInv, WIInv

\* A claim taken or renewed now lasts beyond now.
LEMMA FreshClaim ==
    ASSUME TypeOK, NoStall, NEW t \in Nows
    PROVE  t \in Nat /\ t + LeaseSeconds > clock
  BY StoreAssumption DEF NoStall, Nows, TypeOK

LEMMA ClaimOK ==
    ASSUME SInv, NoStall, NEW w \in Workers, WorkerStep(w), NEW t \in Nows, Claim(w, t)
    PROVE  ProcessOK(w)'
  <1>0. TypeOK /\ LocalTypeOK /\ WorkInProgress /\ [Next]_storeVars /\ ProcessOK(w)
        /\ \A s \in Sessions : mem[w][s] \in States /\ sessions[s] \in States
    BY OwnStates
  <1>1. pc[w] = "claim" /\ UNCHANGED <<sessions, held, mem, lease, clock>>
    BY DEF Claim, ClaimEvents, storeVars
  <1>2. hb[w] = "off" /\ held[w]
    BY <1>0, <1>1 DEF WorkInProgress, Processing, ProcessOK, HeldUnlessLost, LocalTypeOK
  <1>3. Succeeded' \subseteq Succeeded
    BY <1>1, SucceededStays
  <1>4. \A s \in Sessions : Good(mem[w][s], s, recv', attempts')
    BY <1>0, StatesStayGood
  <1>5. CASE Leads(w, t + LeaseSeconds) /\ FirstValid(t) # {}
    <2>1. PICK e \in FirstValid(t) :
             /\ work' = [work EXCEPT ![w] =
                           [event |-> e, token |-> attempts[e] + 1,
                            before |-> mem[w][SessionOf[e]],
                            state |-> <<>>, why |-> ""]]
             /\ hb' = [hb EXCEPT ![w] = "wait"]
             /\ pc' = [pc EXCEPT ![w] = "lead1"]
      BY <1>5 DEF Claim, Goto
    <2>2. e \in Events /\ SessionOf[e] \in Sessions
      BY <1>0, <2>1, TokenLemma, StoreAssumption
    <2>3. /\ pc'[w] = "lead1" /\ work'[w].event = e
          /\ work'[w].before = mem[w][SessionOf[e]] /\ work'[w].state = <<>>
          /\ hb'[w] = "wait"
      BY <1>0, <2>1 DEF LocalTypeOK
    <2>4. SessionAt(w)' = SessionOf[e]
      BY <2>3 DEF SessionAt
    <2>5. StatesAreGood(w)'
      BY <1>1, <1>4, <2>2, <2>3, <2>4, EmptyGood DEF StatesAreGood
    <2>6. Current(w)
      BY <1>2, <1>5 DEF Current, Leads
    <2>7. ClaimOutlivesWork(w)'
      <3>1. ClaimEvents(w, t)
        BY <1>5 DEF Claim
      <3>2. claim'[e] = [owner |-> w, token |-> attempts[e] + 1, exp |-> t + LeaseSeconds]
        BY <1>0, <2>1, <2>2, <3>1, ClaimLemma
      <3>3. t + LeaseSeconds > clock
        BY <1>0, FreshClaim
      <3>4. claim'[e].owner = w /\ claim'[e].exp > clock
        BY <3>2, <3>3
      <3> QED
        BY <1>1, <2>3, <2>6, <3>4 DEF ClaimOutlivesWork, Current
    <2>8. \A s \in Sessions : Fits(mem[w][s], sessions[s], Succeeded')
      <3>1. \A s \in Sessions : Fits(mem[w][s], sessions[s], Succeeded)
        BY <1>0, <1>1, <2>6 DEF ProcessOK, MemoryFits
      <3> QED
        BY <1>3, <3>1, StillFits
    <2>9. MemoryFits(w)'
      <3> SUFFICES ASSUME NEW s \in Sessions PROVE Fits(mem'[w][s], sessions'[s], Succeeded')
        BY DEF MemoryFits
      <3> QED
        BY <1>1, <2>8
    <2>10. BeforeFits(w)'
      BY <1>1, <2>2, <2>3, <2>4, <2>8 DEF BeforeFits
    <2> QED
      BY <1>1, <1>2, <2>3, <2>4, <2>5, <2>7, <2>9, <2>10
         DEF ProcessOK, HeldUnlessLost, WorkKept
  <1>6. CASE ~(Leads(w, t + LeaseSeconds) /\ FirstValid(t) # {})
    <2>1. pc'[w] = "batch end"
      BY <1>0, <1>6 DEF Claim, Goto, LocalTypeOK
    <2>2. ~Serving(w)' /\ ~Engaged(w)'
      BY <2>1 DEF Serving, Engaged, Processing
    <2>3. MemoryFits(w)'
      <3> SUFFICES ASSUME NEW s \in Sessions, Current(w)
                   PROVE  Fits(mem'[w][s], sessions'[s], Succeeded')
        BY <1>1, <2>2 DEF MemoryFits, Current
      <3>1. Fits(mem[w][s], sessions[s], Succeeded)
        BY <1>0, <1>1 DEF ProcessOK, MemoryFits
      <3> QED
        BY <1>1, <1>3, <3>1, StillFits
    <2> QED
      BY <1>1, <1>4, <2>1, <2>2, <2>3
         DEF ProcessOK, StatesAreGood, ClaimOutlivesWork, HeldUnlessLost, BeforeFits,
             WorkKept, Processing
  <1> QED
    BY <1>5, <1>6

\* A step that keeps the place of the work, the memory and the rows, and lets the
\* claim stand, keeps what the claim protects.
LEMMA QuietStep ==
    ASSUME SInv, NEW w \in Workers, WorkerStep(w), Serving(w), pc[w] # "complete",
           UNCHANGED <<sessions, lease, clock>>, mem'[w] = mem[w],
           work'[w].event = work[w].event, work'[w].before = work[w].before,
           work'[w].state = work[w].state,
           \/ pc'[w] = pc[w]
           \/ pc[w] = "renew1" /\ pc'[w] = "apply"
           \/ pc[w] = "renew2" /\ pc'[w] = "complete",
           claim'[work[w].event].owner = w /\ claim'[work[w].event].exp > clock
    PROVE  StatesAreGood(w)' /\ ClaimOutlivesWork(w)' /\ MemoryFits(w)' /\ BeforeFits(w)'
  <1>0. TypeOK /\ LocalTypeOK /\ WorkInProgress /\ [Next]_storeVars /\ ProcessOK(w)
        /\ \A s \in Sessions : mem[w][s] \in States /\ sessions[s] \in States
    BY OwnStates
  <1>1. SessionAt(w)' = SessionAt(w) /\ Engaged(w) /\ SessionAt(w) \in Sessions
    BY ServingFacts DEF SessionAt, Serving, Engaged
  <1>2. Succeeded' \subseteq Succeeded
    BY SucceededStays
  <1>3. StatesAreGood(w)'
    BY <1>0, <1>1, StatesStayGood DEF StatesAreGood
  <1>4. ClaimOutlivesWork(w)'
    BY <1>0 DEF ProcessOK, ClaimOutlivesWork
  <1>5. MemoryFits(w)'
    <2> SUFFICES ASSUME NEW s \in Sessions,
                        pc'[w] \in {"save", "raised", "failed"} => s # SessionAt(w)
                 PROVE  Fits(mem'[w][s], sessions'[s], Succeeded')
      BY <1>1 DEF MemoryFits
    <2>1. pc[w] \in {"save", "raised", "failed"} => s # SessionAt(w)
      OBVIOUS
    <2>2. Fits(mem[w][s], sessions[s], Succeeded)
      BY <1>0, <2>1 DEF ProcessOK, MemoryFits
    <2> QED
      BY <1>2, <2>2, StillFits
  <1>6. BeforeFits(w)'
    <2>1. Fits(work[w].before, sessions[SessionAt(w)], Succeeded)
      BY <1>0 DEF ProcessOK, BeforeFits
    <2>2. Fits(work[w].before, sessions[SessionAt(w)], Succeeded')
      BY <1>2, <2>1, StillFits
    <2> QED
      BY <1>1, <2>2 DEF BeforeFits
  <1> QED
    BY <1>3, <1>4, <1>5, <1>6

\* So a failure inside the with block keeps everything for the except clause.
LEMMA QuietFailure ==
    ASSUME SInv, NEW w \in Workers, WorkerStep(w), Serving(w),
           UNCHANGED <<sessions, clock, outcome>>, mem'[w] = mem[w],
           lease' = lease \/ lease'.owner \in {w, NoWorker},
           work'[w].event = work[w].event, work'[w].before = work[w].before,
           work'[w].state = work[w].state, pc'[w] \in {"raised", "failed"},
           claim'[work[w].event].owner = w, claim'[work[w].event].exp > clock
    PROVE  ProcessOK(w)'
  <1>0. [Next]_storeVars /\ ProcessOK(w)
    BY OwnStates
  <1>1. SessionAt(w)' = SessionAt(w) /\ Engaged(w)
    BY DEF SessionAt, Serving, Engaged
  <1>2. Succeeded' = Succeeded
    BY DEF Succeeded
  <1>3. StatesAreGood(w)'
    BY <1>0, <1>1, StatesStayGood DEF StatesAreGood
  <1>4. ClaimOutlivesWork(w)'
    BY <1>0 DEF ProcessOK, ClaimOutlivesWork, Serving, Processing
  <1>5. MemoryFits(w)'
    <2> SUFFICES ASSUME NEW s \in Sessions, s # SessionAt(w)
                 PROVE  Fits(mem'[w][s], sessions'[s], Succeeded')
      BY <1>1 DEF MemoryFits
    <2> QED
      BY <1>0, <1>2 DEF ProcessOK, MemoryFits
  <1>6. BeforeFits(w)'
    BY <1>0, <1>1, <1>2 DEF ProcessOK, BeforeFits
  <1> QED
    BY <1>3, <1>4, <1>5, <1>6 DEF ProcessOK, WorkKept, HeldUnlessLost, Processing

LEMMA RenewalOK ==
    ASSUME SInv, NoStall, NEW w \in Workers, WorkerStep(w), NEW t \in Nows,
           RenewClaim(w, t) \/ HeartbeatClaim(w, t)
    PROVE  ProcessOK(w)'
  <1>0. TypeOK /\ LocalTypeOK /\ WorkInProgress /\ [Next]_storeVars /\ ProcessOK(w)
        /\ \A s \in Sessions : mem[w][s] \in States /\ sessions[s] \in States
    BY OwnStates
  <1>1. /\ UNCHANGED <<sessions, held, mem>>
        /\ RenewEventClaim(w, work[w].event, work[w].token, t) \/ UNCHANGED storeVars
    BY DEF RenewClaim, HeartbeatClaim
  <1>2. Serving(w)
    BY <1>0 DEF RenewClaim, HeartbeatClaim, WorkInProgress, Serving, Processing
  <1>3. /\ UNCHANGED <<lease, clock, outcome>>
        /\ claim'[work[w].event].owner = w /\ claim'[work[w].event].exp > clock
    <2>1. work[w].event \in Events
      BY <1>2, ServingFacts DEF Serving, Engaged
    <2>2. claim[work[w].event].owner = w /\ claim[work[w].event].exp > clock
      BY <1>0, <1>2 DEF ProcessOK, ClaimOutlivesWork
    <2>3. CASE UNCHANGED storeVars
      BY <2>2, <2>3 DEF storeVars
    <2>4. CASE RenewEventClaim(w, work[w].event, work[w].token, t)
      <3>1. claim' = [claim EXCEPT ![work[w].event].exp = t + LeaseSeconds]
        BY <2>4 DEF RenewEventClaim
      <3>2. t + LeaseSeconds > clock
        BY <1>0, FreshClaim
      <3>3. claim[work[w].event] \in [owner : Workers \cup {NoWorker}, token : Nat, exp : Nat]
        BY <1>0, <2>1 DEF TypeOK
      <3>4. claim'[work[w].event] = [claim[work[w].event] EXCEPT !.exp = t + LeaseSeconds]
        BY <1>0, <2>1, <3>1 DEF TypeOK
      <3> QED
        BY <2>2, <2>4, <3>2, <3>3, <3>4 DEF RenewEventClaim
    <2> QED
      BY <1>1, <2>3, <2>4
  <1>4. CASE HeartbeatClaim(w, t)
    <2>1. /\ UNCHANGED <<pc, work>> /\ (hb'[w] # "lost" => hb[w] # "lost")
          /\ hb'[w] # "unled"
      BY <1>0, <1>4 DEF HeartbeatClaim, LocalTypeOK
    <2>2. /\ StatesAreGood(w)' /\ ClaimOutlivesWork(w)' /\ MemoryFits(w)' /\ BeforeFits(w)'
      <3>1. CASE pc[w] # "complete"
        <4>1. /\ UNCHANGED <<sessions, lease, clock>> /\ mem'[w] = mem[w]
              /\ work'[w].event = work[w].event /\ work'[w].before = work[w].before
              /\ work'[w].state = work[w].state /\ pc'[w] = pc[w]
          BY <1>1, <1>3, <2>1
        <4> QED
          BY <1>2, <1>3, <3>1, <4>1, QuietStep
      <3>2. CASE pc[w] = "complete"
        <4>1. Succeeded' = Succeeded
          BY <1>3 DEF Succeeded
        <4>2. StatesAreGood(w)'
          BY <1>0, <1>1, <2>1, StatesStayGood DEF StatesAreGood, Engaged, SessionAt
        <4>3. SessionAt(w)' = SessionAt(w)
          BY <2>1 DEF SessionAt
        <4>4. ClaimOutlivesWork(w)'
          BY <1>0, <1>2, <1>3, <2>1 DEF ClaimOutlivesWork, ProcessOK
        <4>5. MemoryFits(w)'
          BY <1>0, <1>1, <1>2, <2>1, <3>2, <4>1, <4>3 DEF ProcessOK, MemoryFits
        <4>6. BeforeFits(w)'
          BY <1>0, <1>1, <1>2, <2>1, <4>1, <4>3 DEF ProcessOK, BeforeFits
        <4> QED
          BY <4>2, <4>4, <4>5, <4>6
      <3> QED
        BY <3>1, <3>2
    <2>3. HeldUnlessLost(w)' /\ WorkKept(w)'
      BY <1>0, <1>1, <2>1 DEF ProcessOK, HeldUnlessLost, WorkKept, SessionAt, Ended
    <2> QED
      BY <2>2, <2>3 DEF ProcessOK
  <1>5. CASE RenewClaim(w, t)
    <2>1. pc[w] \in {"renew1", "renew2"} /\ hb' = hb
      BY <1>5 DEF RenewClaim, Raise
    <2>2. CASE Raise(w, "lease")
      <3>1. /\ pc'[w] = "raised" /\ hb' = hb
            /\ work'[w].event = work[w].event /\ work'[w].before = work[w].before
            /\ work'[w].state = work[w].state
        BY <1>0, <2>2, RaisedWork
      <3>2. UNCHANGED <<sessions, lease, clock, outcome>> /\ mem'[w] = mem[w]
        BY <1>1, <1>3
      <3> QED
        BY <1>2, <1>3, <3>1, <3>2, QuietFailure
    <2>3. CASE /\ Goto(w, IF pc[w] = "renew1" THEN {"apply"} ELSE {"complete"})
               /\ UNCHANGED <<work, hb>> /\ hb[w] # "lost"
      <3>1. pc'[w] = (IF pc[w] = "renew1" THEN "apply" ELSE "complete")
        BY <1>0, <2>3 DEF Goto, LocalTypeOK
      <3>2. StatesAreGood(w)' /\ ClaimOutlivesWork(w)' /\ MemoryFits(w)' /\ BeforeFits(w)'
        <4>1. /\ UNCHANGED <<sessions, lease, clock>> /\ mem'[w] = mem[w]
              /\ work'[w].event = work[w].event /\ work'[w].before = work[w].before
              /\ work'[w].state = work[w].state /\ pc[w] # "complete"
          BY <1>1, <1>3, <2>1, <2>3
        <4> QED
          BY <1>2, <1>3, <2>1, <3>1, <4>1, QuietStep
      <3>3. WorkKept(w)' /\ HeldUnlessLost(w)'
        BY <1>0, <1>1, <2>1, <2>3, <3>1
           DEF ProcessOK, WorkKept, HeldUnlessLost, Processing, SessionAt, Ended
      <3> QED
        BY <3>2, <3>3 DEF ProcessOK
    <2> QED
      BY <1>5, <2>2, <2>3 DEF RenewClaim
  <1> QED
    BY <1>4, <1>5

LEMMA HeartbeatErrorOK ==
    ASSUME SInv, NEW w \in Workers, WorkerStep(w), HeartbeatError(w)
    PROVE  ProcessOK(w)'
  <1>0. TypeOK /\ LocalTypeOK /\ WorkInProgress /\ [Next]_storeVars /\ ProcessOK(w)
        /\ \A s \in Sessions : mem[w][s] \in States /\ sessions[s] \in States
    BY OwnStates
  <1>1. /\ UNCHANGED <<clock, recv, outcome, attempts, claim, lease, sessions, pc, mem, work>>
        /\ hb[w] \in {"wait", "renew"} /\ hb'[w] = "lost"
    BY <1>0 DEF HeartbeatError, storeVars, LocalTypeOK
  <1>2. Serving(w) /\ Succeeded' = Succeeded /\ SessionAt(w)' = SessionAt(w)
    BY <1>0, <1>1 DEF WorkInProgress, Serving, Succeeded, SessionAt
  <1>3. StatesAreGood(w)' /\ ClaimOutlivesWork(w)'
    BY <1>0, <1>1, <1>2 DEF ProcessOK, StatesAreGood, ClaimOutlivesWork, Engaged, Serving
  <1>4. MemoryFits(w)' /\ BeforeFits(w)'
    BY <1>0, <1>1, <1>2 DEF ProcessOK, MemoryFits, BeforeFits
  <1>5. HeldUnlessLost(w)' /\ WorkKept(w)'
    BY <1>0, <1>1, <1>2 DEF ProcessOK, HeldUnlessLost, WorkKept, Ended
  <1> QED
    BY <1>3, <1>4, <1>5 DEF ProcessOK

LEMMA FailureOK ==
    ASSUME SInv, NEW w \in Workers, WorkerStep(w), Error(w) \/ Exit(w)
    PROVE  ProcessOK(w)'
  <1>0. TypeOK /\ LocalTypeOK /\ WorkInProgress /\ [Next]_storeVars /\ ProcessOK(w)
        /\ \A s \in Sessions : mem[w][s] \in States /\ sessions[s] \in States
    BY OwnStates
  <1>1. /\ UNCHANGED <<sessions, lease, clock, outcome, claim>> /\ mem'[w] = mem[w]
        /\ Serving(w)
    BY DEF Error, Exit, storeVars, Serving
  <1>2. /\ work'[w].event = work[w].event /\ work'[w].before = work[w].before
        /\ work'[w].state = work[w].state /\ pc'[w] \in {"raised", "failed"}
    <2>1. CASE Error(w)
      BY <1>0, <2>1, RaisedWork DEF Error
    <2>2. CASE Exit(w)
      BY <1>0, <2>2 DEF Exit, Goto, LocalTypeOK
    <2> QED
      BY <2>1, <2>2
  <1>3. claim'[work[w].event].owner = w /\ claim'[work[w].event].exp > clock
    BY <1>0, <1>1 DEF ProcessOK, ClaimOutlivesWork
  <1> QED
    BY <1>1, <1>2, <1>3, QuietFailure

\* A recovery that fails takes the lease and gives it back behind a claim that keeps
\* all other processes out.
LEMMA RecoveryOK ==
    ASSUME SInv, NEW w \in Workers, WorkerStep(w), NEW t \in Nows,
           \/ RecoveryFails(w, t) \/ GiveLeaseBack(w, t)
           \/ HeartbeatRecoveryFails(w, t) \/ HeartbeatGivesBack(w, t)
    PROVE  ProcessOK(w)'
  <1>0. TypeOK /\ LocalTypeOK /\ WorkInProgress /\ ProcessOK(w)
    BY OwnStates
  <1>1. /\ UNCHANGED <<sessions, clock, outcome, claim>> /\ mem'[w] = mem[w]
        /\ lease' = lease \/ lease'.owner \in {w, NoWorker}
    BY DEF RecoveryFails, GiveLeaseBack, HeartbeatRecoveryFails, HeartbeatGivesBack,
           AcquireWorkerLease, ReleaseWorkerLease, NoLease, storeVars
  <1>2. Serving(w)
    BY <1>0 DEF RecoveryFails, GiveLeaseBack, HeartbeatRecoveryFails, HeartbeatGivesBack,
                WorkInProgress, Serving, Processing
  <1>3. /\ work'[w].event = work[w].event /\ work'[w].before = work[w].before
        /\ work'[w].state = work[w].state /\ pc'[w] = "raised"
    <2>1. CASE RecoveryFails(w, t)
      BY <1>0, <2>1, RaisedWork DEF RecoveryFails
    <2>2. CASE GiveLeaseBack(w, t)
      BY <1>0, <2>2, WhyOnly DEF GiveLeaseBack
    <2>3. CASE HeartbeatRecoveryFails(w, t) \/ HeartbeatGivesBack(w, t)
      <3>1. UNCHANGED <<pc, work>>
        BY <2>3 DEF HeartbeatRecoveryFails, HeartbeatGivesBack
      <3>2. pc[w] \notin Processing
        BY <1>0, <2>3 DEF HeartbeatRecoveryFails, HeartbeatGivesBack, ProcessOK,
                          HeldUnlessLost
      <3> QED
        BY <1>2, <3>1, <3>2 DEF Serving
    <2> QED
      BY <2>1, <2>2, <2>3
  <1>4. claim'[work[w].event].owner = w /\ claim'[work[w].event].exp > clock
    BY <1>0, <1>1, <1>2 DEF ProcessOK, ClaimOutlivesWork
  <1> QED
    BY <1>1, <1>2, <1>3, <1>4, QuietFailure

\* The work is done with: what is left is the memory.
LEMMA FinishedOK ==
    ASSUME SInv, NEW w \in Workers, WorkerStep(w), mem'[w] = mem[w],
           pc'[w] \in {"lead", "batch end", "closing"},
           \A s \in Sessions : Current(w)' => Fits(mem[w][s], sessions'[s], Succeeded')
    PROVE  ProcessOK(w)'
  <1>0. [Next]_storeVars
    BY OwnStates
  <1>1. ~Engaged(w)' /\ ~Serving(w)'
    BY DEF Engaged, Serving, Processing
  <1>2. StatesAreGood(w)'
    BY <1>0, <1>1, StatesStayGood DEF StatesAreGood
  <1>3. MemoryFits(w)'
    BY <1>1 DEF MemoryFits
  <1> QED
    BY <1>1, <1>2, <1>3
       DEF ProcessOK, ClaimOutlivesWork, HeldUnlessLost, BeforeFits, WorkKept, Processing

LEMMA ReleaseOnStopOK ==
    ASSUME SInv, NEW w \in Workers, WorkerStep(w), NEW t \in Nows, ReleaseOnStop(w, t)
    PROVE  ProcessOK(w)'
  <1>0. TypeOK /\ LocalTypeOK /\ WorkInProgress /\ [Next]_storeVars /\ ProcessOK(w)
        /\ \A s \in Sessions : mem[w][s] \in States /\ sessions[s] \in States
    BY OwnStates
  <1>1. pc[w] = "lead1" /\ UNCHANGED <<sessions, mem>> /\ Succeeded' \subseteq Succeeded
    BY SucceededStays DEF ReleaseOnStop
  <1>2. pc'[w] = "closing"
    BY <1>0 DEF ReleaseOnStop, Finish, Goto, LocalTypeOK
  <1>3. ASSUME NEW s \in Sessions PROVE Fits(mem[w][s], sessions'[s], Succeeded')
    <2>1. Fits(mem[w][s], sessions[s], Succeeded)
      BY <1>0, <1>1 DEF ProcessOK, MemoryFits, Serving, Processing
    <2> QED
      BY <1>1, <2>1, StillFits
  <1> QED
    BY <1>1, <1>2, <1>3, FinishedOK

LEMMA CompleteOK ==
    ASSUME SInv, NEW w \in Workers, WorkerStep(w), NEW t \in Nows, Complete(w, t)
    PROVE  ProcessOK(w)'
  <1>0. TypeOK /\ LocalTypeOK /\ WorkInProgress /\ [Next]_storeVars /\ ProcessOK(w)
        /\ \A s \in Sessions : mem[w][s] \in States /\ sessions[s] \in States
    BY OwnStates
  <1>1. /\ pc[w] = "complete" /\ UNCHANGED <<sessions, mem>>
        /\ Serving(w) /\ Engaged(w)
    BY DEF Complete, Serving, Engaged, Processing
  <1>2. CASE Raise(w, "lease") /\ UNCHANGED storeVars
    <2>1. UNCHANGED <<sessions, lease, clock, outcome, claim>> /\ mem'[w] = mem[w]
      BY <1>1, <1>2 DEF storeVars
    <2>2. /\ pc'[w] = "raised"
          /\ work'[w].event = work[w].event /\ work'[w].before = work[w].before
          /\ work'[w].state = work[w].state
      BY <1>0, <1>2, RaisedWork
    <2>3. claim'[work[w].event].owner = w /\ claim'[work[w].event].exp > clock
      BY <1>0, <1>1, <2>1 DEF ProcessOK, ClaimOutlivesWork
    <2> QED
      BY <1>1, <2>1, <2>2, <2>3, QuietFailure
  <1>3. CASE Finish(w, {"lead", "batch end"})
    <2>1. pc'[w] \in {"lead", "batch end"}
      BY <1>0, <1>3 DEF Finish, Goto, LocalTypeOK
    <2>2. Succeeded' \subseteq Succeeded \cup {work[w].event}
      BY SucceededStays
    <2>3. ASSUME NEW s \in Sessions PROVE Fits(mem[w][s], sessions[s], Succeeded')
      <3>1. CASE s = SessionAt(w)
        BY <1>0, <1>1, <3>1 DEF ProcessOK, WorkKept, Fits
      <3>2. CASE s # SessionAt(w)
        <4>1. Fits(mem[w][s], sessions[s], Succeeded)
          BY <1>0, <1>1 DEF ProcessOK, MemoryFits
        <4>2. ASSUME NEW x \in Events, sessions[s] = Append(mem[w][s], x)
              PROVE  x # work[w].event
          <5>1. \E i \in DOMAIN sessions[s] : sessions[s][i] = x
            <6>1. Len(mem[w][s]) + 1 \in DOMAIN Append(mem[w][s], x)
                  /\ Append(mem[w][s], x)[Len(mem[w][s]) + 1] = x
              BY <1>0 DEF States
            <6> QED
              BY <4>2, <6>1
          <5>2. SessionOf[x] = s
            BY <5>1 DEF SInv, RowsAreGood, Good
          <5> QED
            BY <3>2, <5>2 DEF SessionAt
        <4>3. CASE \E x \in Events \ Succeeded : sessions[s] = Append(mem[w][s], x)
          <5>1. PICK x \in Events \ Succeeded : sessions[s] = Append(mem[w][s], x)
            BY <4>3
          <5>2. x \in Events \ Succeeded'
            BY <2>2, <4>2, <5>1
          <5> QED
            BY <5>1, <5>2 DEF Fits
        <4> QED
          BY <4>1, <4>3 DEF Fits
      <3> QED
        BY <3>1, <3>2
    <2>4. \A s \in Sessions : Current(w)' => Fits(mem[w][s], sessions'[s], Succeeded')
      BY <1>1, <2>3
    <2> QED
      BY <1>1, <2>1, <2>4, FinishedOK
  <1> QED
    BY <1>2, <1>3 DEF Complete

\* The queue serves the event under way last of its session, so a state that
\* contains it ends with it.
LEMMA HeadIsLast ==
    ASSUME SInv, NEW w \in Workers, Serving(w), NEW st \in States,
           Good(st, SessionAt(w), recv, attempts),
           NEW i \in DOMAIN st, st[i] = work[w].event
    PROVE  i = Len(st) /\ st # <<>>
  <1> DEFINE e == work[w].event
             n == Len(st)
  <1>1. /\ e \in Events /\ SessionAt(w) = SessionOf[e] /\ Pending(e) /\ Engaged(w)
    BY ServingFacts DEF Serving, Engaged
  <1>2. n \in Nat /\ DOMAIN st = 1..n /\ i \in 1..n /\ n \in DOMAIN st /\ st[n] \in Events
    BY DEF States
  <1> SUFFICES ASSUME i # n PROVE FALSE
    BY <1>2
  <1>3. recv[e] < recv[st[n]] /\ SessionOf[st[n]] = SessionOf[e] /\ attempts[st[n]] > 0
    BY <1>1, <1>2 DEF Good
  <1>4. Precedes(e, st[n])
    BY <1>3 DEF Precedes
  <1>5. outcome[e] \in Terminal
    BY <1>1, <1>2, <1>3, <1>4 DEF SInv, IInv, SessionsAreServedInOrder, Pending
  <1> QED
    BY <1>1, <1>5 DEF Pending, Terminal

LEMMA ApplyOK ==
    ASSUME SInv, NEW w \in Workers, WorkerStep(w), Apply(w)
    PROVE  ProcessOK(w)'
  <1> DEFINE s == SessionAt(w)
             e == work[w].event
             m == mem[w][s]
             row == sessions[s]
  <1>0. TypeOK /\ LocalTypeOK /\ WorkInProgress /\ [Next]_storeVars /\ ProcessOK(w)
        /\ \A r \in Sessions : mem[w][r] \in States /\ sessions[r] \in States
    BY OwnStates
  <1>1. /\ pc[w] = "apply" /\ Serving(w) /\ Engaged(w)
        /\ UNCHANGED <<storeVars, sessions, held, hb>>
    BY DEF Apply, Serving, Engaged, Processing
  <1>2. /\ e \in Events /\ s \in Sessions /\ SessionOf[e] = s /\ Pending(e)
        /\ attempts[e] > 0 /\ m \in States /\ row \in States
    BY <1>1, ServingFacts
  <1>3. m = work[w].before
    BY <1>0, <1>1 DEF ProcessOK, WorkKept
  <1>4. PICK state \in States :
           /\ state = IF Durable(w) THEN row ELSE Append(m, e)
           /\ mem' = [mem EXCEPT ![w][s] = state]
           /\ work' = [work EXCEPT ![w].state = state]
    <2>1. row \in States /\ Append(m, e) \in States
      BY <1>2, AppendState
    <2> QED
      BY <2>1 DEF Apply
  <1>5. /\ pc'[w] = "save" /\ work'[w].event = e /\ work'[w].before = work[w].before
        /\ work'[w].state = state /\ mem'[w][s] = state
        /\ \A r \in Sessions : r # s => mem'[w][r] = mem[w][r]
    <2>1. pc'[w] = "save"
      BY <1>0 DEF Apply, Goto, LocalTypeOK
    <2>2. work[w] \in Works /\ work'[w] = [work[w] EXCEPT !.state = state]
      BY <1>0, <1>4 DEF LocalTypeOK
    <2>3. mem[w] \in [Sessions -> States] /\ mem'[w] = [mem[w] EXCEPT ![s] = state]
      BY <1>0, <1>4 DEF LocalTypeOK
    <2>4. /\ work'[w].event = e /\ work'[w].before = work[w].before
          /\ work'[w].state = state
      BY <2>2 DEF Works
    <2>5. mem'[w][s] = state /\ \A r \in Sessions : r # s => mem'[w][r] = mem[w][r]
      BY <1>2, <2>3
    <2> QED
      BY <2>1, <2>4, <2>5
  <1>6. /\ SessionAt(w)' = s /\ Succeeded' = Succeeded
        /\ UNCHANGED <<clock, recv, outcome, attempts, claim, lease>>
    BY <1>1, <1>5 DEF SessionAt, Succeeded, storeVars
  <1>7. Good(m, s, recv, attempts) /\ Good(row, s, recv, attempts)
    BY <1>0, <1>1, <1>2 DEF ProcessOK, StatesAreGood, SInv, RowsAreGood
  <1>8. Good(state, s, recv, attempts)
    <2>1. CASE Durable(w)
      BY <1>4, <1>7, <2>1
    <2>2. CASE ~Durable(w)
      <3>1. Fits(m, row, Succeeded)
        BY <1>0, <1>1, <1>2 DEF ProcessOK, MemoryFits
      <3>2. \A i \in DOMAIN row : row[i] = e => i = Len(row) /\ Durable(w)
        BY <1>1, <1>2, <1>7, HeadIsLast DEF Durable
      <3>3. \A i \in DOMAIN m : m[i] # e
        <4>1. CASE m = row
          BY <2>2, <3>2, <4>1
        <4>2. CASE \E x \in Events : row = Append(m, x)
          <5>1. PICK x \in Events : row = Append(m, x)
            BY <4>2
          <5>2. \A i \in DOMAIN m : i \in DOMAIN row /\ row[i] = m[i]
            BY <1>2, <5>1 DEF States
          <5> QED
            BY <2>2, <3>2, <5>2
        <4>3. CASE m = <<>>
          BY <4>3
        <4> QED
          BY <3>1, <4>1, <4>2, <4>3 DEF Fits
      <3>4. ASSUME NEW i \in DOMAIN m PROVE recv[m[i]] < recv[e]
        <4> DEFINE x == m[i]
        <4>1. x \in Events /\ SessionOf[x] = s /\ attempts[x] > 0 /\ x # e
          BY <1>2, <1>7, <3>3 DEF Good, States
        <4>2. recv[x] # 0 /\ recv[e] # 0
          BY <1>2, <4>1 DEF SInv, IInv, UnstoredIsUntouched, Pending, TypeOK
        <4>3. ~Precedes(e, x)
          BY <1>2, <4>1, <4>2 DEF SInv, IInv, SessionsAreServedInOrder, Pending, Terminal
        <4>4. recv[x] \in Nat /\ recv[e] \in Nat /\ x \in Nat /\ e \in Nat
          BY <1>0, <1>2, <4>1, WorkerAssumption, StoreAssumption DEF TypeOK
        <4>5. recv[x] <= recv[e]
          BY <1>2, <4>1, <4>3, <4>4 DEF Precedes
        <4>6. x < e => recv[x] < recv[e]
          BY <1>2, <4>1, <4>2 DEF SInv, ArrivedInOrder
        <4>7. e < x => recv[e] < recv[x]
          BY <1>2, <4>1, <4>2 DEF SInv, ArrivedInOrder
        <4> QED
          BY <4>1, <4>4, <4>5, <4>6, <4>7
      <3>5. recv \in [Events -> Nat] /\ attempts \in [Events -> Nat]
        BY <1>0, StoreAssumption DEF TypeOK
      <3>6. Good(Append(m, e), s, recv, attempts)
        BY <1>2, <1>7, <3>4, <3>5, AppendGood
      <3> QED
        BY <1>4, <2>2, <3>6
    <2> QED
      BY <2>1, <2>2
  <1>9. StatesAreGood(w)'
    BY <1>0, <1>1, <1>5, <1>6, <1>8 DEF ProcessOK, StatesAreGood
  <1>10. ClaimOutlivesWork(w)'
    BY <1>0, <1>1, <1>5, <1>6 DEF ProcessOK, ClaimOutlivesWork
  <1>11. HeldUnlessLost(w)'
    BY <1>0, <1>1, <1>5 DEF ProcessOK, HeldUnlessLost, Processing
  <1>12. MemoryFits(w)'
    BY <1>0, <1>1, <1>5, <1>6 DEF ProcessOK, MemoryFits
  <1>13. BeforeFits(w)'
    BY <1>0, <1>1, <1>5, <1>6 DEF ProcessOK, BeforeFits
  <1>14. WorkKept(w)'
    <2>1. state = row \/ state = Append(work[w].before, e)
      BY <1>3, <1>4
    <2>2. state # <<>> /\ state[Len(state)] = e
      <3>1. CASE Durable(w)
        BY <1>4, <3>1 DEF Durable
      <3>2. CASE ~Durable(w)
        BY <1>2, <1>4, <3>2 DEF States
      <3> QED
        BY <3>1, <3>2
    <2> QED
      BY <1>1, <1>5, <1>6, <2>1, <2>2 DEF WorkKept
  <1> QED
    BY <1>9, <1>10, <1>11, <1>12, <1>13, <1>14 DEF ProcessOK

LEMMA SaveOK ==
    ASSUME SInv, NEW w \in Workers, WorkerStep(w), Save(w)
    PROVE  ProcessOK(w)'
  <1> DEFINE s == SessionAt(w)
  <1>0. TypeOK /\ LocalTypeOK /\ WorkInProgress /\ [Next]_storeVars /\ ProcessOK(w)
        /\ \A r \in Sessions : mem[w][r] \in States /\ sessions[r] \in States
    BY OwnStates
  <1>1. /\ pc[w] = "save" /\ Serving(w) /\ Engaged(w)
        /\ UNCHANGED <<storeVars, held, hb, mem, work>>
    BY DEF Save, Serving, Engaged, Processing
  <1>2. /\ s \in Sessions /\ work[w].event \in Events
        /\ work[w].event \notin Succeeded
    BY <1>1, ServingFacts
  <1>3. pc'[w] = IF Ended(work[w].state) THEN "announce" ELSE "lead2"
    BY <1>0 DEF Save, Goto, LocalTypeOK
  <1>4. /\ sessions'[s] = work[w].state
        /\ \A r \in Sessions : r # s => sessions'[r] = sessions[r]
    BY <1>0, <1>2 DEF Save, SaveSession, LocalTypeOK
  <1>5. /\ SessionAt(w)' = s /\ Succeeded' = Succeeded
        /\ UNCHANGED <<clock, recv, outcome, attempts, claim, lease>>
    BY <1>1 DEF SessionAt, Succeeded, storeVars
  <1>6. StatesAreGood(w)'
    BY <1>0, <1>1, <1>5 DEF ProcessOK, StatesAreGood
  <1>7. ClaimOutlivesWork(w)' /\ HeldUnlessLost(w)'
    BY <1>0, <1>1, <1>5 DEF ProcessOK, ClaimOutlivesWork, HeldUnlessLost, Processing
  <1>8. MemoryFits(w)'
    <2> SUFFICES ASSUME NEW r \in Sessions
                 PROVE  Fits(mem'[w][r], sessions'[r], Succeeded')
      BY DEF MemoryFits
    <2>1. CASE r = s
      BY <1>0, <1>1, <1>4, <2>1 DEF ProcessOK, WorkKept, Fits
    <2>2. CASE r # s
      BY <1>0, <1>1, <1>4, <1>5, <2>2 DEF ProcessOK, MemoryFits
    <2> QED
      BY <2>1, <2>2
  <1>9. BeforeFits(w)'
    <2>1. CASE work[w].state = sessions[s]
      BY <1>0, <1>1, <1>4, <1>5, <2>1 DEF ProcessOK, BeforeFits
    <2>2. CASE work[w].state = Append(work[w].before, work[w].event)
      <3>1. Fits(work[w].before, work[w].state, Succeeded)
        BY <1>2, <2>2 DEF Fits
      <3> QED
        BY <1>1, <1>4, <1>5, <3>1 DEF BeforeFits
    <2> QED
      BY <1>0, <1>1, <2>1, <2>2 DEF ProcessOK, WorkKept
  <1>10. WorkKept(w)'
    BY <1>0, <1>1, <1>3, <1>4, <1>5 DEF ProcessOK, WorkKept, Ended
  <1> QED
    BY <1>6, <1>7, <1>8, <1>9, <1>10 DEF ProcessOK

\* The job and the second save change nothing of what was saved.
LEMMA ResaveKeepsRows ==
    ASSUME SInv, NEW w \in Workers, Resave(w)
    PROVE  sessions' = sessions
  <1>1. Serving(w) /\ Engaged(w) /\ pc[w] = "resave"
    BY DEF Resave, Serving, Engaged, Processing
  <1>2. sessions[SessionAt(w)] = work[w].state
    BY <1>1 DEF SInv, ProcessOK, WorkKept
  <1>3. sessions \in [Sessions -> States] /\ SessionAt(w) \in Sessions
    BY <1>1, ServingFacts DEF SInv, WIInv, TypesOK, LocalTypeOK
  <1>4. sessions' = [sessions EXCEPT ![SessionAt(w)] = sessions[SessionAt(w)]]
    BY <1>2 DEF Resave, SaveSession
  <1> QED
    BY <1>3, <1>4

LEMMA AnnounceOK ==
    ASSUME SInv, NEW w \in Workers, WorkerStep(w), Announce(w) \/ Resave(w)
    PROVE  ProcessOK(w)'
  <1>0. TypeOK /\ LocalTypeOK /\ WorkInProgress /\ [Next]_storeVars /\ ProcessOK(w)
        /\ \A r \in Sessions : mem[w][r] \in States /\ sessions[r] \in States
    BY OwnStates
  <1>1. /\ pc[w] \in {"announce", "resave"} /\ Serving(w) /\ Engaged(w)
        /\ UNCHANGED <<storeVars, held, hb, mem, work>>
    BY DEF Announce, Resave, Serving, Engaged, Processing
  <1>2. sessions' = sessions
    BY ResaveKeepsRows DEF Announce
  <1>3. pc'[w] \in {"resave", "lead2"}
    BY <1>0 DEF Announce, Resave, Goto, LocalTypeOK
  <1>4. /\ SessionAt(w)' = SessionAt(w) /\ Succeeded' = Succeeded
        /\ UNCHANGED <<clock, recv, outcome, attempts, claim, lease>>
    BY <1>1 DEF SessionAt, Succeeded, storeVars
  <1>5. StatesAreGood(w)'
    BY <1>0, <1>1, <1>4 DEF ProcessOK, StatesAreGood
  <1>6. ClaimOutlivesWork(w)' /\ HeldUnlessLost(w)'
    BY <1>0, <1>1, <1>3, <1>4 DEF ProcessOK, ClaimOutlivesWork, HeldUnlessLost, Processing
  <1>7. MemoryFits(w)'
    <2> SUFFICES ASSUME NEW r \in Sessions
                 PROVE  Fits(mem'[w][r], sessions'[r], Succeeded')
      BY DEF MemoryFits
    <2>1. pc[w] \notin {"save", "raised", "failed"}
      BY <1>1
    <2> QED
      BY <1>0, <1>1, <1>2, <1>4, <2>1 DEF ProcessOK, MemoryFits
  <1>8. BeforeFits(w)'
    BY <1>0, <1>1, <1>2, <1>3, <1>4 DEF ProcessOK, BeforeFits
  <1>9. WorkKept(w)'
    BY <1>0, <1>1, <1>2, <1>3, <1>4 DEF ProcessOK, WorkKept
  <1> QED
    BY <1>5, <1>6, <1>7, <1>8, <1>9 DEF ProcessOK

LEMMA HandleFailureOK ==
    ASSUME SInv, NEW w \in Workers, WorkerStep(w), NEW t \in Nows, HandleFailure(w, t)
    PROVE  ProcessOK(w)'
  <1> DEFINE s == SessionAt(w)
  <1>0. TypeOK /\ LocalTypeOK /\ WorkInProgress /\ [Next]_storeVars /\ ProcessOK(w)
        /\ \A r \in Sessions : mem[w][r] \in States /\ sessions[r] \in States
    BY OwnStates
  <1>1. pc[w] = "failed" /\ Engaged(w) /\ UNCHANGED <<sessions, held, lease>>
    BY DEF HandleFailure, FailEvent, Settle, storeVars, Engaged
  <1>2. s \in Sessions /\ Succeeded' \subseteq Succeeded
    BY <1>1, ServingFacts, SucceededStays
  <1>3. pc'[w] \in {"lead", "batch end"}
    BY <1>0 DEF HandleFailure, Finish, Goto, LocalTypeOK
  <1>4. /\ mem'[w][s] = work[w].before
        /\ \A r \in Sessions : r # s => mem'[w][r] = mem[w][r]
    <2>1. mem'[w] = [mem[w] EXCEPT ![s] = work[w].before] /\ mem[w] \in [Sessions -> States]
      BY <1>0 DEF HandleFailure, LocalTypeOK
    <2> QED
      BY <1>2, <2>1
  <1>5. ~Engaged(w)' /\ ~Serving(w)'
    BY <1>3 DEF Engaged, Serving, Processing
  <1>6. StatesAreGood(w)'
    <2>1. ASSUME NEW r \in Sessions PROVE Good(mem'[w][r], r, recv', attempts')
      BY <1>0, <1>1, <1>4, StatesStayGood
    <2> QED
      BY <1>5, <2>1 DEF StatesAreGood
  <1>7. MemoryFits(w)'
    <2> SUFFICES ASSUME NEW r \in Sessions, Current(w)
                 PROVE  Fits(mem'[w][r], sessions'[r], Succeeded')
      BY <1>1, <1>5 DEF MemoryFits, Current
    <2>1. Fits(mem'[w][r], sessions[r], Succeeded)
      BY <1>0, <1>1, <1>4 DEF ProcessOK, MemoryFits, BeforeFits
    <2> QED
      BY <1>1, <1>2, <2>1, StillFits
  <1> QED
    BY <1>3, <1>5, <1>6, <1>7
       DEF ProcessOK, ClaimOutlivesWork, HeldUnlessLost, BeforeFits, WorkKept, Processing

\* Events are stored by their producers alone.
LEMMA RecvStays ==
    ASSUME NEW w \in Workers, WorkerStep(w)
    PROVE  recv' = recv
  <1>1. ASSUME NEW t \in Nows, EnsureLeadership(w, t) PROVE recv' = recv
    BY <1>1 DEF EnsureLeadership, RenewWorkerLease, AcquireWorkerLease, storeVars
  <1>2. ASSUME NEW t \in Nows, MainStep(w, t) PROVE recv' = recv
    BY <1>1, <1>2
       DEF MainStep, LeadBatch, LeadEvent, Close, RecoveryFails, GiveLeaseBack,
           AcquireWorkerLease, ReleaseWorkerLease, Claim, ClaimEvents, ReleaseOnStop,
           RenewClaim, Complete, HandleFailure, RenewEventClaim, CompleteEvent,
           FailEvent, ReleaseEventClaim, Settle, storeVars
  <1>3. ASSUME NEW t \in Nows, HeartbeatStep(w, t)
        PROVE  recv' = recv
    BY <1>1, <1>3
       DEF HeartbeatStep, HeartbeatLease, HeartbeatClaim, HeartbeatRecoveryFails,
           HeartbeatGivesBack, RenewEventClaim, AcquireWorkerLease, ReleaseWorkerLease,
           storeVars
  <1> QED
    BY <1>2, <1>3
       DEF WorkerStep, Start, Apply, Save, Announce, Resave, Error, Exit, EndBatch,
           HeartbeatError, Stop, Crash, storeVars

LEMMA OwnProcessOK ==
    ASSUME SInv, NoStall, NEW w \in Workers, WorkerStep(w)
    PROVE  ProcessOK(w)'
  <1>1. ASSUME NEW t \in Nows, MainStep(w, t) PROVE ProcessOK(w)'
    <2>1. CASE LeadBatch(w, t)
      BY <2>1, LeadBatchOK
    <2>2. CASE Claim(w, t)
      BY <2>2, ClaimOK
    <2>3. CASE ReleaseOnStop(w, t)
      BY <2>3, ReleaseOnStopOK
    <2>4. CASE LeadEvent(w, t)
      BY <2>4, LeadEventOK
    <2>5. CASE RenewClaim(w, t)
      BY <2>5, RenewalOK
    <2>6. CASE Complete(w, t)
      BY <2>6, CompleteOK
    <2>7. CASE HandleFailure(w, t)
      BY <2>7, HandleFailureOK
    <2>8. CASE Close(w, t)
      BY <2>8, IdleSteps
    <2>9. CASE RecoveryFails(w, t) \/ GiveLeaseBack(w, t)
      BY <2>9, RecoveryOK
    <2> QED
      BY <1>1, <2>1, <2>2, <2>3, <2>4, <2>5, <2>6, <2>7, <2>8, <2>9 DEF MainStep
  <1>2. ASSUME NEW t \in Nows, HeartbeatStep(w, t) PROVE ProcessOK(w)'
    <2>1. CASE HeartbeatLease(w, t)
      BY <2>1, HeartbeatLeaseOK
    <2>2. CASE HeartbeatClaim(w, t)
      BY <2>2, RenewalOK
    <2>3. CASE HeartbeatRecoveryFails(w, t) \/ HeartbeatGivesBack(w, t)
      BY <2>3, RecoveryOK
    <2> QED
      BY <1>2, <2>1, <2>2, <2>3 DEF HeartbeatStep
  <1>3. CASE Start(w) \/ Stop(w) \/ EndBatch(w) \/ Crash(w)
    BY <1>3, IdleSteps
  <1>4. CASE Apply(w)
    BY <1>4, ApplyOK
  <1>5. CASE Save(w)
    BY <1>5, SaveOK
  <1>6. CASE Announce(w) \/ Resave(w)
    BY <1>6, AnnounceOK
  <1>7. CASE Error(w) \/ Exit(w)
    BY <1>7, FailureOK
  <1>8. CASE HeartbeatError(w)
    BY <1>8, HeartbeatErrorOK
  <1> QED
    BY <1>1, <1>2, <1>3, <1>4, <1>5, <1>6, <1>7, <1>8 DEF WorkerStep

\* Nothing but the first save of an event changes a row.
LEMMA OnlySaveWrites ==
    ASSUME SInv, NEW w \in Workers, WorkerStep(w), ~Save(w)
    PROVE  sessions' = sessions
  <1>1. ASSUME NEW t \in Nows, MainStep(w, t) PROVE sessions' = sessions
    BY <1>1 DEF MainStep, LeadBatch, Claim, ReleaseOnStop, LeadEvent, RenewClaim,
                Complete, HandleFailure, Close, RecoveryFails, GiveLeaseBack, Vanish
  <1>2. ASSUME NEW t \in Nows, HeartbeatStep(w, t)
        PROVE sessions' = sessions
    BY <1>2 DEF HeartbeatStep, HeartbeatLease, HeartbeatClaim, HeartbeatRecoveryFails,
                HeartbeatGivesBack
  <1> QED
    BY <1>1, <1>2, ResaveKeepsRows
       DEF WorkerStep, Start, Apply, Announce, Error, Exit, EndBatch, HeartbeatError,
           Stop, Crash, Vanish

\* And that save writes the row of its session alone.
LEMMA SaveWrites ==
    ASSUME SInv, NEW w \in Workers, Save(w)
    PROVE  /\ Serving(w) /\ Engaged(w) /\ UNCHANGED storeVars
           /\ SessionAt(w) \in Sessions /\ sessions'[SessionAt(w)] = work[w].state
           /\ \A r \in Sessions : r # SessionAt(w) => sessions'[r] = sessions[r]
  <1>1. Serving(w) /\ Engaged(w) /\ UNCHANGED storeVars
    BY DEF Save, Serving, Engaged, Processing
  <1>2. SessionAt(w) \in Sessions /\ sessions \in [Sessions -> States]
    BY <1>1, ServingFacts DEF SInv, WIInv, TypesOK, LocalTypeOK
  <1> QED
    BY <1>1, <1>2 DEF Save, SaveSession

\* The rows stay good: what is saved was applied in order.
LEMMA RowsStayGood ==
    ASSUME SInv, NEW w \in Workers, WorkerStep(w)
    PROVE  RowsAreGood'
  <1>0. [Next]_storeVars /\ LocalTypeOK
    BY OwnStates
  <1>1. CASE Save(w)
    BY <1>0, <1>1, SaveWrites, StatesStayGood DEF RowsAreGood
  <1>2. CASE ~Save(w)
    BY <1>0, <1>2, OnlySaveWrites, StatesStayGood DEF RowsAreGood
  <1> QED
    BY <1>1, <1>2

\* The order of arrival is settled when the later event arrives.
LEMMA ArrivalStep ==
    ASSUME SInv, [WorkerNext]_allVars
    PROVE  ArrivedInOrder'
  <1>0. TypeOK /\ ArrivedInOrder
    BY DEF SInv, IInv
  <1>1. ASSUME NEW a \in Events, Arrive(a) PROVE ArrivedInOrder'
    <2> SUFFICES ASSUME NEW e \in Events, NEW f \in Events,
                        SessionOf[e] = SessionOf[f], e < f, recv'[e] # 0, recv'[f] # 0
                 PROVE  recv'[e] < recv'[f]
      BY DEF ArrivedInOrder
    <2>1. PICK n \in Places :
             /\ recv[a] = 0
             /\ \A g \in Events : SessionOf[g] = SessionOf[a] => recv[g] < n
             /\ recv' = [recv EXCEPT ![a] = n]
      BY <1>1 DEF Arrive, StoreEvent
    <2>2. recv \in [Events -> Nat]
      BY <1>0, StoreAssumption DEF TypeOK
    <2>3. CASE f = a
      <3>1. e # a /\ recv[e] < n
        BY <2>1, <2>3, WorkerAssumption
      <3> QED
        BY <2>1, <2>2, <2>3, <3>1
    <2>4. CASE f # a
      <3>1. e # a
        BY <1>1, <2>1, <2>2, <2>4, WorkerAssumption DEF Arrive
      <3>2. recv[e] < recv[f]
        BY <1>0, <2>1, <2>2, <2>4, <3>1 DEF ArrivedInOrder
      <3> QED
        BY <2>1, <2>2, <2>4, <3>1, <3>2
    <2> QED
      BY <2>3, <2>4
  <1>2. CASE recv' = recv
    BY <1>0, <1>2 DEF ArrivedInOrder
  <1>3. ASSUME NEW w \in Workers, WorkerStep(w) PROVE recv' = recv
    BY <1>3, RecvStays
  <1> QED
    BY <1>1, <1>2, <1>3 DEF WorkerNext, Wait, Tick, allVars, storeVars

\* The producers and the clock leave a process at what it was.
LEMMA OutsideOK ==
    ASSUME SInv, NoStall, NEW w \in Workers,
           (\E e \in Events : Arrive(e)) \/ Wait \/ UNCHANGED allVars
    PROVE  ProcessOK(w)'
  <1>0. TypeOK /\ LocalTypeOK /\ WorkInProgress /\ ProcessOK(w)
    BY DEF SInv, WIInv, TypesOK, IInv
  <1>1. [Next]_storeVars
    BY DEF Next, Arrive, Wait, allVars
  <1>2. UNCHANGED <<outcome, attempts, claim, lease, workerVars>>
    BY DEF Arrive, StoreEvent, Wait, Tick, allVars, storeVars
  <1>3. UNCHANGED <<sessions, pc, held, mem, work, hb>>
        /\ Succeeded' = Succeeded /\ SessionAt(w)' = SessionAt(w)
    BY <1>2 DEF workerVars, localVars, Succeeded, SessionAt
  <1>4. StatesAreGood(w)'
    BY <1>1, <1>3, StatesStayGood DEF StatesAreGood, Engaged
  <1>5. ClaimOutlivesWork(w)'
    <2>1. Serving(w) => claim[work[w].event].exp > clock'
      <3>1. CASE Wait
        BY <3>1 DEF Wait, Tick, NoStall, Serving
      <3>2. CASE clock' = clock
        BY <1>0, <3>2 DEF ProcessOK, ClaimOutlivesWork
      <3> QED
        BY <3>1, <3>2 DEF Arrive, StoreEvent, allVars, storeVars
    <2> QED
      BY <1>0, <1>2, <1>3, <2>1 DEF ProcessOK, ClaimOutlivesWork, Serving
  <1>6. HeldUnlessLost(w)'
    BY <1>0, <1>3 DEF ProcessOK, HeldUnlessLost
  <1>7. MemoryFits(w)'
    BY <1>0, <1>2, <1>3 DEF ProcessOK, MemoryFits, Serving, Current
  <1>8. BeforeFits(w)'
    BY <1>0, <1>2, <1>3 DEF ProcessOK, BeforeFits, Serving, Current
  <1>9. WorkKept(w)'
    BY <1>0, <1>3 DEF ProcessOK, WorkKept, Ended
  <1> QED
    BY <1>4, <1>5, <1>6, <1>7, <1>8, <1>9 DEF ProcessOK

LEMMA SInvStep ==
    ASSUME SInv, NoStall, [WorkerNext]_allVars
    PROVE  SInv'
  <1>1. WIInv'
    BY WIInvStep DEF SInv
  <1>2. IInv'
    <2>1. [Next]_storeVars
      BY StoreStep DEF SInv, WIInv
    <2> QED
      BY <2>1, NextIInv DEF SInv
  <1>3. ArrivedInOrder'
    BY ArrivalStep
  <1>4. CASE \E v \in Workers : WorkerStep(v)
    <2>1. PICK v \in Workers : WorkerStep(v)
      BY <1>4
    <2>2. RowsAreGood'
      BY <2>1, RowsStayGood
    <2>3. ASSUME NEW w \in Workers PROVE ProcessOK(w)'
      BY <2>1, OwnProcessOK, OtherProcessOK
    <2> QED
      BY <1>1, <1>2, <1>3, <2>2, <2>3 DEF SInv
  <1>5. CASE (\E e \in Events : Arrive(e)) \/ Wait \/ UNCHANGED allVars
    <2>1. RowsAreGood'
      <3>1. [Next]_storeVars /\ sessions' = sessions
        BY <1>5 DEF Next, Arrive, Wait, allVars, workerVars
      <3>2. TypeOK /\ UnstoredIsUntouched /\ \A s \in Sessions : sessions[s] \in States
        BY DEF SInv, WIInv, TypesOK, IInv, LocalTypeOK
      <3> QED
        BY <3>1, <3>2, GoodStays DEF SInv, RowsAreGood
    <2>2. ASSUME NEW w \in Workers PROVE ProcessOK(w)'
      BY <1>5, OutsideOK
    <2> QED
      BY <1>1, <1>2, <1>3, <2>1, <2>2 DEF SInv
  <1> QED
    BY <1>4, <1>5 DEF WorkerNext

LEMMA SInit == WorkerInit => SInv
  <1> SUFFICES ASSUME WorkerInit PROVE SInv
    OBVIOUS
  <1>1. WIInv /\ IInv
    BY WorkerInitOK, InitIInv DEF WorkerInit
  <1>2. ArrivedInOrder
    BY DEF WorkerInit, Init, ArrivedInOrder
  <1>3. RowsAreGood
    BY EmptyGood DEF WorkerInit, NoMemory, RowsAreGood
  <1>4. ASSUME NEW w \in Workers PROVE ProcessOK(w)
    <2>1. pc[w] = "new" /\ ~held[w] /\ mem[w] = NoMemory
      BY DEF WorkerInit
    <2>2. ~Engaged(w) /\ ~Serving(w) /\ ~Current(w)
      BY <2>1 DEF Engaged, Serving, Current, Processing
    <2>3. StatesAreGood(w)
      BY <2>1, <2>2, EmptyGood DEF StatesAreGood, NoMemory
    <2> QED
      BY <2>1, <2>2, <2>3
         DEF ProcessOK, ClaimOutlivesWork, HeldUnlessLost, MemoryFits, BeforeFits,
             WorkKept, Processing
  <1> QED
    BY <1>1, <1>2, <1>3, <1>4 DEF SInv

LEMMA SInvAlways == ASSUME NoStall PROVE WorkerSpec => []SInv
  <1>1. SInv /\ [WorkerNext]_allVars => SInv'
    BY SInvStep
  <1> QED
    BY <1>1, SInit, PTL DEF WorkerSpec

\* Under every interleaving, crash and failure of the processes, no session counts
\* an event twice or out of order, neither in its row nor in any memory: the check of
\* last_applied_event_id, the recovery of the memory and the undo of a failed event
\* together see to it, as long as no process outlives its claim.
THEOREM AppliedOnce == ASSUME NoStall PROVE WorkerSpec => []AppliedOnceInOrder
  <1>1. SInv => AppliedOnceInOrder
    BY DEF SInv, RowsAreGood, ProcessOK, StatesAreGood, Good, AppliedOnceInOrder, Ordered
  <1> QED
    BY <1>1, SInvAlways, PTL

\* The memory an event is applied to under a live claim lacks no event of its
\* session that succeeded: who gains the lease recovers first, who loses it forgets.
THEOREM MemoryCurrent == ASSUME NoStall PROVE WorkerSpec => []MemoryIsCurrent
  <1>1. SInv => MemoryIsCurrent
    <2> SUFFICES ASSUME SInv, NEW w \in Workers, pc[w] = "apply",
                        ~Ended(sessions[SessionAt(w)]),
                        NEW e \in Applied(sessions[SessionAt(w)]),
                        outcome[e] = "succeeded"
                 PROVE  e \in Applied(mem[w][SessionAt(w)])
      BY DEF MemoryIsCurrent
    <2> DEFINE m == mem[w][SessionAt(w)]
               row == sessions[SessionAt(w)]
    <2>1. Engaged(w) /\ Serving(w)
      BY DEF Engaged, Serving, Processing
    <2>2. SessionAt(w) \in Sessions /\ m \in States /\ row \in States
      BY <2>1, ServingFacts
    <2>3. Fits(m, row, Succeeded)
      BY <2>1, <2>2 DEF SInv, ProcessOK, MemoryFits
    <2>4. e \in Events
      BY <2>2 DEF Applied, States
    <2>5. CASE \E x \in Events \ Succeeded : row = Append(m, x)
      <3>1. PICK x \in Events \ Succeeded : row = Append(m, x)
        BY <2>5
      <3>2. e # x
        BY <2>4, <3>1 DEF Succeeded
      <3> QED
        BY <2>2, <3>1, <3>2, AppendedApplied
    <2> QED
      BY <2>3, <2>5 DEF Fits
  <1> QED
    BY <1>1, SInvAlways, PTL

-----------------------------------------------------------------------------
(* Sessions that are closed, while closing events come last.                *)

\* A closed row is final: its closing event is applied to it only as it was.
ClosedIsFinal(w) ==
    pc[w] = "save" /\ Ended(sessions[SessionAt(w)]) =>
        work[w].state = sessions[SessionAt(w)]

TInv == /\ SInv
        /\ \A w \in Workers : ClosedIsFinal(w)
        /\ SucceededIsKept
        /\ AnalysisSeesClosedRow

\* An event of a closed session that is still pending is the one that closed it.
LEMMA ClosedHasLast ==
    ASSUME SInv, ClosingIsLast, NEW w \in Workers, Serving(w),
           Ended(sessions[SessionAt(w)])
    PROVE  Durable(w)
  <1> DEFINE e == work[w].event
             row == sessions[SessionAt(w)]
  <1>1. /\ e \in Events /\ SessionAt(w) \in Sessions /\ SessionAt(w) = SessionOf[e]
        /\ row \in States /\ Pending(e)
    BY ServingFacts DEF Serving, Engaged
  <1>2. Good(row, SessionAt(w), recv, attempts)
    BY <1>1 DEF SInv, RowsAreGood
  <1>3. PICK i \in DOMAIN row : row[i] \in Closing
    BY DEF Ended
  <1> DEFINE c == row[i]
  <1>4. c \in Events /\ SessionOf[c] = SessionOf[e] /\ attempts[c] > 0 /\ e <= c
    <2>1. c \in Events
      BY <1>1, <1>3 DEF States
    <2>2. SessionOf[c] = SessionOf[e] /\ attempts[c] > 0
      BY <1>1, <1>2, <1>3 DEF Good
    <2>3. c \in Closing
      BY <1>3
    <2> QED
      BY <1>1, <2>1, <2>2, <2>3 DEF ClosingIsLast
  <1>5. c = e
    <2>0. e \in Nat /\ c \in Nat
      BY <1>1, <1>4, WorkerAssumption
    <2>1. SUFFICES ASSUME e < c PROVE FALSE
      BY <1>4, <2>0
    <2>2. recv[c] # 0
      BY <1>4 DEF SInv, IInv, UnstoredIsUntouched, TypeOK
    <2>3. recv[e] # 0 /\ recv[e] < recv[c]
      BY <1>1, <1>4, <2>1, <2>2 DEF SInv, ArrivedInOrder, Pending
    <2>4. outcome[e] \in Terminal
      BY <1>1, <1>4, <2>3 DEF SInv, IInv, SessionsAreServedInOrder, Precedes
    <2> QED
      BY <1>1, <2>4 DEF Pending, Terminal
  <1> QED
    BY <1>1, <1>2, <1>5, HeadIsLast DEF Durable

\* A save leaves a closed row as it is, and takes no event out of a row that
\* succeeded.
LEMMA SaveKeeps ==
    ASSUME SInv, NEW w \in Workers, ClosedIsFinal(w), Save(w), NEW s \in Sessions
    PROVE  /\ Ended(sessions[s]) => sessions'[s] = sessions[s]
           /\ \A e \in Succeeded :
                 e \in Applied(sessions[s]) => e \in Applied(sessions'[s])
  <1>1. pc[w] = "save" /\ Serving(w) /\ Engaged(w)
    BY SaveWrites DEF Save
  <1>2. CASE s # SessionAt(w)
    BY <1>2, SaveWrites
  <1>3. CASE s = SessionAt(w) /\ work[w].state = sessions[s]
    BY <1>3, SaveWrites
  <1>4. CASE /\ s = SessionAt(w)
             /\ work[w].state = Append(work[w].before, work[w].event)
             /\ ~Ended(sessions[s])
    <2> DEFINE b == work[w].before
    <2>1. Fits(b, sessions[s], Succeeded) /\ b \in States /\ work[w].event \in Events
      BY <1>1, <1>4, ServingFacts DEF SInv, ProcessOK, BeforeFits
    <2>2. ASSUME NEW e \in Succeeded, e \in Applied(sessions[s]) PROVE e \in Applied(b)
      <3>1. CASE b = sessions[s]
        BY <2>2, <3>1
      <3>2. CASE \E x \in Events \ Succeeded : sessions[s] = Append(b, x)
        <4>1. PICK x \in Events \ Succeeded : sessions[s] = Append(b, x)
          BY <3>2
        <4>2. Applied(sessions[s]) = Applied(b) \cup {x}
          BY <2>1, <4>1, AppendedApplied
        <4> QED
          BY <2>2, <4>1, <4>2
      <3> QED
        BY <1>4, <2>1, <3>1, <3>2 DEF Fits
    <2>3. sessions'[s] = Append(b, work[w].event)
      BY <1>4, SaveWrites
    <2> QED
      BY <1>4, <2>1, <2>2, <2>3, AppendedApplied
  <1> QED
    BY <1>1, <1>2, <1>3, <1>4 DEF SInv, ProcessOK, WorkKept, ClosedIsFinal

\* A process at the save got there by applying its event.
LEMMA SavesAfterApply ==
    ASSUME LocalTypeOK, NEW w \in Workers, WorkerStep(w), ~Apply(w), pc'[w] = "save"
    PROVE  pc[w] = "save" /\ work'[w] = work[w] /\ ~Save(w)
  <1>0. ~Save(w)
    BY DEF Save, Goto, LocalTypeOK
  <1>1. ASSUME NEW t \in Nows, MainStep(w, t) PROVE FALSE
    BY <1>1 DEF MainStep, LeadBatch, Claim, ReleaseOnStop, LeadEvent, RenewClaim,
                Complete, HandleFailure, Close, RecoveryFails, GiveLeaseBack, Vanish,
                Finish, Raise, Goto, LocalTypeOK
  <1>2. ASSUME NEW t \in Nows, HeartbeatStep(w, t)
        PROVE  pc' = pc /\ work' = work
    BY <1>2 DEF HeartbeatStep, HeartbeatLease, HeartbeatClaim, HeartbeatRecoveryFails,
                HeartbeatGivesBack
  <1>3. CASE HeartbeatError(w)
    BY <1>0, <1>3 DEF HeartbeatError
  <1>4. ~(\/ Start(w) \/ Announce(w) \/ Resave(w) \/ Error(w) \/ Exit(w)
          \/ EndBatch(w) \/ Stop(w) \/ Crash(w))
    BY DEF Start, Announce, Resave, Error, Exit, EndBatch, Stop, Crash, Vanish, Finish,
           Raise, Goto, LocalTypeOK
  <1> QED
    BY <1>0, <1>1, <1>2, <1>3, <1>4 DEF WorkerStep

\* And a session is announced by that one step.
LEMMA OnlyAnnounces ==
    ASSUME NEW w \in Workers, WorkerStep(w), NEW s, s \in announced', s \notin announced
    PROVE  Announce(w) /\ s = SessionAt(w) /\ sessions' = sessions /\ pc[w] = "announce"
  <1>1. ASSUME NEW t \in Nows, MainStep(w, t) PROVE announced' = announced
    BY <1>1 DEF MainStep, LeadBatch, Claim, ReleaseOnStop, LeadEvent, RenewClaim,
                Complete, HandleFailure, Close, RecoveryFails, GiveLeaseBack, Vanish
  <1>2. ASSUME NEW t \in Nows, HeartbeatStep(w, t)
        PROVE  announced' = announced
    BY <1>2 DEF HeartbeatStep, HeartbeatLease, HeartbeatClaim, HeartbeatRecoveryFails,
                HeartbeatGivesBack
  <1>3. Announce(w)
    BY <1>1, <1>2
       DEF WorkerStep, Start, Apply, Save, Resave, Error, Exit, EndBatch, HeartbeatError,
           Stop, Crash, Vanish
  <1> QED
    BY <1>3 DEF Announce

LEMMA TInvStep ==
    ASSUME TInv, NoStall, ClosingIsLast, [WorkerNext]_allVars
    PROVE  TInv'
  <1>0. SInv /\ SInv'
    BY SInvStep DEF TInv
  <1>1. LocalTypeOK /\ TypeOK
    BY <1>0 DEF SInv, WIInv, TypesOK
  <1>2. CASE \E v \in Workers : WorkerStep(v)
    <2>1. PICK v \in Workers : WorkerStep(v)
      BY <1>2
    <2>2. ASSUME NEW w \in Workers PROVE ClosedIsFinal(w)'
      <3> SUFFICES ASSUME pc'[w] = "save", Ended(sessions'[SessionAt(w)'])
                   PROVE  work'[w].state = sessions'[SessionAt(w)']
        BY DEF ClosedIsFinal, Ended
      <3>1. CASE v # w
        <4>1. pc'[w] = pc[w] /\ work'[w] = work[w]
          BY <1>1, <2>1, <3>1, OthersKeep
        <4>2. Serving(w)
          BY <4>1 DEF Serving, Processing
        <4>3. sessions' = sessions
          BY <1>0, <2>1, <3>1, <4>2, OthersLockedOut
        <4> QED
          BY <4>1, <4>3 DEF TInv, ClosedIsFinal, SessionAt
      <3>2. CASE v = w /\ Apply(w)
        <4>1. Serving(w) /\ Engaged(w) /\ sessions' = sessions
          BY <3>2 DEF Apply, Serving, Engaged, Processing
        <4>2. work[w] \in Works /\ SessionAt(w) \in Sessions
          BY <1>0, <4>1, ServingFacts
        <4>3. \E state : work'[w] = [work[w] EXCEPT !.state = state]
                         /\ (Durable(w) => state = sessions[SessionAt(w)])
          BY <1>1, <3>2 DEF Apply, LocalTypeOK
        <4>4. work'[w].event = work[w].event
              /\ (Durable(w) => work'[w].state = sessions[SessionAt(w)])
          BY <4>2, <4>3 DEF Works
        <4>5. SessionAt(w)' = SessionAt(w)
          BY <4>4 DEF SessionAt
        <4> QED
          BY <1>0, <4>1, <4>4, <4>5, ClosedHasLast
      <3>3. CASE v = w /\ ~Apply(w)
        <4>1. pc[w] = "save" /\ work'[w] = work[w] /\ ~Save(w)
          BY <1>1, <2>1, <3>3, SavesAfterApply
        <4>2. sessions' = sessions
          BY <1>0, <2>1, <3>3, <4>1, OnlySaveWrites
        <4> QED
          BY <4>1, <4>2 DEF TInv, ClosedIsFinal, SessionAt
      <3> QED
        BY <3>1, <3>2, <3>3
    <2>3. ASSUME NEW s \in Sessions
          PROVE  /\ Ended(sessions[s]) => sessions'[s] = sessions[s]
                 /\ \A e \in Succeeded :
                       e \in Applied(sessions[s]) => e \in Applied(sessions'[s])
      <3>1. CASE Save(v)
        BY <1>0, <3>1, SaveKeeps DEF TInv
      <3>2. CASE ~Save(v)
        BY <1>0, <2>1, <3>2, OnlySaveWrites
      <3> QED
        BY <3>1, <3>2
    <2>4. SucceededIsKept'
      <3> SUFFICES ASSUME NEW e \in Events, outcome'[e] = "succeeded"
                   PROVE  e \in Applied(sessions'[SessionOf[e]])
        BY DEF SucceededIsKept, Applied
      <3>0. SessionOf[e] \in Sessions
        BY StoreAssumption
      <3>1. CASE outcome[e] = "succeeded"
        BY <2>3, <3>0, <3>1 DEF TInv, SucceededIsKept, Succeeded
      <3>2. CASE outcome[e] # "succeeded"
        <4>1. e = work[v].event /\ pc[v] = "complete"
          BY <1>0, <2>1, <3>2, Succeeds DEF SInv, WIInv
        <4>2. Engaged(v) /\ ~Save(v)
          BY <4>1 DEF Engaged, Processing, Save
        <4>3. sessions' = sessions
          BY <1>0, <2>1, <4>2, OnlySaveWrites
        <4>4. LET row == sessions[SessionAt(v)]
              IN  row \in States /\ row # <<>> /\ row[Len(row)] = e
          BY <1>0, <4>1, <4>2, ServingFacts DEF SInv, ProcessOK, WorkKept
        <4>5. e \in Applied(sessions[SessionAt(v)])
          BY <4>4 DEF Applied, States
        <4> QED
          BY <4>1, <4>3, <4>5 DEF SessionAt
      <3> QED
        BY <3>1, <3>2
    <2>5. AnalysisSeesClosedRow'
      <3> SUFFICES ASSUME NEW s \in announced' PROVE Ended(sessions'[s])
        BY DEF AnalysisSeesClosedRow, Ended
      <3>1. CASE s \in announced
        <4>1. s \in Sessions /\ Ended(sessions[s])
          BY <1>1, <3>1 DEF TInv, AnalysisSeesClosedRow, LocalTypeOK
        <4> QED
          BY <2>3, <4>1
      <3>2. CASE s \notin announced
        <4>1. Announce(v) /\ s = SessionAt(v) /\ sessions' = sessions /\ pc[v] = "announce"
          BY <2>1, <3>2, OnlyAnnounces
        <4>2. Ended(work[v].state) /\ sessions[SessionAt(v)] = work[v].state
          BY <1>0, <4>1 DEF SInv, ProcessOK, WorkKept
        <4> QED
          BY <4>1, <4>2
      <3> QED
        BY <3>1, <3>2
    <2> QED
      BY <1>0, <2>2, <2>4, <2>5 DEF TInv
  <1>3. CASE (\E e \in Events : Arrive(e)) \/ Wait \/ UNCHANGED allVars
    <2>1. UNCHANGED <<outcome, sessions, announced, pc, work>>
      BY <1>3 DEF Arrive, StoreEvent, Wait, Tick, allVars, storeVars, workerVars, localVars
    <2>2. \A w \in Workers : ClosedIsFinal(w)'
      BY <2>1 DEF TInv, ClosedIsFinal, SessionAt, Ended
    <2>3. SucceededIsKept' /\ AnalysisSeesClosedRow'
      BY <2>1 DEF TInv, SucceededIsKept, AnalysisSeesClosedRow, Applied, Ended
    <2> QED
      BY <1>0, <2>2, <2>3 DEF TInv
  <1> QED
    BY <1>2, <1>3 DEF WorkerNext

LEMMA TInvAlways == ASSUME NoStall, ClosingIsLast PROVE WorkerSpec => []TInv
  <1>1. WorkerInit => TInv
    BY SInit DEF TInv, WorkerInit, Init, ClosedIsFinal, SucceededIsKept,
                 AnalysisSeesClosedRow
  <1>2. TInv /\ [WorkerNext]_allVars => TInv'
    BY TInvStep
  <1> QED
    BY <1>1, <1>2, PTL DEF WorkerSpec

\* What an event that succeeded did stays in its session's row: no worker saves an
\* older state over it, whoever crashed, failed or lost its lease before.
THEOREM SucceededKept ==
    ASSUME NoStall, ClosingIsLast PROVE WorkerSpec => []SucceededIsKept
  <1>1. TInv => SucceededIsKept
    BY DEF TInv
  <1> QED
    BY <1>1, TInvAlways, PTL

\* An analysis job, or the mark that none is needed, never precedes the save of the
\* closed session, however often the closing event is tried.
THEOREM AnalysisAfterClose ==
    ASSUME NoStall, ClosingIsLast PROVE WorkerSpec => []AnalysisSeesClosedRow
  <1>1. TInv => AnalysisSeesClosedRow
    BY DEF TInv
  <1> QED
    BY <1>1, TInvAlways, PTL

\* No step opens a closed session row again.
THEOREM ClosedForGood ==
    ASSUME NoStall, ClosingIsLast PROVE WorkerSpec => ClosedStaysClosed
  <1>1. TInv /\ [WorkerNext]_allVars =>
            [\A s \in Sessions : Ended(sessions[s]) => Ended(sessions'[s])]_allVars
    <2> SUFFICES ASSUME TInv, WorkerNext, NEW s \in Sessions, Ended(sessions[s])
                 PROVE  Ended(sessions'[s])
      OBVIOUS
    <2>1. SInv
      BY DEF TInv
    <2>2. CASE \E v \in Workers : WorkerStep(v)
      <3>1. PICK v \in Workers : WorkerStep(v)
        BY <2>2
      <3>2. CASE Save(v)
        BY <2>1, <3>2, SaveKeeps DEF TInv
      <3>3. CASE ~Save(v)
        BY <2>1, <3>1, <3>3, OnlySaveWrites
      <3> QED
        BY <3>2, <3>3
    <2>3. CASE (\E e \in Events : Arrive(e)) \/ Wait
      BY <2>3 DEF Arrive, Wait, workerVars
    <2> QED
      BY <2>2, <2>3 DEF WorkerNext
  <1> QED
    BY <1>1, TInvAlways, PTL DEF WorkerSpec, ClosedStaysClosed

-----------------------------------------------------------------------------
(* The worker refines SessionLog.                                           *)

LEMMA LogUnsettled ==
    ASSUME NEW e \in Events
    PROVE  Log!Unsettled(e) <=> Pending(e)
  BY DEF Log!Unsettled, Pending, Terminal, Status

\* What the queue does alone, the log does alone, unless an event succeeds; then
\* it must end its row and, if it closes it, be announced.
LEMMA QueueStepMaps ==
    ASSUME [Queue!Next]_(Queue!queueVars), UNCHANGED <<sessions, announced>>,
           \A e \in Events : Queue!SettleAll({e}, "succeeded") =>
               /\ Log!EndsWith(SessionOf[e], e)
               /\ e \in Closing => SessionOf[e] \in announced
    PROVE  [Log!LogNext]_(Log!logVars)
  <1>1. ASSUME NEW e \in Events, Queue!Store(e) PROVE Log!LogNext
    <2>1. Log!Arrive(e)
      BY <1>1 DEF Queue!Store, Log!Store, Log!Arrive
    <2> QED
      BY <2>1 DEF Log!LogNext
  <1>2. ASSUME NEW e \in Events, Queue!SettleAll({e}, "succeeded") PROVE Log!LogNext
    <2>1. Log!SettleAll({e}, "succeeded")
      BY <1>2 DEF Queue!SettleAll, Log!SettleAll, Queue!Unsettled, Log!Unsettled,
                  Queue!Before, Log!Before
    <2>2. Log!Succeed(e)
      BY <1>2, <2>1 DEF Log!Succeed
    <2> QED
      BY <2>2 DEF Log!LogNext
  <1>3. ASSUME NEW D \in SUBSET Events, Queue!SettleAll(D, "dead_letter")
        PROVE  Log!LogNext
    <2>1. Log!SettleAll(D, "dead_letter")
      BY <1>3 DEF Queue!SettleAll, Log!SettleAll, Queue!Unsettled, Log!Unsettled,
                  Queue!Before, Log!Before
    <2>2. Log!GiveUp(D)
      BY <2>1 DEF Log!GiveUp
    <2> QED
      BY <2>2 DEF Log!LogNext
  <1>4. CASE UNCHANGED Queue!queueVars
    BY <1>4 DEF Queue!queueVars, Log!queueVars, Log!logVars
  <1> QED
    BY <1>1, <1>2, <1>3, <1>4 DEF Queue!Next

\* An event succeeds when its row ends with it, and its close was announced.
LEMMA SucceedMaps ==
    ASSUME SInv, NEW w \in Workers, WorkerStep(w), ~Save(w), ~Announce(w)
    PROVE  [Log!LogNext]_(Log!logVars)
  <1>0. TypesOK /\ WorkInProgress /\ CloseInProgress
    BY DEF SInv, WIInv
  <1>1. [Queue!Next]_(Queue!queueVars)
    <2>1. [Next]_storeVars
      BY OwnStates
    <2> QED
      BY <2>1, NextMaps DEF SInv
  <1>2. sessions' = sessions
    BY OnlySaveWrites
  <1>3. announced' = announced
    <2>1. announced \subseteq announced'
      BY AnnouncedGrows
    <2>2. announced' \subseteq announced
      BY OnlyAnnounces
    <2> QED
      BY <2>1, <2>2
  <1>4. ASSUME NEW e \in Events, Queue!SettleAll({e}, "succeeded")
        PROVE  /\ Log!EndsWith(SessionOf[e], e)
               /\ e \in Closing => SessionOf[e] \in announced
    <2>1. Status'[e] = "succeeded" /\ Status[e] = "unsettled"
      BY <1>4 DEF Queue!SettleAll, Queue!Unsettled
    <2>2. outcome'[e] = "succeeded" /\ outcome[e] # "succeeded"
      BY <2>1 DEF Status, Terminal
    <2>3. e = work[w].event /\ pc[w] = "complete"
      BY <1>0, <2>2, Succeeds
    <2>4. SessionAt(w) = SessionOf[e]
      BY <2>3 DEF SessionAt
    <2>5. Log!EndsWith(SessionOf[e], e)
      BY <2>3, <2>4 DEF SInv, ProcessOK, WorkKept, Log!EndsWith
    <2>6. e \in Closing => SessionOf[e] \in announced
      BY <1>0, <2>3, <2>4 DEF CloseInProgress
    <2> QED
      BY <2>5, <2>6
  <1> QED
    BY <1>1, <1>2, <1>3, <1>4, QueueStepMaps

\* A session is announced when its row is closed.
LEMMA AnnounceMaps ==
    ASSUME SInv, NEW w \in Workers, Announce(w)
    PROVE  Log!LogNext
  <1>1. Engaged(w) /\ pc[w] = "announce"
    BY DEF Announce, Engaged, Processing
  <1>2. SessionAt(w) \in Sessions
    BY <1>1, ServingFacts
  <1>3. Ended(sessions[SessionAt(w)])
    BY <1>1 DEF SInv, ProcessOK, WorkKept
  <1>4. Log!Announce(SessionAt(w))
    BY <1>3 DEF Announce, Log!Announce, Log!Closed, Ended, Log!queueVars, storeVars, Status
  <1> QED
    BY <1>2, <1>4 DEF Log!LogNext

\* What is left of a row whose last event was undone.
LEMMA FrontOfAppend ==
    ASSUME NEW m \in States, NEW x \in Events
    PROVE  /\ Append(m, x) # <<>>
           /\ Append(m, x)[Len(Append(m, x))] = x
           /\ SubSeq(Append(m, x), 1, Len(Append(m, x)) - 1) = m
  BY DEF States

\* An event that a row holds besides the one that is pending came before it, and
\* is settled.
LEMMA RowIsSettled ==
    ASSUME SInv, NEW w \in Workers, Serving(w), NEW x \in Events,
           x # work[w].event, SessionOf[x] = SessionAt(w), attempts[x] > 0
    PROVE  outcome[x] \in Terminal
  <1> DEFINE e == work[w].event
  <1>1. e \in Events /\ SessionOf[e] = SessionAt(w) /\ Pending(e) /\ attempts[e] > 0
    BY ServingFacts DEF Serving, Engaged
  <1>2. recv[x] # 0 /\ recv[e] # 0
    BY <1>1 DEF SInv, IInv, UnstoredIsUntouched, Pending, TypeOK
  <1>3. ~Precedes(e, x)
    BY <1>1, <1>2 DEF SInv, IInv, SessionsAreServedInOrder, Pending, Terminal
  <1>4. x \in Nat /\ e \in Nat
    BY <1>1, WorkerAssumption
  <1>5. x < e
    <2>1. e < x => recv[e] < recv[x]
      BY <1>1, <1>2 DEF SInv, ArrivedInOrder
    <2> QED
      BY <1>1, <1>3, <1>4, <2>1 DEF Precedes
  <1>6. Precedes(x, e)
    BY <1>1, <1>2, <1>5 DEF SInv, ArrivedInOrder, Precedes
  <1> QED
    BY <1>1, <1>2, <1>6 DEF SInv, IInv, SessionsAreServedInOrder

\* What the event was applied to is what the log may keep: the row, or the row
\* without an event that was given up.
LEMMA BeforeIsKept ==
    ASSUME SInv, NEW w \in Workers, Serving(w), ~Ended(sessions[SessionAt(w)]),
           sessions[SessionAt(w)] # Append(work[w].before, work[w].event)
    PROVE  work[w].before \in Log!Kept(SessionAt(w))
  <1> DEFINE s == SessionAt(w)
             b == work[w].before
  <1>1. b \in States /\ s \in Sessions
    BY ServingFacts DEF Serving, Engaged
  <1>2. Fits(b, sessions[s], Succeeded)
    BY DEF SInv, ProcessOK, BeforeFits
  <1>3. CASE \E x \in Events \ Succeeded : sessions[s] = Append(b, x)
    <2>1. PICK x \in Events \ Succeeded : sessions[s] = Append(b, x)
      BY <1>3
    <2>2. /\ sessions[s] # <<>> /\ sessions[s][Len(sessions[s])] = x
          /\ SubSeq(sessions[s], 1, Len(sessions[s]) - 1) = b
      BY <1>1, <2>1, FrontOfAppend
    <2>3. SessionOf[x] = s /\ attempts[x] > 0
      <3>1. Good(sessions[s], s, recv, attempts)
        BY <1>1 DEF SInv, RowsAreGood
      <3>2. Len(sessions[s]) \in DOMAIN sessions[s]
        BY <1>1, <2>1 DEF States
      <3> QED
        BY <2>2, <3>1, <3>2 DEF Good
    <2>4. x # work[w].event
      BY <2>1
    <2>5. outcome[x] = "dead_letter"
      BY <2>1, <2>3, <2>4, RowIsSettled DEF Terminal, Succeeded
    <2>6. x \in {f \in Events : Log!EndsWith(s, f) /\ Status[f] = "dead_letter"}
      BY <2>1, <2>2, <2>5 DEF Log!EndsWith, Status, Terminal
    <2> QED
      BY <2>2, <2>6 DEF Log!Kept
  <1> QED
    BY <1>2, <1>3 DEF Fits, Log!Kept

\* A save writes the next event to the log, or leaves the log as it is.
LEMMA WriteMaps ==
    ASSUME SInv, NEW w \in Workers, ClosedIsFinal(w), Save(w)
    PROVE  [Log!LogNext]_(Log!logVars)
  <1> DEFINE s == SessionAt(w)
             e == work[w].event
             b == work[w].before
  <1>1. Serving(w) /\ Engaged(w) /\ pc[w] = "save"
    BY SaveWrites DEF Save
  <1>2. /\ e \in Events /\ s \in Sessions /\ SessionOf[e] = s /\ Pending(e)
        /\ attempts[e] > 0 /\ b \in States
    BY <1>1, ServingFacts
  <1>3. UNCHANGED <<Log!queueVars, announced>>
    BY DEF Save, storeVars, Log!queueVars, Status
  <1>4. sessions' = [sessions EXCEPT ![s] = work[w].state]
    BY DEF Save, SaveSession
  <1>5. CASE work[w].state = sessions[s]
    <2>1. sessions' = sessions
      BY <1>2, <1>4, <1>5 DEF SInv, WIInv, TypesOK, LocalTypeOK
    <2> QED
      BY <1>3, <2>1 DEF Log!logVars
  <1>6. CASE work[w].state # sessions[s]
    <2>1. work[w].state = Append(b, e) /\ ~Ended(sessions[s])
      BY <1>1, <1>6 DEF ClosedIsFinal, SInv, ProcessOK, WorkKept
    <2>2. b \in Log!Kept(s)
      BY <1>1, <1>6, <2>1, BeforeIsKept
    <2>3. \A i \in DOMAIN b : b[i] # e
      <3>1. Good(Append(b, e), s, recv, attempts)
        BY <1>1, <2>1 DEF SInv, ProcessOK, StatesAreGood
      <3>2. \A i \in DOMAIN b : /\ i \in DOMAIN Append(b, e)
                                /\ Len(b) + 1 \in DOMAIN Append(b, e)
                                /\ i < Len(b) + 1
                                /\ Append(b, e)[i] = b[i]
                                /\ Append(b, e)[Len(b) + 1] = e
        BY <1>2 DEF States
      <3>3. \A i \in DOMAIN b : recv[b[i]] < recv[e]
        BY <3>1, <3>2 DEF Good
      <3>4. recv[e] \in Nat
        BY <1>2 DEF SInv, IInv, TypeOK
      <3> QED
        BY <3>3, <3>4
    <2>4. Log!Unsettled(e) /\ \A p \in Events : Log!Unsettled(p) => ~Log!Before(p, e)
      BY <1>2, LogUnsettled
         DEF SInv, IInv, SessionsAreServedInOrder, Log!Before, Precedes, Pending
    <2>5. ~Log!Closed(s)
      BY <2>1 DEF Log!Closed, Ended
    <2>6. Log!Write(e)
      BY <1>2, <1>3, <1>4, <2>1, <2>2, <2>3, <2>4, <2>5 DEF Log!Write
    <2> QED
      BY <1>2, <2>6 DEF Log!LogNext
  <1> QED
    BY <1>5, <1>6

LEMMA LogStepMaps == TInv /\ [WorkerNext]_allVars => [Log!LogNext]_(Log!logVars)
  <1> SUFFICES ASSUME TInv, [WorkerNext]_allVars PROVE [Log!LogNext]_(Log!logVars)
    OBVIOUS
  <1>0. SInv /\ IInv
    BY DEF TInv, SInv
  <1>1. ASSUME NEW w \in Workers, WorkerStep(w) PROVE [Log!LogNext]_(Log!logVars)
    BY <1>0, <1>1, WriteMaps, AnnounceMaps, SucceedMaps DEF TInv
  <1>2. ASSUME NEW e \in Events, Arrive(e) PROVE Log!LogNext
    <2>1. Log!Arrive(e)
      BY <1>2 DEF Arrive, StoreEvent, Log!Arrive, Log!Store, Status, workerVars
    <2> QED
      BY <2>1 DEF Log!LogNext
  <1>3. CASE Wait \/ UNCHANGED allVars
    BY <1>3 DEF Wait, Tick, allVars, storeVars, workerVars, Log!logVars, Log!queueVars, Status
  <1> QED
    BY <1>1, <1>2, <1>3 DEF WorkerNext

\* Without stalls beyond the lease, any number of workers that fail, crash and take
\* over from each other keep one log per session: every step that shows in the rows is
\* a step of SessionLog, an event written in its turn, given up, announced or
\* settled after its write.
THEOREM WorkerRefinement ==
    ASSUME NoStall, ClosingIsLast PROVE WorkerSpec => ImplementsSessionLog
  <1>1. WorkerInit => Log!LogInit
    BY DEF WorkerInit, Init, NoMemory, Log!LogInit, Log!Init, Status, Terminal
  <1> QED
    BY <1>1, LogStepMaps, TInvAlways, PTL DEF WorkerSpec, ImplementsSessionLog, Log!LogSpec
=============================================================================
