-------------------------- MODULE EventStoreProofs --------------------------
(* Theorems about EventStore and MongoEventStore, for any number of events, *)
(* sessions and workers, any lease lengths, any lag of the transactions and *)
(* any clock, and on MongoDB any number of calls in progress.               *)
EXTENDS MongoEventStore, TLAPS

\* A claim belongs to an unsettled row, and counts as an attempt.
ClaimsAreOnPendingRows ==
    \A e \in Events : claim[e].owner # NoWorker => Pending(e) /\ attempts[e] > 0

\* Rows that are not stored were never touched.
UnstoredIsUntouched ==
    \A e \in Events : recv[e] = 0 => attempts[e] = 0 /\ outcome[e] = "pending"

IInv ==
    /\ TypeOK
    /\ ClaimsAreOnPendingRows
    /\ UnstoredIsUntouched
    /\ OneWorkerHoldsTheLiveClaims
    /\ SessionsAreServedInOrder

\* The times an operation may work with are natural and not in the future.
LEMMA NowsLemma ==
    ASSUME TypeOK, NEW t \in Nows
    PROVE  t \in Nat /\ t <= clock
  BY DEF TypeOK, Nows

\* What one transaction of claim_events does to a single row.
LEMMA ClaimLemma ==
    ASSUME TypeOK, NEW w \in Workers, NEW t \in Nows, ClaimEvents(w, t),
           NEW e \in Events
    PROVE  \/ /\ Pending(e) /\ Available(e, t)
              /\ outcome'[e] = "dead_letter" /\ attempts'[e] = attempts[e]
              /\ retryAt'[e] = 0 /\ claim'[e] = NoClaim
              /\ e \notin FirstValid(t)
           \/ /\ e \in FirstValid(t)
              /\ Pending(e) /\ Available(e, t) /\ attempts[e] < MaxAttempts
              /\ outcome'[e] = "pending" /\ attempts'[e] = attempts[e] + 1
              /\ retryAt'[e] = retryAt[e]
              /\ claim'[e] = [owner |-> w, token |-> attempts[e] + 1,
                              exp |-> t + LeaseSeconds]
           \/ /\ outcome'[e] = outcome[e] /\ attempts'[e] = attempts[e]
              /\ retryAt'[e] = retryAt[e] /\ claim'[e] = claim[e]
              /\ e \notin FirstValid(t)
  <1>1. CASE e \in Exhausted(t) \cup CorruptMet(t)
    <2>1. Pending(e) /\ Available(e, t)
      BY <1>1 DEF Exhausted, CorruptMet, Candidates, Claimable, AtHead
    <2>2. e \notin FirstValid(t)
      <3>1. CASE e \in Exhausted(t)
        BY <3>1, StoreAssumption
           DEF Exhausted, FirstValid, Candidates, Claimable, TypeOK
      <3>2. CASE e \in CorruptMet(t)
        BY <3>2 DEF CorruptMet, FirstValid
      <3> QED
        BY <1>1, <3>1, <3>2
    <2> QED
      BY <1>1, <2>1, <2>2 DEF ClaimEvents
  <1>2. CASE e \in FirstValid(t) /\ e \notin Exhausted(t) \cup CorruptMet(t)
    <2>1. Pending(e) /\ Available(e, t) /\ attempts[e] < MaxAttempts
      BY <1>2 DEF FirstValid, Candidates, Claimable
    <2> QED
      BY <1>2, <2>1 DEF ClaimEvents
  <1>3. CASE e \notin FirstValid(t) /\ e \notin Exhausted(t) \cup CorruptMet(t)
    BY <1>3 DEF ClaimEvents
  <1> QED
    BY <1>1, <1>2, <1>3

-----------------------------------------------------------------------------
(* Type correctness. *)

LEMMA InitType == Init => TypeOK
  BY DEF Init, TypeOK, NoClaim, NoLease, Outcomes

LEMMA SettleType ==
    ASSUME TypeOK, NEW w \in Workers, NEW e \in Events, NEW k \in Nat,
           NEW t \in Nat, NEW o \in Outcomes, NEW r \in Nat,
           Settle(w, e, k, t, o, r)
    PROVE  TypeOK'
  <1>1. NoClaim \in [owner : Workers \cup {NoWorker}, token : Nat, exp : Nat]
    BY DEF NoClaim
  <1> QED
    BY <1>1 DEF TypeOK, Settle

LEMMA NextType == TypeOK /\ [Next]_storeVars => TypeOK'
  <1> SUFFICES ASSUME TypeOK, [Next]_storeVars PROVE TypeOK'
    OBVIOUS
  <1>1. ASSUME NEW e \in Events, StoreEvent(e) PROVE TypeOK'
    BY <1>1, StoreAssumption DEF StoreEvent, TypeOK
  <1>2. ASSUME NEW w \in Workers, NEW t \in Nows PROVE ClaimEvents(w, t) => TypeOK'
    <2> SUFFICES ASSUME ClaimEvents(w, t) PROVE TypeOK'
      OBVIOUS
    <2>1. t \in Nat
      BY NowsLemma
    <2>2. UNCHANGED <<clock, recv, lease>>
      BY DEF ClaimEvents
    <2>3. outcome' \in [Events -> Outcomes]
      BY DEF ClaimEvents, TypeOK, Outcomes
    <2>4. attempts' \in [Events -> Nat] /\ retryAt' \in [Events -> Nat]
      BY DEF ClaimEvents, TypeOK
    <2>5. claim' \in [Events -> [owner : Workers \cup {NoWorker},
                                 token : Nat, exp : Nat]]
      BY <2>1, StoreAssumption DEF ClaimEvents, TypeOK, NoClaim
    <2> QED
      BY <2>2, <2>3, <2>4, <2>5 DEF TypeOK
  <1>3. ASSUME NEW w \in Workers, NEW t \in Nows, NEW e \in Events, ClaimOp(w, e, t)
        PROVE  TypeOK'
    <2>1. PICK k \in 1..MaxAttempts :
             \/ RenewEventClaim(w, e, k, t)
             \/ CompleteEvent(w, e, k, t)
             \/ \E retryable \in BOOLEAN : FailEvent(w, e, k, t, retryable)
             \/ ReleaseEventClaim(w, e, k, t)
      BY <1>3 DEF ClaimOp
    <2>2. t \in Nat /\ k \in Nat
      BY NowsLemma, StoreAssumption
    <2>3. CASE RenewEventClaim(w, e, k, t)
      BY <2>2, <2>3, StoreAssumption DEF RenewEventClaim, TypeOK
    <2>4. CASE CompleteEvent(w, e, k, t)
      BY <2>2, <2>4, SettleType DEF CompleteEvent, Outcomes
    <2>5. CASE \E retryable \in BOOLEAN : FailEvent(w, e, k, t, retryable)
      <3>1. \A d \in RetryDelays : t + d \in Nat
        BY <2>2, StoreAssumption
      <3> QED
        BY <2>2, <2>5, <3>1, SettleType DEF FailEvent, Outcomes
    <2>6. CASE ReleaseEventClaim(w, e, k, t)
      <3>1. retryAt[e] \in Nat
        BY DEF TypeOK
      <3> QED
        BY <2>2, <2>6, <3>1, SettleType DEF ReleaseEventClaim, Outcomes
    <2> QED
      BY <2>1, <2>3, <2>4, <2>5, <2>6
  <1>4. ASSUME NEW w \in Workers, NEW t \in Nows, LeaseOp(w, t) PROVE TypeOK'
    <2>1. t \in Nat
      BY NowsLemma
    <2> QED
      BY <1>4, <2>1, StoreAssumption
         DEF LeaseOp, AcquireWorkerLease, RenewWorkerLease, ReleaseWorkerLease,
             TypeOK, NoLease
  <1>5. CASE Tick
    BY <1>5 DEF Tick, TypeOK
  <1>6. CASE UNCHANGED storeVars
    BY <1>6 DEF storeVars, TypeOK
  <1> QED
    BY <1>1, <1>2, <1>3, <1>4, <1>5, <1>6 DEF Next

\* Every column of both tables keeps its type.
THEOREM TypeCorrect == Spec => []TypeOK
  BY InitType, NextType, PTL DEF Spec

-----------------------------------------------------------------------------
(* Leadership and order: the inductive invariant. *)

LEMMA InitIInv == Init => IInv
  <1> SUFFICES ASSUME Init PROVE IInv
    OBVIOUS
  <1>1. TypeOK
    BY InitType
  <1>2. ClaimsAreOnPendingRows /\ UnstoredIsUntouched
    BY DEF Init, ClaimsAreOnPendingRows, UnstoredIsUntouched, NoClaim
  <1>3. OneWorkerHoldsTheLiveClaims
    BY DEF Init, OneWorkerHoldsTheLiveClaims, Live, NoClaim
  <1>4. SessionsAreServedInOrder
    BY DEF Init, SessionsAreServedInOrder, Precedes
  <1> QED
    BY <1>1, <1>2, <1>3, <1>4 DEF IInv

\* A step that only ends or renews a claim, and keeps the order of the rows.
LEMMA SettleIInv ==
    ASSUME IInv, NEW w \in Workers, NEW e \in Events, NEW k \in Nat,
           NEW t \in Nat, NEW o \in Outcomes, NEW r \in Nat,
           Settle(w, e, k, t, o, r)
    PROVE  IInv'
  <1>1. TypeOK'
    BY SettleType DEF IInv
  <1> USE DEF IInv
  <1>2. ClaimsAreOnPendingRows'
    BY DEF Settle, Holds, ClaimsAreOnPendingRows, Pending, TypeOK, NoClaim
  <1>3. UnstoredIsUntouched'
    <2>1. recv[e] # 0
      BY StoreAssumption DEF Settle, Holds, ClaimsAreOnPendingRows, Pending
    <2> QED
      BY <2>1 DEF Settle, UnstoredIsUntouched, TypeOK
  <1>4. OneWorkerHoldsTheLiveClaims'
    BY DEF Settle, OneWorkerHoldsTheLiveClaims, Live, TypeOK, NoClaim
  <1>5. SessionsAreServedInOrder'
    <2>1. \A f \in Events : outcome[f] \in Terminal => outcome'[f] \in Terminal
      BY DEF Settle, Holds, TypeOK
    <2> QED
      BY <2>1 DEF Settle, SessionsAreServedInOrder, Precedes
  <1> QED
    BY <1>1, <1>2, <1>3, <1>4, <1>5

\* Before a claimed event, everything in its session is settled by the claim.
LEMMA ClaimedAtHead ==
    ASSUME TypeOK, NEW w \in Workers, NEW t \in Nows, ClaimEvents(w, t),
           NEW e \in Events, NEW f \in FirstValid(t),
           recv[e] # 0, Precedes(e, f)
    PROVE  outcome'[e] \in Terminal
  <1>1. f \in Candidates(t) /\ f \in Events
    BY DEF FirstValid, Candidates
  <1>2. CASE ~Pending(e)
    <2>1. outcome[e] \in Terminal
      BY <1>2 DEF Pending
    <2> QED
      BY <2>1, ClaimLemma DEF Pending, Terminal
  <1>3. CASE e \in Exhausted(t)
    BY <1>3 DEF ClaimEvents, Terminal
  <1>4. CASE Pending(e) /\ e \notin Exhausted(t)
    <2>1. e \in Corrupt /\ Claimable(e, t)
      BY <1>1, <1>4 DEF Candidates
    <2>2. \A p \in Events : Precedes(p, e) => Precedes(p, f)
      BY <1>1 DEF Precedes, TypeOK
    <2>3. e \in Candidates(t)
      BY <1>1, <2>1, <2>2 DEF Candidates
    <2>4. \A g \in FirstValid(t) : recv[e] < recv[g]
      <3>1. \A g \in FirstValid(t) : g \in Events /\ recv[f] <= recv[g]
        BY <1>1 DEF FirstValid, Candidates
      <3> QED
        BY <1>1, <3>1 DEF Precedes, TypeOK
    <2>5. e \in CorruptMet(t)
      BY <2>1, <2>3, <2>4 DEF CorruptMet
    <2> QED
      BY <2>5 DEF ClaimEvents, Terminal
  <1> QED
    BY <1>2, <1>3, <1>4

LEMMA ClaimIInv ==
    ASSUME IInv, NEW w \in Workers, NEW t \in Nows, ClaimEvents(w, t)
    PROVE  IInv'
  <1>1. TypeOK'
    <2>1. [Next]_storeVars
      BY DEF Next
    <2> QED
      BY <2>1, NextType DEF IInv
  <1> USE DEF IInv
  <1>2. t \in Nat /\ t <= clock
    BY NowsLemma
  <1>3. lease.owner = w /\ UNCHANGED <<clock, recv, lease>>
    BY DEF ClaimEvents, Leads
  <1>4. w # NoWorker /\ lease # NoLease
    BY <1>3, StoreAssumption DEF NoLease
  <1>5. ClaimsAreOnPendingRows'
    <2> SUFFICES ASSUME NEW e \in Events, claim'[e].owner # NoWorker
                 PROVE  /\ recv[e] # 0 /\ outcome'[e] \notin Terminal
                        /\ attempts'[e] > 0
      BY <1>3 DEF ClaimsAreOnPendingRows, Pending
    <2>1. CASE claim'[e] = NoClaim
      BY <2>1 DEF NoClaim
    <2>2. CASE e \in FirstValid(t)
      <3>1. /\ Pending(e) /\ outcome'[e] = "pending"
            /\ attempts'[e] = attempts[e] + 1
        BY <2>2, ClaimLemma
      <3>2. attempts[e] \in Nat
        BY DEF TypeOK
      <3>3. attempts[e] + 1 > 0
        BY <3>2
      <3> QED
        BY <3>1, <3>3 DEF Pending, Terminal
    <2>3. CASE /\ outcome'[e] = outcome[e] /\ claim'[e] = claim[e]
               /\ attempts'[e] = attempts[e]
      BY <2>3 DEF ClaimsAreOnPendingRows, Pending
    <2> QED
      BY <2>1, <2>2, <2>3, ClaimLemma
  <1>6. UnstoredIsUntouched'
    BY <1>3, ClaimLemma DEF UnstoredIsUntouched, Pending
  <1>7. OneWorkerHoldsTheLiveClaims'
    <2>1. ASSUME NEW e \in Events, Live(e)' PROVE claim'[e].owner = w
      <3>1. CASE claim'[e] = claim[e]
        BY <2>1, <3>1, <1>3, <1>4 DEF Live, OneWorkerHoldsTheLiveClaims
      <3>2. CASE claim'[e] = NoClaim
        BY <2>1, <3>2 DEF Live, NoClaim
      <3>3. CASE claim'[e] = [owner |-> w, token |-> attempts[e] + 1,
                              exp |-> t + LeaseSeconds]
        BY <3>3
      <3> QED
        BY <3>1, <3>2, <3>3, ClaimLemma
    <2> QED
      BY <2>1, <1>3 DEF OneWorkerHoldsTheLiveClaims
  <1>8. SessionsAreServedInOrder'
    <2> SUFFICES ASSUME NEW e \in Events, NEW f \in Events,
                        recv[e] # 0, Precedes(e, f), attempts'[f] > 0
                 PROVE  outcome'[e] \in Terminal
      BY <1>3 DEF SessionsAreServedInOrder, Precedes
    <2>1. CASE f \in FirstValid(t)
      BY <2>1, ClaimedAtHead
    <2>2. CASE attempts'[f] = attempts[f]
      <3>1. outcome[e] \in Terminal
        BY <2>2 DEF SessionsAreServedInOrder
      <3> QED
        BY <3>1, ClaimLemma DEF Pending, Terminal
    <2> QED
      BY <2>1, <2>2, ClaimLemma
  <1> QED
    BY <1>1, <1>5, <1>6, <1>7, <1>8

LEMMA NextIInv == IInv /\ [Next]_storeVars => IInv'
  <1> SUFFICES ASSUME IInv, [Next]_storeVars PROVE IInv'
    OBVIOUS
  <1> USE DEF IInv
  <1>0. TypeOK'
    BY NextType
  <1>1. ASSUME NEW e \in Events, StoreEvent(e) PROVE IInv'
    <2>1. ClaimsAreOnPendingRows' /\ UnstoredIsUntouched'
      BY <1>1, StoreAssumption DEF StoreEvent, ClaimsAreOnPendingRows, UnstoredIsUntouched, Pending, TypeOK
    <2>2. OneWorkerHoldsTheLiveClaims'
      BY <1>1 DEF StoreEvent, OneWorkerHoldsTheLiveClaims, Live
    <2>3. SessionsAreServedInOrder'
      BY <1>1, StoreAssumption DEF StoreEvent, SessionsAreServedInOrder, UnstoredIsUntouched, Precedes, TypeOK
    <2> QED
      BY <1>0, <2>1, <2>2, <2>3
  <1>2. ASSUME NEW w \in Workers, NEW t \in Nows, ClaimEvents(w, t) PROVE IInv'
    BY <1>2, ClaimIInv
  <1>3. ASSUME NEW w \in Workers, NEW t \in Nows, NEW e \in Events, ClaimOp(w, e, t)
        PROVE  IInv'
    <2>1. PICK k \in 1..MaxAttempts :
             \/ RenewEventClaim(w, e, k, t)
             \/ CompleteEvent(w, e, k, t)
             \/ \E retryable \in BOOLEAN : FailEvent(w, e, k, t, retryable)
             \/ ReleaseEventClaim(w, e, k, t)
      BY <1>3 DEF ClaimOp
    <2>2. t \in Nat /\ k \in Nat /\ t <= clock /\ retryAt[e] \in Nat
      BY NowsLemma, StoreAssumption DEF TypeOK
    <2>3. CASE RenewEventClaim(w, e, k, t)
      <3>1. ClaimsAreOnPendingRows' /\ UnstoredIsUntouched'
        BY <2>3 DEF RenewEventClaim, ClaimsAreOnPendingRows, UnstoredIsUntouched,
                    Pending, TypeOK
      <3>2. OneWorkerHoldsTheLiveClaims'
        <4>1. lease.owner = w /\ lease # NoLease /\ claim'[e].owner = w
          BY <2>3, StoreAssumption DEF RenewEventClaim, Leads, Holds, NoLease, TypeOK
        <4> QED
          BY <2>3, <4>1 DEF RenewEventClaim, OneWorkerHoldsTheLiveClaims, Live, TypeOK
      <3>3. SessionsAreServedInOrder'
        BY <2>3 DEF RenewEventClaim, SessionsAreServedInOrder, Precedes
      <3> QED
        BY <1>0, <3>1, <3>2, <3>3
    <2>4. CASE CompleteEvent(w, e, k, t)
      BY <2>2, <2>4, SettleIInv DEF CompleteEvent, Outcomes
    <2>5. CASE \E retryable \in BOOLEAN : FailEvent(w, e, k, t, retryable)
      <3>1. \A d \in RetryDelays : t + d \in Nat
        BY <2>2, StoreAssumption
      <3> QED
        BY <2>2, <2>5, <3>1, SettleIInv DEF FailEvent, Outcomes
    <2>6. CASE ReleaseEventClaim(w, e, k, t)
      BY <2>2, <2>6, SettleIInv DEF ReleaseEventClaim, Outcomes
    <2> QED
      BY <2>1, <2>3, <2>4, <2>5, <2>6
  <1>4. ASSUME NEW w \in Workers, NEW t \in Nows, LeaseOp(w, t) PROVE IInv'
    <2>1. t \in Nat /\ t <= clock
      BY NowsLemma
    <2>2. UNCHANGED <<clock, recv, outcome, attempts, retryAt, claim>>
      BY <1>4 DEF LeaseOp, AcquireWorkerLease, RenewWorkerLease, ReleaseWorkerLease
    <2>3. ClaimsAreOnPendingRows' /\ UnstoredIsUntouched' /\ SessionsAreServedInOrder'
      BY <2>2 DEF ClaimsAreOnPendingRows, UnstoredIsUntouched, SessionsAreServedInOrder,
                  Pending, Precedes
    <2>4. OneWorkerHoldsTheLiveClaims'
      <3>1. CASE AcquireWorkerLease(w, t)
        <4>1. ASSUME NEW e \in Events, Live(e) PROVE claim[e].owner = w
          <5>1. Pending(e) /\ ~(claim[e].exp <= t)
            BY <2>1, <4>1 DEF Live, ClaimsAreOnPendingRows, TypeOK
          <5>2. CASE lease.exp > t
            BY <3>1, <4>1, <5>2, StoreAssumption
               DEF AcquireWorkerLease, MayAcquire, OneWorkerHoldsTheLiveClaims, NoLease
          <5>3. CASE ~(lease.exp > t)
            BY <3>1, <4>1, <5>1, <5>3 DEF AcquireWorkerLease, MayAcquire, Live
          <5> QED
            BY <5>2, <5>3
        <4>2. lease'.owner = w
          BY <3>1 DEF AcquireWorkerLease, MayAcquire
        <4> QED
          BY <2>2, <4>1, <4>2 DEF OneWorkerHoldsTheLiveClaims, Live
      <3>2. CASE RenewWorkerLease(w, t)
        <4>1. lease.owner = w /\ lease # NoLease /\ lease'.owner = w
          BY <3>2, StoreAssumption DEF RenewWorkerLease, Leads, NoLease
        <4> QED
          BY <2>2, <4>1 DEF OneWorkerHoldsTheLiveClaims, Live
      <3>3. CASE ReleaseWorkerLease(w, t)
        BY <2>2, <3>3 DEF ReleaseWorkerLease, OneWorkerHoldsTheLiveClaims, Live
      <3> QED
        BY <1>4, <3>1, <3>2, <3>3 DEF LeaseOp
    <2> QED
      BY <1>0, <2>3, <2>4
  <1>5. CASE Tick
    <2>1. ClaimsAreOnPendingRows' /\ UnstoredIsUntouched' /\ SessionsAreServedInOrder'
      BY <1>5 DEF Tick, ClaimsAreOnPendingRows, UnstoredIsUntouched,
                  SessionsAreServedInOrder, Pending, Precedes
    <2>2. \A e \in Events : Live(e)' => Live(e)
      BY <1>5 DEF Tick, Live, TypeOK
    <2>3. OneWorkerHoldsTheLiveClaims'
      BY <1>5, <2>2 DEF Tick, OneWorkerHoldsTheLiveClaims
    <2> QED
      BY <1>0, <2>1, <2>3
  <1>6. CASE UNCHANGED storeVars
    BY <1>6, <1>0 DEF storeVars, ClaimsAreOnPendingRows, UnstoredIsUntouched,
       OneWorkerHoldsTheLiveClaims, Live, SessionsAreServedInOrder, Pending, Precedes
  <1> QED
    BY <1>1, <1>2, <1>3, <1>4, <1>5, <1>6 DEF Next

\* However leases lapse and are taken over, and however late the transactions
\* run, the live claims of events belong to one worker.
THEOREM OneWorker == Spec => []OneWorkerHoldsTheLiveClaims
  <1>1. IInv => OneWorkerHoldsTheLiveClaims
    BY DEF IInv
  <1> QED
    BY <1>1, InitIInv, NextIInv, PTL DEF Spec

\* No event is tried before its predecessors in the session are settled.
THEOREM InOrder == Spec => []SessionsAreServedInOrder
  <1>1. IInv => SessionsAreServedInOrder
    BY DEF IInv
  <1> QED
    BY <1>1, InitIInv, NextIInv, PTL DEF Spec

-----------------------------------------------------------------------------
(* Rows are settled once, and the queue refines SessionQueue. *)

LEMMA SettleSettlesOnce ==
    ASSUME TypeOK, NEW w \in Workers, NEW e \in Events, NEW k \in Nat,
           NEW t \in Nat, NEW o \in Outcomes, NEW r \in Nat,
           Settle(w, e, k, t, o, r)
    PROVE  SettlesOnce
  BY DEF Settle, Holds, SettlesOnce, TypeOK

LEMMA NextSettlesOnce == TypeOK /\ [Next]_storeVars => [SettlesOnce]_storeVars
  <1> SUFFICES ASSUME TypeOK, Next PROVE SettlesOnce
    OBVIOUS
  <1>1. ASSUME UNCHANGED <<outcome, attempts>> PROVE SettlesOnce
    BY <1>1 DEF SettlesOnce
  <1>2. ASSUME NEW w \in Workers, NEW t \in Nows, ClaimEvents(w, t)
        PROVE  SettlesOnce
    <2>1. t \in Nat /\ t <= clock
      BY NowsLemma
    <2> SUFFICES ASSUME NEW e \in Events
                 PROVE  /\ outcome[e] \in Terminal => outcome'[e] = outcome[e]
                        /\ attempts'[e] # attempts[e] =>
                              /\ attempts'[e] = attempts[e] + 1
                              /\ attempts'[e] <= MaxAttempts
                              /\ ~Live(e)
      BY DEF SettlesOnce
    <2>2. CASE Pending(e) /\ Available(e, t) /\ attempts'[e] = attempts[e]
      BY <2>2 DEF Pending
    <2>3. CASE /\ Pending(e) /\ Available(e, t)
               /\ attempts[e] < MaxAttempts /\ attempts'[e] = attempts[e] + 1
      <3>1. ~Live(e)
        BY <2>1, <2>3 DEF Available, Live, TypeOK
      <3> QED
        BY <2>3, <3>1, StoreAssumption DEF Pending, TypeOK
    <2>4. CASE outcome'[e] = outcome[e] /\ attempts'[e] = attempts[e]
      BY <2>4
    <2> QED
      BY <1>2, <2>2, <2>3, <2>4, ClaimLemma
  <1>3. ASSUME NEW w \in Workers, NEW t \in Nows, NEW e \in Events, ClaimOp(w, e, t)
        PROVE  SettlesOnce
    <2>1. PICK k \in 1..MaxAttempts :
             \/ RenewEventClaim(w, e, k, t)
             \/ CompleteEvent(w, e, k, t)
             \/ \E retryable \in BOOLEAN : FailEvent(w, e, k, t, retryable)
             \/ ReleaseEventClaim(w, e, k, t)
      BY <1>3 DEF ClaimOp
    <2>2. t \in Nat /\ k \in Nat /\ retryAt[e] \in Nat
      BY NowsLemma, StoreAssumption DEF TypeOK
    <2>3. CASE RenewEventClaim(w, e, k, t)
      BY <1>1, <2>3 DEF RenewEventClaim
    <2>4. CASE CompleteEvent(w, e, k, t)
      BY <2>2, <2>4, SettleSettlesOnce DEF CompleteEvent, Outcomes
    <2>5. CASE \E retryable \in BOOLEAN : FailEvent(w, e, k, t, retryable)
      <3>1. \A d \in RetryDelays : t + d \in Nat
        BY <2>2, StoreAssumption
      <3> QED
        BY <2>2, <2>5, <3>1, SettleSettlesOnce DEF FailEvent, Outcomes
    <2>6. CASE ReleaseEventClaim(w, e, k, t)
      BY <2>2, <2>6, SettleSettlesOnce DEF ReleaseEventClaim, Outcomes
    <2> QED
      BY <2>1, <2>3, <2>4, <2>5, <2>6
  <1>4. ASSUME NEW w \in Workers, NEW t \in Nows, LeaseOp(w, t) PROVE SettlesOnce
    BY <1>1, <1>4
       DEF LeaseOp, AcquireWorkerLease, RenewWorkerLease, ReleaseWorkerLease
  <1> QED
    BY <1>1, <1>2, <1>3, <1>4 DEF Next, StoreEvent, Tick

\* A settled event stays as it was settled; no event is tried more than
\* MaxAttempts times, nor while a claim on it is live.
THEOREM Once == Spec => SettledOnce
  BY TypeCorrect, NextSettlesOnce, PTL DEF Spec, SettledOnce

LEMMA UnsettledIsPending ==
    ASSUME NEW e \in Events
    PROVE  Queue!Unsettled(e) <=> Pending(e)
  BY DEF Queue!Unsettled, Pending, Terminal, Status

LEMMA SettleMaps ==
    ASSUME IInv, NEW w \in Workers, NEW e \in Events, NEW k \in Nat,
           NEW t \in Nat, NEW o \in Outcomes, NEW r \in Nat,
           Settle(w, e, k, t, o, r)
    PROVE  [Queue!Next]_(Queue!queueVars)
  <1> USE DEF IInv
  <1>1. /\ UNCHANGED recv
        /\ outcome' = [outcome EXCEPT ![e] = o]
    BY DEF Settle
  <1>2. Pending(e) /\ attempts[e] > 0
    BY StoreAssumption DEF Settle, Holds, ClaimsAreOnPendingRows
  <1>3. CASE o \in Terminal
    <2>1. Status' = [x \in Events |-> IF x \in {e} THEN o ELSE Status[x]]
      BY <1>1, <1>3 DEF Status, TypeOK
    <2>2. \A p \in Events : Queue!Unsettled(p) => ~Queue!Before(p, e)
      BY <1>2, UnsettledIsPending
         DEF SessionsAreServedInOrder, Queue!Before, Precedes, Pending
    <2>3. Queue!Unsettled(e)
      BY <1>2, UnsettledIsPending
    <2>4. Queue!SettleAll({e}, o)
      BY <1>1, <2>1, <2>2, <2>3 DEF Queue!SettleAll, Status
    <2> QED
      BY <1>3, <2>4 DEF Queue!Next, Terminal
  <1>4. CASE o \notin Terminal
    <2>1. outcome[e] \notin Terminal
      BY <1>2 DEF Pending
    <2>2. Status' = Status
      BY <1>1, <1>4, <2>1 DEF Status, TypeOK
    <2> QED
      BY <1>1, <2>2 DEF Queue!queueVars, Status
  <1> QED
    BY <1>3, <1>4

LEMMA ClaimMaps ==
    ASSUME IInv, NEW w \in Workers, NEW t \in Nows, ClaimEvents(w, t)
    PROVE  Queue!Next
  <1> DEFINE D == Exhausted(t) \cup CorruptMet(t)
  <1> USE DEF IInv
  <1>1. UNCHANGED recv
    BY DEF ClaimEvents
  <1>2. D \subseteq Events
    BY DEF Exhausted, CorruptMet, Candidates
  <1>3. ASSUME NEW e \in D PROVE Queue!Unsettled(e)
    BY <1>2, <1>3, UnsettledIsPending
       DEF Exhausted, CorruptMet, Candidates, Claimable, AtHead
  <1>4. ASSUME NEW e \in D, NEW p \in Events, Queue!Unsettled(p), Queue!Before(p, e)
        PROVE  p \in D
    <2>1. Pending(p) /\ Precedes(p, e)
      BY <1>2, <1>4, UnsettledIsPending DEF Queue!Before, Precedes
    <2>2. CASE e \in Exhausted(t)
      BY <2>1, <2>2 DEF Exhausted, AtHead
    <2>3. CASE e \in CorruptMet(t) /\ p \notin Exhausted(t)
      <3>1. e \in Candidates(t) /\ e \in Events
        BY <2>3 DEF CorruptMet, Candidates
      <3>2. p \in Corrupt /\ Claimable(p, t)
        BY <2>1, <2>3, <3>1 DEF Candidates
      <3>3. \A q \in Events : Precedes(q, p) => Precedes(q, e)
        BY <2>1, <3>1 DEF Precedes, TypeOK
      <3>4. p \in Candidates(t)
        BY <3>1, <3>2, <3>3 DEF Candidates
      <3>5. \A g \in FirstValid(t) : g \in Events /\ recv[e] < recv[g]
        BY <2>3 DEF CorruptMet, FirstValid, Candidates
      <3>6. \A g \in FirstValid(t) : recv[p] < recv[g]
        BY <2>1, <3>1, <3>5 DEF Precedes, TypeOK
      <3> QED
        BY <3>2, <3>4, <3>6 DEF CorruptMet
    <2> QED
      BY <1>4, <2>2, <2>3
  <1>5. Status' = [e \in Events |-> IF e \in D THEN "dead_letter" ELSE Status[e]]
    <2> SUFFICES ASSUME NEW e \in Events
                 PROVE  Status'[e] = IF e \in D THEN "dead_letter" ELSE Status[e]
      BY DEF Status
    <2>1. CASE e \in D
      BY <2>1 DEF ClaimEvents, Status, Terminal
    <2>2. CASE e \notin D /\ e \in FirstValid(t)
      <3>1. outcome[e] \notin Terminal /\ outcome'[e] = "pending"
        BY <2>2, ClaimLemma DEF Pending, ClaimEvents
      <3> QED
        BY <2>2, <3>1 DEF Status, Terminal
    <2>3. CASE e \notin D /\ e \notin FirstValid(t)
      BY <2>3 DEF ClaimEvents, Status
    <2> QED
      BY <2>1, <2>2, <2>3
  <1>6. Queue!SettleAll(D, "dead_letter")
    BY <1>1, <1>3, <1>4, <1>5 DEF Queue!SettleAll, Status
  <1> QED
    BY <1>2, <1>6 DEF Queue!Next

LEMMA NextMaps == IInv /\ [Next]_storeVars => [Queue!Next]_(Queue!queueVars)
  <1> SUFFICES ASSUME IInv, [Next]_storeVars PROVE [Queue!Next]_(Queue!queueVars)
    OBVIOUS
  <1>1. ASSUME UNCHANGED <<recv, outcome>>
        PROVE  UNCHANGED Queue!queueVars
    BY <1>1 DEF Queue!queueVars, Status
  <1>2. ASSUME NEW e \in Events, StoreEvent(e) PROVE Queue!Next
    BY <1>2 DEF StoreEvent, Queue!Store, Queue!Next, Status
  <1>3. ASSUME NEW w \in Workers, NEW t \in Nows, ClaimEvents(w, t) PROVE Queue!Next
    BY <1>3, ClaimMaps
  <1>4. ASSUME NEW w \in Workers, NEW t \in Nows, NEW e \in Events, ClaimOp(w, e, t)
        PROVE  [Queue!Next]_(Queue!queueVars)
    <2>1. PICK k \in 1..MaxAttempts :
             \/ RenewEventClaim(w, e, k, t)
             \/ CompleteEvent(w, e, k, t)
             \/ \E retryable \in BOOLEAN : FailEvent(w, e, k, t, retryable)
             \/ ReleaseEventClaim(w, e, k, t)
      BY <1>4 DEF ClaimOp
    <2>2. t \in Nat /\ k \in Nat /\ retryAt[e] \in Nat
      BY NowsLemma, StoreAssumption DEF TypeOK, IInv
    <2>3. CASE RenewEventClaim(w, e, k, t)
      BY <1>1, <2>3 DEF RenewEventClaim
    <2>4. CASE CompleteEvent(w, e, k, t)
      BY <2>2, <2>4, SettleMaps DEF CompleteEvent, Outcomes
    <2>5. CASE \E retryable \in BOOLEAN : FailEvent(w, e, k, t, retryable)
      <3>1. \A d \in RetryDelays : t + d \in Nat
        BY <2>2, StoreAssumption
      <3> QED
        BY <2>2, <2>5, <3>1, SettleMaps DEF FailEvent, Outcomes
    <2>6. CASE ReleaseEventClaim(w, e, k, t)
      BY <2>2, <2>6, SettleMaps DEF ReleaseEventClaim, Outcomes
    <2> QED
      BY <2>1, <2>3, <2>4, <2>5, <2>6
  <1>5. ASSUME NEW w \in Workers, NEW t \in Nows, LeaseOp(w, t)
        PROVE  UNCHANGED Queue!queueVars
    BY <1>1, <1>5
       DEF LeaseOp, AcquireWorkerLease, RenewWorkerLease, ReleaseWorkerLease
  <1>6. CASE Tick
    BY <1>1, <1>6 DEF Tick
  <1>7. CASE UNCHANGED storeVars
    BY <1>1, <1>7 DEF storeVars
  <1> QED
    BY <1>2, <1>3, <1>4, <1>5, <1>6, <1>7 DEF Next

LEMMA InitMaps == Init => Queue!Init
  BY DEF Init, Queue!Init, Terminal, Status

\* The event queue is, session by session, a first-in first-out queue that
\* settles every row once, whatever workers and leases do.
THEOREM Refinement == Spec => ImplementsSessionQueue
  <1>1. Spec => []IInv
    BY InitIInv, NextIInv, PTL DEF Spec
  <1> QED
    BY <1>1, InitMaps, NextMaps, PTL DEF Spec, ImplementsSessionQueue, Queue!Spec

-----------------------------------------------------------------------------
(* The queue on MongoDB.                                                    *)

\* Rows that are stored and have everything before them in their session settled.
AtHeads(rows) ==
    \A e \in rows :
        recv[e] # 0 /\ \A p \in Events : Pending(p) => ~Precedes(p, e)

\* The rows a call sweeps or takes were heads when it read them, and stay heads.
CallsAreOfHeads ==
    \A c \in calls : /\ c.time <= clock
                     /\ c.at \in {"sweep", "take"} => AtHeads(c.rows)

\* An event being stored comes after everything stored in its session, and no
\* other new event of that session is being stored; how far the copies are.
StoresAreNext ==
    \A s \in stores :
        /\ s.place \in Places
        /\ recv[s.event] = 0 =>
              /\ \A f \in Events :
                    SessionOf[f] = SessionOf[s.event] => recv[f] < s.place
              /\ \A r \in stores :
                    SessionOf[r.event] = SessionOf[s.event] /\ recv[r.event] = 0
                       => r.event = s.event
        /\ s.at \in {"insert in mirror", "verify"} => recv[s.event] = s.place
        /\ s.at = "verify" => mirror[s.event] = s.place

MongoIInv ==
    /\ MongoTypeOK
    /\ ClaimsAreOnPendingRows
    /\ UnstoredIsUntouched
    /\ SessionsAreServedInOrder
    /\ CallsAreOfHeads
    /\ StoresAreNext
    /\ MirrorAgrees

LEMMA MongoInitIInv == MongoInit => MongoIInv
  <1> SUFFICES ASSUME MongoInit PROVE MongoIInv
    OBVIOUS
  <1>1. Init /\ calls = {} /\ stores = {} /\ acked = {}
    BY DEF MongoInit
  <1>2. IInv
    BY <1>1, InitIInv
  <1>3. MongoTypeOK
    BY <1>1, <1>2 DEF MongoInit, MongoTypeOK, IInv
  <1>4. CallsAreOfHeads /\ StoresAreNext /\ MirrorAgrees
    BY <1>1 DEF CallsAreOfHeads, StoresAreNext, MirrorAgrees, MongoInit
  <1> QED
    BY <1>2, <1>3, <1>4 DEF MongoIInv, IInv

LEMMA CallTypes ==
    ASSUME MongoTypeOK, NEW c \in calls
    PROVE  /\ c \in Calls
           /\ c.worker \in Workers /\ c.time \in Nat /\ c.rows \subseteq Events
           /\ c.token \in Nat /\ c.outcome \in Outcomes /\ c.due \in Nat
  BY DEF MongoTypeOK, Calls

LEMMA NewCallType ==
    ASSUME NEW w \in Workers, NEW t \in Nat,
           NEW at \in {"heads", "pick", "acquire", "renew", "settle", "attempts"}
    PROVE  NewCall(w, t, at) \in Calls
  BY DEF NewCall, Calls, Outcomes

LEMMA AboutType ==
    ASSUME TypeOK, NEW w \in Workers, NEW e \in Events, NEW t \in Nat,
           NEW at \in {"renew", "settle", "attempts"}
    PROVE  /\ About(w, e, at, t) \in Calls
           /\ \A o \in Outcomes : [About(w, e, at, t) EXCEPT !.outcome = o] \in Calls
  <1>1. claim[e].token \in Nat
    BY DEF TypeOK
  <1> QED
    BY <1>1 DEF About, NewCall, Calls, Outcomes

\* Calls begin, go on and return without touching any other call.
LEMMA CallsType ==
    ASSUME MongoTypeOK, NEW c \in calls
    PROVE  /\ Returns(c) => calls' \subseteq Calls
           /\ \A d \in Calls : Goes(c, d) => calls' \subseteq Calls
  BY DEF MongoTypeOK, Returns, Goes

LEMMA BeginsType ==
    ASSUME MongoTypeOK, NEW d \in Calls, Begins(d)
    PROVE  calls' \subseteq Calls
  BY DEF MongoTypeOK, Begins

LEMMA StoringTypes ==
    ASSUME MongoTypeOK, NEW s \in stores
    PROVE  /\ s.event \in Events /\ s.place \in Nat
           /\ StoreEnds(s) => stores' \subseteq Stores
           /\ \A at \in {"look in mirror", "insert", "insert in mirror", "verify"} :
                 StoreGoes(s, at) => stores' \subseteq Stores
  BY DEF MongoTypeOK, Stores, StoreEnds, StoreGoes

LEMMA StoringType ==
    ASSUME MongoTypeOK, NEW s \in stores, StoringStep(s)
    PROVE  MongoTypeOK'
  <1> USE StoringTypes
  <1>1. CASE LookForEvent(s)
    BY <1>1 DEF LookForEvent, MongoTypeOK, TypeOK, storeVars
  <1>2. CASE LookInMirror(s)
    BY <1>2 DEF LookInMirror, MongoTypeOK, TypeOK, storeVars
  <1>3. CASE InsertEvent(s)
    BY <1>3 DEF InsertEvent, MongoTypeOK, TypeOK
  <1>4. CASE InsertInMirror(s)
    BY <1>4 DEF InsertInMirror, MongoTypeOK, TypeOK, storeVars
  <1>5. CASE Acknowledge(s)
    BY <1>5 DEF Acknowledge, MongoTypeOK, TypeOK, storeVars
  <1>6. CASE StoreFails(s)
    BY <1>6 DEF StoreFails, MongoTypeOK, TypeOK, storeVars
  <1> QED
    BY <1>1, <1>2, <1>3, <1>4, <1>5, <1>6 DEF StoringStep

LEMMA CallType ==
    ASSUME MongoTypeOK, NEW c \in calls, CallStep(c)
    PROVE  MongoTypeOK'
  <1> USE CallTypes, CallsType DEF MongoTypeOK
  <1>0. ASSUME NEW e \in Events, Bury(e)
        PROVE  /\ outcome' \in [Events -> Outcomes]
               /\ retryAt' \in [Events -> Nat]
               /\ claim' \in [Events -> [owner : Workers \cup {NoWorker},
                                         token : Nat, exp : Nat]]
               /\ UNCHANGED attempts
    BY <1>0 DEF Bury, TypeOK, NoClaim, Outcomes
  <1>1. CASE ReadExhausted(c)
    <2>1. [c EXCEPT !.at = "sweep", !.rows = Exhausted(c.time)] \in Calls
      BY DEF Calls, Exhausted
    <2> QED
      BY <1>1, <2>1 DEF ReadExhausted, TypeOK, storeVars
  <1>2. CASE SweepRow(c)
    <2>1. PICK e \in c.rows :
             /\ IF Pending(e) /\ Available(e, c.time) /\ attempts[e] >= MaxAttempts
                THEN Bury(e) ELSE UNCHANGED <<outcome, attempts, retryAt, claim>>
             /\ Goes(c, [c EXCEPT !.rows = @ \ {e}])
      BY <1>2 DEF SweepRow
    <2>2. [c EXCEPT !.rows = @ \ {e}] \in Calls
      BY DEF Calls
    <2> QED
      BY <1>0, <1>2, <2>1, <2>2 DEF SweepRow, TypeOK
  <1>3. CASE PickHead(c)
    <2>1. \A e \in Events : [c EXCEPT !.at = "take", !.rows = {e}] \in Calls
      BY DEF Calls
    <2> QED
      BY <1>3, <2>1 DEF PickHead, ClaimableHeads, TypeOK, storeVars
  <1>4. CASE TakeHead(c)
    <2>1. PICK e \in c.rows :
             IF Claimable(e, c.time)
             THEN /\ attempts' = [attempts EXCEPT ![e] = @ + 1]
                  /\ outcome' = [outcome EXCEPT ![e] = "pending"]
                  /\ claim' = [claim EXCEPT ![e] =
                                 [owner |-> c.worker, token |-> attempts[e] + 1,
                                  exp |-> c.time + LeaseSeconds]]
                  /\ IF e \in Corrupt
                     THEN Goes(c, [c EXCEPT !.at = "discard", !.token = attempts[e] + 1])
                     ELSE Returns(c)
             ELSE Returns(c) /\ UNCHANGED <<attempts, outcome, claim>>
      BY <1>4 DEF TakeHead
    <2>2. attempts[e] + 1 \in Nat
      BY DEF TypeOK
    <2>3. [c EXCEPT !.at = "discard", !.token = attempts[e] + 1] \in Calls
      BY <2>2 DEF Calls
    <2>4. calls' \subseteq Calls
      BY <2>1, <2>3
    <2>5. c.time + LeaseSeconds \in Nat
      BY StoreAssumption
    <2>6. [owner |-> c.worker, token |-> attempts[e] + 1, exp |-> c.time + LeaseSeconds]
             \in [owner : Workers \cup {NoWorker}, token : Nat, exp : Nat]
      BY <2>2, <2>5
    <2>7. attempts' \in [Events -> Nat] /\ outcome' \in [Events -> Outcomes]
      BY <2>1, <2>2 DEF TypeOK, Outcomes
    <2>8. claim' \in [Events -> [owner : Workers \cup {NoWorker},
                                 token : Nat, exp : Nat]]
      BY <2>1, <2>6 DEF TypeOK
    <2>9. UNCHANGED <<clock, recv, retryAt, lease, stores, mirror, acked>>
      BY <1>4 DEF TakeHead
    <2> QED
      BY <2>4, <2>7, <2>8, <2>9 DEF TypeOK
  <1>5. CASE Discard(c)
    <2>1. NewCall(c.worker, c.time, "pick") \in Calls
      BY NewCallType
    <2>2. calls' \subseteq Calls
      BY <1>5, <2>1 DEF Discard
    <2> QED
      BY <1>0, <1>5, <2>2 DEF Discard, TypeOK
  <1>6. CASE RenewRow(c)
    <2>1. c.time + LeaseSeconds \in Nat
      BY StoreAssumption
    <2> QED
      BY <1>6, <2>1 DEF RenewRow, TypeOK
  <1>7. CASE ReadAttempts(c)
    <2>1. \A d \in RetryDelays : c.time + d \in Nat
      BY StoreAssumption
    <2>2. \A d \in RetryDelays : [c EXCEPT !.at = "settle", !.due = c.time + d] \in Calls
      BY <2>1 DEF Calls
    <2>3. [c EXCEPT !.at = "settle", !.outcome = "dead_letter"] \in Calls
      BY DEF Calls, Outcomes
    <2> QED
      BY <1>7, <2>2, <2>3 DEF ReadAttempts, TypeOK, storeVars
  <1>8. CASE SettleRow(c)
    <2>1. PICK e \in c.rows :
             IF Holds(c.worker, e, c.token, c.time)
             THEN /\ outcome' = [outcome EXCEPT ![e] = c.outcome]
                  /\ retryAt' = [retryAt EXCEPT ![e] =
                                   IF c.outcome = "pending" THEN @ ELSE c.due]
                  /\ claim' = [claim EXCEPT ![e] = NoClaim]
             ELSE UNCHANGED <<outcome, retryAt, claim>>
      BY <1>8 DEF SettleRow
    <2>2. NoClaim \in [owner : Workers \cup {NoWorker}, token : Nat, exp : Nat]
      BY DEF NoClaim
    <2>3. retryAt' \in [Events -> Nat]
      BY <2>1 DEF TypeOK
    <2>4. outcome' \in [Events -> Outcomes]
      BY <2>1 DEF TypeOK
    <2>5. claim' \in [Events -> [owner : Workers \cup {NoWorker}, token : Nat, exp : Nat]]
      BY <2>1, <2>2 DEF TypeOK
    <2>6. UNCHANGED <<clock, recv, attempts, lease, stores, mirror, acked>> /\ Returns(c)
      BY <1>8 DEF SettleRow
    <2> QED
      BY <2>3, <2>4, <2>5, <2>6 DEF TypeOK
  <1>9. CASE WriteLease(c)
    <2>1. c.time + LeaderSeconds \in Nat
      BY StoreAssumption
    <2> QED
      BY <1>9, <2>1 DEF WriteLease, TypeOK
  <1>10. CASE CallFails(c)
    BY <1>10 DEF CallFails, TypeOK, storeVars
  <1> QED
    BY <1>1, <1>2, <1>3, <1>4, <1>5, <1>6, <1>7, <1>8, <1>9, <1>10 DEF CallStep

LEMMA StartType ==
    ASSUME MongoTypeOK, NEW w \in Workers, NEW t \in Nows, StartCall(w, t)
    PROVE  MongoTypeOK'
  <1>1. t \in Nat
    BY NowsLemma DEF MongoTypeOK
  <1>2. UNCHANGED <<storeVars, stores, mirror, acked>>
    BY DEF StartCall, StartClaim, StartAcquiring, StartRenewal, StartSettling
  <1>3. calls' \subseteq Calls
    <2>1. CASE StartClaim(w, t) \/ StartAcquiring(w, t)
      BY <1>1, <2>1, NewCallType, BeginsType DEF StartClaim, StartAcquiring
    <2>2. ASSUME NEW e \in Events, StartRenewal(w, e, t) \/ StartSettling(w, e, t)
          PROVE  calls' \subseteq Calls
      BY <1>1, <2>2, AboutType, BeginsType
         DEF StartRenewal, StartSettling, MongoTypeOK, Outcomes
    <2> QED
      BY <2>1, <2>2 DEF StartCall
  <1> QED
    BY <1>2, <1>3 DEF MongoTypeOK, TypeOK, storeVars

LEMMA MongoNextType ==
    MongoTypeOK /\ [MongoNext]_<<storeVars, mongoVars>> => MongoTypeOK'
  <1> SUFFICES ASSUME MongoTypeOK, [MongoNext]_<<storeVars, mongoVars>> PROVE MongoTypeOK'
    OBVIOUS
  <1>1. ASSUME NEW e \in Events, StartStore(e) PROVE MongoTypeOK'
    <2>1. Places \subseteq Nat /\ recv[e] \in Nat
      BY StoreAssumption DEF MongoTypeOK, TypeOK
    <2>2. PICK n \in Places :
             stores' = stores \cup {[at |-> "look", event |-> e, place |-> n]}
      BY <1>1 DEF StartStore
    <2>3. [at |-> "look", event |-> e, place |-> n] \in Stores
      BY <2>1 DEF Stores
    <2>4. stores' \subseteq Stores
      BY <2>2, <2>3 DEF MongoTypeOK
    <2> QED
      BY <1>1, <2>4 DEF StartStore, MongoTypeOK, TypeOK, storeVars
  <1>2. ASSUME NEW s \in stores, StoringStep(s) PROVE MongoTypeOK'
    BY <1>2, StoringType
  <1>3. ASSUME NEW w \in Workers, NEW t \in Nows, StartCall(w, t) PROVE MongoTypeOK'
    BY <1>3, StartType
  <1>4. ASSUME NEW w \in Workers, NEW t \in Nows, LeaseUpdate(w, t) PROVE MongoTypeOK'
    <2>1. TypeOK'
      BY <1>4, NextType DEF LeaseUpdate, MongoTypeOK, Next, LeaseOp
    <2> QED
      BY <1>4, <2>1 DEF LeaseUpdate, MongoTypeOK, mongoVars
  <1>5. ASSUME NEW c \in calls, CallStep(c) PROVE MongoTypeOK'
    BY <1>5, CallType
  <1>6. CASE Tick /\ UNCHANGED mongoVars
    BY <1>6 DEF Tick, MongoTypeOK, TypeOK, mongoVars
  <1>7. CASE UNCHANGED <<storeVars, mongoVars>>
    BY <1>7 DEF storeVars, MongoTypeOK, TypeOK, mongoVars
  <1> QED
    BY <1>1, <1>2, <1>3, <1>4, <1>5, <1>6, <1>7 DEF MongoNext

-----------------------------------------------------------------------------
(* What a step on MongoDB does to the queue: it changes one row that is the *)
(* head of its session, it adds a row behind those of its session, or it    *)
(* changes nothing that the order depends on.                               *)

RowChange(e) ==
    /\ UNCHANGED recv
    /\ \A f \in Events \ {e} : /\ outcome'[f] = outcome[f]
                               /\ attempts'[f] = attempts[f]
                               /\ claim'[f] = claim[f]
    /\ Pending(e) /\ AtHeads({e})
    /\ claim'[e].owner # NoWorker => outcome'[e] \notin Terminal /\ attempts'[e] > 0
    /\ \/ attempts'[e] = attempts[e]
       \/ /\ attempts'[e] = attempts[e] + 1 /\ attempts[e] < MaxAttempts
          /\ ~Live(e)

RowAdded(e) ==
    /\ \E n \in Places :
          /\ recv[e] = 0 /\ recv' = [recv EXCEPT ![e] = n]
          /\ \A f \in Events : SessionOf[f] = SessionOf[e] => recv[f] < n
    /\ UNCHANGED <<outcome, attempts, claim>>

RowsStay == UNCHANGED <<recv, outcome, attempts, claim>>

QueueStep == RowsStay \/ \E e \in Events : RowChange(e) \/ RowAdded(e)

\* A claimed row is the head of its session.
LEMMA ClaimedIsHead ==
    ASSUME MongoIInv, NEW e \in Events, claim[e].owner # NoWorker
    PROVE  Pending(e) /\ AtHeads({e}) /\ attempts[e] > 0
  BY DEF MongoIInv, ClaimsAreOnPendingRows, SessionsAreServedInOrder, AtHeads, Pending

LEMMA BuryIsRowChange ==
    ASSUME MongoIInv, NEW e \in Events, Bury(e), UNCHANGED recv,
           Pending(e), AtHeads({e})
    PROVE  RowChange(e)
  BY DEF Bury, RowChange, MongoIInv, MongoTypeOK, TypeOK, NoClaim

LEMMA CallIsQueueStep ==
    ASSUME MongoIInv, NEW c \in calls, CallStep(c)
    PROVE  QueueStep
  <1> USE DEF MongoIInv
  <1>0. /\ c.rows \subseteq Events /\ c.time \in Nat /\ c.time <= clock
        /\ c.worker \in Workers /\ c.worker # NoWorker
    BY CallTypes, StoreAssumption DEF CallsAreOfHeads
  <1>1. CASE \/ ReadExhausted(c) \/ PickHead(c) \/ ReadAttempts(c)
             \/ WriteLease(c) \/ CallFails(c)
    BY <1>1 DEF ReadExhausted, PickHead, ReadAttempts, WriteLease, CallFails,
                storeVars, QueueStep, RowsStay
  <1>2. CASE SweepRow(c)
    <2>1. PICK e \in c.rows :
             IF Pending(e) /\ Available(e, c.time) /\ attempts[e] >= MaxAttempts
             THEN Bury(e) ELSE UNCHANGED <<outcome, attempts, retryAt, claim>>
      BY <1>2 DEF SweepRow
    <2>2. AtHeads({e})
      BY <1>2 DEF SweepRow, CallsAreOfHeads, AtHeads
    <2> QED
      BY <1>0, <1>2, <2>1, <2>2, BuryIsRowChange DEF SweepRow, QueueStep, RowsStay
  <1>3. CASE TakeHead(c)
    <2>1. PICK e \in c.rows :
             IF Claimable(e, c.time)
             THEN /\ attempts' = [attempts EXCEPT ![e] = @ + 1]
                  /\ outcome' = [outcome EXCEPT ![e] = "pending"]
                  /\ claim' = [claim EXCEPT ![e] =
                                 [owner |-> c.worker, token |-> attempts[e] + 1,
                                  exp |-> c.time + LeaseSeconds]]
             ELSE UNCHANGED <<attempts, outcome, claim>>
      BY <1>3 DEF TakeHead
    <2>2. CASE ~Claimable(e, c.time)
      BY <1>3, <2>1, <2>2 DEF TakeHead, QueueStep, RowsStay
    <2>3. CASE Claimable(e, c.time)
      <3>1. AtHeads({e})
        BY <1>3 DEF TakeHead, CallsAreOfHeads, AtHeads
      <3>2. attempts[e] \in Nat /\ clock \in Nat /\ claim[e].exp \in Nat
        BY <1>0 DEF MongoTypeOK, TypeOK
      <3>3. Pending(e) /\ attempts[e] < MaxAttempts /\ ~Live(e)
        BY <1>0, <2>3, <3>2 DEF Claimable, Available, Live
      <3>4. /\ attempts'[e] = attempts[e] + 1 /\ attempts'[e] > 0
            /\ outcome'[e] \notin Terminal
        BY <1>0, <2>1, <2>3, <3>2 DEF MongoTypeOK, TypeOK, Terminal
      <3>5. \A f \in Events \ {e} : /\ outcome'[f] = outcome[f]
                                    /\ attempts'[f] = attempts[f]
                                    /\ claim'[f] = claim[f]
        BY <2>1, <2>3 DEF MongoTypeOK, TypeOK
      <3>6. RowChange(e)
        BY <1>3, <3>1, <3>3, <3>4, <3>5 DEF TakeHead, RowChange
      <3> QED
        BY <1>0, <3>6 DEF QueueStep
    <2> QED
      BY <2>2, <2>3
  <1>4. CASE Discard(c)
    <2>1. PICK e \in c.rows :
             IF Pending(e) /\ claim[e].owner = c.worker /\ claim[e].token = c.token
             THEN Bury(e) ELSE UNCHANGED <<outcome, attempts, retryAt, claim>>
      BY <1>4 DEF Discard
    <2> QED
      BY <1>0, <1>4, <2>1, ClaimedIsHead, BuryIsRowChange
         DEF Discard, QueueStep, RowsStay
  <1>5. CASE RenewRow(c)
    <2>1. PICK e \in c.rows :
             claim' = IF Holds(c.worker, e, c.token, c.time)
                      THEN [claim EXCEPT ![e].exp = c.time + LeaseSeconds] ELSE claim
      BY <1>5 DEF RenewRow
    <2>2. UNCHANGED <<recv, outcome, attempts>>
      BY <1>5 DEF RenewRow
    <2>3. CASE Holds(c.worker, e, c.token, c.time)
      <3>1. Pending(e) /\ AtHeads({e}) /\ attempts[e] > 0
        BY <1>0, <2>3, ClaimedIsHead DEF Holds
      <3>2. \A f \in Events \ {e} : claim'[f] = claim[f]
        BY <2>1, <2>3 DEF MongoTypeOK, TypeOK
      <3>3. RowChange(e)
        BY <2>2, <3>1, <3>2 DEF RowChange, Pending
      <3> QED
        BY <1>0, <3>3 DEF QueueStep
    <2> QED
      BY <2>1, <2>2, <2>3 DEF QueueStep, RowsStay
  <1>6. CASE SettleRow(c)
    <2>1. PICK e \in c.rows :
             IF Holds(c.worker, e, c.token, c.time)
             THEN /\ outcome' = [outcome EXCEPT ![e] = c.outcome]
                  /\ claim' = [claim EXCEPT ![e] = NoClaim]
             ELSE UNCHANGED <<outcome, claim>>
      BY <1>6 DEF SettleRow
    <2>2. UNCHANGED <<recv, attempts>>
      BY <1>6 DEF SettleRow
    <2>3. CASE Holds(c.worker, e, c.token, c.time)
      <3>1. Pending(e) /\ AtHeads({e}) /\ attempts[e] > 0
        BY <1>0, <2>3, ClaimedIsHead DEF Holds
      <3>2. /\ \A f \in Events \ {e} : claim'[f] = claim[f] /\ outcome'[f] = outcome[f]
            /\ claim'[e].owner = NoWorker
        BY <1>0, <2>1, <2>3 DEF MongoTypeOK, TypeOK, NoClaim
      <3>3. RowChange(e)
        BY <2>2, <3>1, <3>2 DEF RowChange
      <3> QED
        BY <1>0, <3>3 DEF QueueStep
    <2> QED
      BY <2>1, <2>2, <2>3 DEF QueueStep, RowsStay
  <1> QED
    BY <1>1, <1>2, <1>3, <1>4, <1>5, <1>6 DEF CallStep

LEMMA MongoQueueStep ==
    ASSUME MongoIInv, [MongoNext]_<<storeVars, mongoVars>>
    PROVE  QueueStep /\ clock' \in {clock, clock + 1}
  <1> USE DEF MongoIInv
  <1>1. ASSUME NEW e \in Events, StartStore(e) PROVE RowsStay /\ clock' = clock
    BY <1>1 DEF StartStore, storeVars, RowsStay
  <1>2. ASSUME NEW s \in stores, StoringStep(s) PROVE QueueStep /\ clock' = clock
    <2>1. CASE InsertEvent(s) /\ recv[s.event] = 0
      <3>1. RowAdded(s.event)
        BY <2>1 DEF InsertEvent, RowAdded, StoresAreNext
      <3> QED
        BY <2>1, <3>1, StoringTypes DEF QueueStep, InsertEvent
    <2>2. CASE InsertEvent(s) /\ recv[s.event] # 0
      <3>1. recv' = recv
        BY <2>2, StoringTypes DEF InsertEvent, MongoTypeOK, TypeOK
      <3> QED
        BY <2>2, <3>1 DEF InsertEvent, QueueStep, RowsStay
    <2>3. CASE \/ LookForEvent(s) \/ LookInMirror(s) \/ InsertInMirror(s)
               \/ Acknowledge(s) \/ StoreFails(s)
      BY <2>3 DEF LookForEvent, LookInMirror, InsertInMirror, Acknowledge, StoreFails,
                  storeVars, QueueStep, RowsStay
    <2> QED
      BY <1>2, <2>1, <2>2, <2>3 DEF StoringStep
  <1>3. ASSUME NEW w \in Workers, NEW t \in Nows, StartCall(w, t) \/ LeaseUpdate(w, t)
        PROVE  RowsStay /\ clock' = clock
    BY <1>3 DEF StartCall, StartClaim, StartAcquiring, StartRenewal, StartSettling,
                LeaseUpdate, RenewWorkerLease, ReleaseWorkerLease, storeVars, RowsStay
  <1>4. ASSUME NEW c \in calls, CallStep(c) PROVE QueueStep /\ clock' = clock
    <2>1. clock' = clock
      BY <1>4 DEF CallStep, ReadExhausted, SweepRow, PickHead, TakeHead, Discard,
                  RenewRow, ReadAttempts, SettleRow, WriteLease, CallFails, storeVars
    <2> QED
      BY <1>4, <2>1, CallIsQueueStep
  <1>5. CASE Tick /\ UNCHANGED mongoVars
    BY <1>5 DEF Tick, QueueStep, RowsStay
  <1>6. CASE UNCHANGED <<storeVars, mongoVars>>
    BY <1>6 DEF storeVars, QueueStep, RowsStay
  <1> QED
    BY <1>1, <1>2, <1>3, <1>4, <1>5, <1>6 DEF MongoNext, QueueStep

\* Whatever a step does, a head stays a head.
LEMMA HeadsStay ==
    ASSUME MongoIInv, QueueStep, NEW rows \in SUBSET Events, AtHeads(rows)
    PROVE  AtHeads(rows)'
  <1> USE DEF MongoIInv
  <1> SUFFICES ASSUME NEW e \in rows
               PROVE  /\ recv'[e] # 0
                      /\ \A p \in Events : Pending(p)' => ~Precedes(p, e)'
    BY DEF AtHeads
  <1>0. recv[e] # 0 /\ \A p \in Events : Pending(p) => ~Precedes(p, e)
    BY DEF AtHeads
  <1>1. CASE RowsStay
    BY <1>0, <1>1 DEF RowsStay, Pending, Precedes
  <1>2. ASSUME NEW x \in Events, RowChange(x)
        PROVE  \A p \in Events : Pending(p)' => Pending(p) /\ UNCHANGED recv
    BY <1>2 DEF RowChange, Pending
  <1>3. ASSUME NEW x \in Events, RowAdded(x)
        PROVE  /\ recv'[e] # 0
               /\ \A p \in Events : Pending(p)' => ~Precedes(p, e)'
    <2>1. /\ recv[x] = 0 /\ recv'[e] = recv[e]
          /\ \A p \in Events \ {x} : recv'[p] = recv[p]
          /\ SessionOf[x] = SessionOf[e] => recv[e] < recv'[x]
          /\ recv[e] \in Nat /\ recv'[x] \in Nat
      BY <1>0, <1>3, StoreAssumption DEF RowAdded, MongoTypeOK, TypeOK
    <2>2. ~Precedes(x, e)'
      BY <2>1 DEF Precedes
    <2> QED
      BY <1>0, <1>3, <2>1, <2>2 DEF RowAdded, Pending, Precedes
  <1> QED
    BY <1>0, <1>1, <1>2, <1>3 DEF QueueStep, RowChange, Precedes

LEMMA QueueStepIInv ==
    ASSUME MongoIInv, QueueStep, MongoTypeOK'
    PROVE  /\ ClaimsAreOnPendingRows'
           /\ UnstoredIsUntouched'
           /\ SessionsAreServedInOrder'
  <1> USE DEF MongoIInv
  <1>1. CASE RowsStay
    BY <1>1 DEF RowsStay, ClaimsAreOnPendingRows, UnstoredIsUntouched,
                SessionsAreServedInOrder, Pending, Precedes
  <1>2. ASSUME NEW e \in Events, RowChange(e)
        PROVE  /\ ClaimsAreOnPendingRows'
               /\ UnstoredIsUntouched'
               /\ SessionsAreServedInOrder'
    <2>1. ClaimsAreOnPendingRows'
      BY <1>2 DEF RowChange, ClaimsAreOnPendingRows, Pending
    <2>2. UnstoredIsUntouched'
      BY <1>2 DEF RowChange, UnstoredIsUntouched, Pending
    <2>3. ASSUME NEW x \in Events, NEW f \in Events,
                 recv[x] # 0, Precedes(x, f), attempts'[f] > 0
          PROVE  outcome'[x] \in Terminal
      <3>1. outcome[x] \in Terminal
        BY <1>2, <2>3 DEF RowChange, AtHeads, Pending, SessionsAreServedInOrder
      <3> QED
        BY <1>2, <3>1 DEF RowChange, Pending
    <2> QED
      BY <1>2, <2>1, <2>2, <2>3 DEF RowChange, SessionsAreServedInOrder, Precedes
  <1>3. ASSUME NEW e \in Events, RowAdded(e)
        PROVE  /\ ClaimsAreOnPendingRows'
               /\ UnstoredIsUntouched'
               /\ SessionsAreServedInOrder'
    <2>1. /\ recv[e] = 0 /\ attempts[e] = 0
          /\ \A f \in Events \ {e} : recv'[f] = recv[f]
          /\ \A f \in Events : SessionOf[f] = SessionOf[e] => recv[f] < recv'[e]
          /\ UNCHANGED <<outcome, attempts, claim>>
      BY <1>3 DEF RowAdded, UnstoredIsUntouched, MongoTypeOK, TypeOK
    <2>2. ClaimsAreOnPendingRows'
      BY <2>1 DEF ClaimsAreOnPendingRows, Pending
    <2>3. UnstoredIsUntouched'
      BY <2>1 DEF UnstoredIsUntouched
    <2>4. ASSUME NEW x \in Events, NEW f \in Events,
                 recv'[x] # 0, Precedes(x, f)', attempts[f] > 0
          PROVE  outcome[x] \in Terminal
      <3>1. f # e /\ recv'[f] = recv[f] /\ recv[f] \in Nat /\ recv'[e] \in Nat
        BY <2>1, <2>4 DEF MongoTypeOK, TypeOK
      <3>2. x # e
        BY <2>1, <2>4, <3>1 DEF Precedes
      <3> QED
        BY <2>1, <2>4, <3>1, <3>2 DEF SessionsAreServedInOrder, Precedes
    <2> QED
      BY <2>1, <2>2, <2>3, <2>4 DEF SessionsAreServedInOrder
  <1> QED
    BY <1>1, <1>2, <1>3 DEF QueueStep

\* A new call, and the next access of one in progress.
LEMMA CallsOfHeadsGo ==
    ASSUME MongoIInv, QueueStep, MongoTypeOK', clock' \in {clock, clock + 1},
           NEW d \in calls', d \notin calls =>
                 d.time <= clock /\ (d.at \in {"sweep", "take"} => AtHeads(d.rows))
    PROVE  d.time <= clock' /\ (d.at \in {"sweep", "take"} => AtHeads(d.rows)')
  <1>1. d.time \in Nat /\ d.rows \in SUBSET Events /\ clock \in Nat
    BY DEF MongoIInv, MongoTypeOK, Calls, TypeOK
  <1>2. d.time <= clock /\ (d.at \in {"sweep", "take"} => AtHeads(d.rows))
    BY DEF MongoIInv, CallsAreOfHeads
  <1> QED
    BY <1>1, <1>2, HeadsStay

LEMMA CallsOfHeads ==
    ASSUME MongoIInv, [MongoNext]_<<storeVars, mongoVars>>, QueueStep, MongoTypeOK',
           clock' \in {clock, clock + 1}
    PROVE  CallsAreOfHeads'
  <1> USE DEF MongoIInv
  <1>1. SUFFICES \A d \in calls' \ calls :
                    d.time <= clock /\ (d.at \in {"sweep", "take"} => AtHeads(d.rows))
    BY <1>1, CallsOfHeadsGo DEF CallsAreOfHeads
  <1>2. CASE calls' \subseteq calls
    BY <1>2
  <1>3. ASSUME NEW w \in Workers, NEW t \in Nows, StartCall(w, t),
               NEW d \in calls' \ calls
        PROVE  d.time <= clock /\ d.at \notin {"sweep", "take"}
    <2>1. t \in Nat /\ t <= clock
      BY NowsLemma DEF MongoTypeOK
    <2>2. CASE StartClaim(w, t) \/ StartAcquiring(w, t)
      BY <1>3, <2>1, <2>2 DEF StartClaim, StartAcquiring, Begins, NewCall
    <2>3. ASSUME NEW e \in Events, StartRenewal(w, e, t) \/ StartSettling(w, e, t)
          PROVE  d.time <= clock /\ d.at \notin {"sweep", "take"}
      <3>1. PICK at \in {"renew", "settle", "attempts"}, o \in Outcomes :
               \/ d = About(w, e, at, t)
               \/ d = [About(w, e, at, t) EXCEPT !.outcome = o]
        BY <1>3, <2>3 DEF StartRenewal, StartSettling, Begins, Outcomes
      <3> QED
        BY <2>1, <3>1 DEF About, NewCall
    <2> QED
      BY <1>3, <2>2, <2>3 DEF StartCall
  <1>4. ASSUME NEW c \in calls, CallStep(c), NEW d \in calls' \ calls
        PROVE  d.time <= clock /\ (d.at \in {"sweep", "take"} => AtHeads(d.rows))
    <2>0. c.time <= clock /\ c \in Calls
      BY CallTypes DEF CallsAreOfHeads
    <2> USE <2>0 DEF Goes, Returns
    <2>1. CASE ReadExhausted(c)
      <3>1. d = [c EXCEPT !.at = "sweep", !.rows = Exhausted(c.time)]
        BY <1>4, <2>1 DEF ReadExhausted
      <3>2. AtHeads(Exhausted(c.time))
        BY DEF AtHeads, Exhausted, AtHead, Pending
      <3> QED
        BY <3>1, <3>2 DEF Calls
    <2>2. CASE SweepRow(c)
      <3>1. PICK e \in c.rows : d = [c EXCEPT !.rows = @ \ {e}]
        BY <1>4, <2>2 DEF SweepRow
      <3>2. d.rows \subseteq c.rows /\ d.time = c.time /\ AtHeads(c.rows)
        BY <2>2, <3>1 DEF SweepRow, Calls, CallsAreOfHeads
      <3> QED
        BY <3>2 DEF AtHeads
    <2>3. CASE PickHead(c)
      <3>1. PICK e \in ClaimableHeads(c.time) :
               d = [c EXCEPT !.at = "take", !.rows = {e}]
        BY <1>4, <2>3 DEF PickHead
      <3>2. AtHeads({e})
        BY <3>1 DEF ClaimableHeads, AtHeads, AtHead, Pending
      <3>3. d.rows = {e} /\ d.time = c.time
        BY <3>1 DEF Calls
      <3> QED
        BY <3>2, <3>3
    <2>4. CASE TakeHead(c)
      <3>1. PICK e \in c.rows :
               d = [c EXCEPT !.at = "discard", !.token = attempts[e] + 1]
        BY <1>4, <2>4 DEF TakeHead
      <3> QED
        BY <3>1 DEF Calls
    <2>5. CASE Discard(c)
      BY <1>4, <2>5 DEF Discard, NewCall
    <2>6. CASE ReadAttempts(c)
      <3>1. \/ \E u \in RetryDelays :
                  d = [c EXCEPT !.at = "settle", !.due = c.time + u]
            \/ d = [c EXCEPT !.at = "settle", !.outcome = "dead_letter"]
        BY <1>4, <2>6 DEF ReadAttempts
      <3> QED
        BY <3>1 DEF Calls
    <2>7. CASE RenewRow(c) \/ SettleRow(c) \/ WriteLease(c) \/ CallFails(c)
      BY <1>4, <2>7 DEF RenewRow, SettleRow, WriteLease, CallFails
    <2> QED
      BY <1>4, <2>1, <2>2, <2>3, <2>4, <2>5, <2>6, <2>7 DEF CallStep
  <1>5. ASSUME NEW e \in Events, StartStore(e) PROVE calls' = calls
    BY <1>5 DEF StartStore
  <1>6. ASSUME NEW s \in stores, StoringStep(s) PROVE calls' = calls
    BY <1>6 DEF StoringStep, LookForEvent, LookInMirror, InsertEvent, InsertInMirror,
                Acknowledge, StoreFails
  <1>7. ASSUME NEW w \in Workers, NEW t \in Nows, LeaseUpdate(w, t) PROVE calls' = calls
    BY <1>7 DEF LeaseUpdate, mongoVars
  <1> QED
    BY <1>2, <1>3, <1>4, <1>5, <1>6, <1>7 DEF MongoNext, mongoVars

\* What an access to the stores makes of the copies of the event being stored.
LEMMA StoringKeeps ==
    ASSUME MongoIInv, NEW s \in stores, StoringStep(s), MongoTypeOK'
    PROVE  StoresAreNext' /\ MirrorAgrees'
  <1> USE StoringTypes DEF MongoIInv
  <1>0. s.place \in Places /\ s.place # 0
    BY StoreAssumption DEF StoresAreNext
  <1>1. CASE UNCHANGED <<recv, mirror, acked>> /\ StoreEnds(s)
    BY <1>1 DEF StoreEnds, StoresAreNext, MirrorAgrees
  <1>2. ASSUME NEW at \in {"look in mirror", "insert", "insert in mirror", "verify"},
               StoreGoes(s, at), NEW r \in stores', r \notin stores
        PROVE  r.event = s.event /\ r.place = s.place /\ r.at = at
    <2>1. r = [s EXCEPT !.at = at] /\ s \in Stores
      BY <1>2 DEF StoreGoes, MongoTypeOK
    <2> QED
      BY <2>1 DEF Stores
  <1>3. ASSUME NEW at \in {"look in mirror", "insert"}, StoreGoes(s, at),
               UNCHANGED <<recv, mirror, acked>>
        PROVE  StoresAreNext' /\ MirrorAgrees'
    <2>1. ASSUME NEW r \in stores'
          PROVE  /\ r.place \in Places
                 /\ r.at \in {"insert in mirror", "verify"} => recv[r.event] = r.place
                 /\ r.at = "verify" => mirror[r.event] = r.place
                 /\ \E q \in stores : q.event = r.event /\ q.place = r.place
      BY <1>2, <1>3 DEF StoresAreNext
    <2>2. ASSUME NEW r \in stores', recv[r.event] = 0
          PROVE  /\ \A f \in Events :
                       SessionOf[f] = SessionOf[r.event] => recv[f] < r.place
                 /\ \A q \in stores' :
                       SessionOf[q.event] = SessionOf[r.event] /\ recv[q.event] = 0
                          => q.event = r.event
      <3>1. PICK p \in stores : p.event = r.event /\ p.place = r.place
        BY <2>1
      <3>2. ASSUME NEW q \in stores',
                   SessionOf[q.event] = SessionOf[r.event], recv[q.event] = 0
            PROVE  q.event = r.event
        <4>1. PICK o \in stores : o.event = q.event
          BY <2>1
        <4> QED
          BY <2>2, <3>1, <3>2, <4>1 DEF StoresAreNext
      <3> QED
        BY <2>2, <3>1, <3>2 DEF StoresAreNext
    <2> QED
      BY <1>3, <2>1, <2>2 DEF StoresAreNext, MirrorAgrees
  <1>4. CASE InsertEvent(s) /\ recv[s.event] \in {0, s.place}
    <2>1. /\ recv' = [recv EXCEPT ![s.event] = s.place]
          /\ StoreGoes(s, "insert in mirror") /\ UNCHANGED <<mirror, acked>>
      BY <1>4 DEF InsertEvent
    <2>2. /\ recv'[s.event] = s.place
          /\ \A f \in Events : recv[f] # 0 => recv'[f] = recv[f]
          /\ \A f \in Events : f # s.event => recv'[f] = recv[f]
      BY <1>4, <2>1 DEF MongoTypeOK, TypeOK
    <2>3. MirrorAgrees'
      BY <2>1, <2>2 DEF MirrorAgrees
    <2>4. ASSUME NEW r \in stores', recv'[r.event] = 0
          PROVE  /\ r \in stores /\ recv[r.event] = 0
                 /\ SessionOf[r.event] # SessionOf[s.event] \/ recv[s.event] # 0
                 /\ \A f \in Events : SessionOf[f] = SessionOf[r.event]
                                         => recv'[f] = recv[f]
      <3>1. r.event # s.event
        BY <1>0, <2>2, <2>4
      <3>2. r \in stores /\ r.event \in Events
        BY <1>2, <2>1, <3>1
      <3>3. recv[r.event] = 0
        BY <2>2, <2>4, <3>1, <3>2
      <3>4. SessionOf[r.event] # SessionOf[s.event] \/ recv[s.event] # 0
        BY <3>1, <3>2, <3>3 DEF StoresAreNext
      <3> QED
        BY <2>2, <3>2, <3>3, <3>4
    <2>5. ASSUME NEW r \in stores'
          PROVE  /\ r.place \in Places
                 /\ r.at \in {"insert in mirror", "verify"} => recv'[r.event] = r.place
                 /\ r.at = "verify" => mirror[r.event] = r.place
      <3>1. CASE r \in stores
        <4>1. r.event \in Events /\ r.place \in Places /\ r.place # 0
          BY <3>1, StoreAssumption DEF StoresAreNext
        <4> QED
          BY <2>2, <3>1, <4>1 DEF StoresAreNext
      <3>2. CASE r \notin stores
        BY <1>0, <1>2, <2>1, <2>2, <3>2
      <3> QED
        BY <3>1, <3>2
    <2>6. ASSUME NEW r \in stores', recv'[r.event] = 0
          PROVE  /\ \A f \in Events :
                       SessionOf[f] = SessionOf[r.event] => recv'[f] < r.place
                 /\ \A q \in stores' :
                       SessionOf[q.event] = SessionOf[r.event] /\ recv'[q.event] = 0
                          => q.event = r.event
      BY <2>4, <2>6 DEF StoresAreNext
    <2> QED
      BY <2>1, <2>3, <2>5, <2>6 DEF StoresAreNext
  <1>5. CASE InsertInMirror(s) /\ mirror[s.event] \in {0, s.place}
    <2>1. /\ mirror' = [mirror EXCEPT ![s.event] = s.place]
          /\ s.at = "insert in mirror"
          /\ StoreGoes(s, "verify") /\ UNCHANGED <<recv, acked>>
      BY <1>5 DEF InsertInMirror, storeVars
    <2>2. /\ mirror'[s.event] = s.place /\ recv[s.event] = s.place
          /\ \A f \in Events : mirror[f] # 0 => mirror'[f] = mirror[f]
          /\ \A f \in Events : f # s.event => mirror'[f] = mirror[f]
      BY <1>5, <2>1 DEF MongoTypeOK, StoresAreNext
    <2>3. MirrorAgrees'
      BY <1>0, <2>1, <2>2 DEF MirrorAgrees, MongoTypeOK
    <2>4. ASSUME NEW r \in stores', r.at = "verify"
          PROVE  mirror'[r.event] = r.place
      <3>1. CASE r \in stores
        <4>1. r.event \in Events /\ r.place # 0 /\ mirror[r.event] = r.place
          BY <2>4, <3>1, StoreAssumption DEF StoresAreNext
        <4> QED
          BY <2>2, <4>1
      <3>2. CASE r \notin stores
        BY <1>2, <2>1, <2>2, <3>2
      <3> QED
        BY <3>1, <3>2
    <2>5. ASSUME NEW r \in stores'
          PROVE  /\ r.place \in Places
                 /\ r.at \in {"insert in mirror", "verify"} => recv[r.event] = r.place
                 /\ recv[r.event] = 0 => r \in stores
      BY <1>0, <1>2, <2>1, <2>2 DEF StoresAreNext
    <2> QED
      BY <2>1, <2>3, <2>4, <2>5 DEF StoresAreNext
  <1>6. CASE Acknowledge(s)
    <2>1. /\ acked' \subseteq acked \cup {e \in {s.event} : mirror[e] = s.place}
          /\ UNCHANGED <<recv, mirror>> /\ StoreEnds(s)
      BY <1>6 DEF Acknowledge, storeVars
    <2>2. MirrorAgrees'
      BY <1>0, <2>1 DEF MirrorAgrees
    <2> QED
      BY <2>1, <2>2 DEF StoreEnds, StoresAreNext
  <1>7. CASE LookForEvent(s) \/ LookInMirror(s)
    BY <1>1, <1>3, <1>7 DEF LookForEvent, LookInMirror, storeVars
  <1>8. CASE \/ StoreFails(s)
             \/ InsertEvent(s) /\ recv[s.event] \notin {0, s.place}
             \/ InsertInMirror(s) /\ mirror[s.event] \notin {0, s.place}
    BY <1>1, <1>8 DEF StoreFails, InsertEvent, InsertInMirror, storeVars
  <1> QED
    BY <1>4, <1>5, <1>6, <1>7, <1>8 DEF StoringStep

LEMMA StartStoreKeeps ==
    ASSUME MongoIInv, NEW e \in Events, StartStore(e)
    PROVE  StoresAreNext' /\ MirrorAgrees'
  <1> USE DEF MongoIInv
  <1>1. UNCHANGED <<recv, mirror, acked>>
    BY DEF StartStore, storeVars
  <1>2. PICK n \in Places :
           /\ recv[e] = 0 =>
                 /\ \A f \in Events : SessionOf[f] = SessionOf[e] => recv[f] < n
                 /\ \A s \in stores :
                       SessionOf[s.event] = SessionOf[e] /\ recv[s.event] = 0
                          => s.event = e
           /\ stores' = stores \cup {[at |-> "look", event |-> e, place |-> n]}
    BY DEF StartStore
  <1>3. ASSUME NEW r \in stores', r \notin stores
        PROVE  r.event = e /\ r.place = n /\ r.at = "look"
    <2>1. r = [at |-> "look", event |-> e, place |-> n]
      BY <1>2, <1>3
    <2> QED
      BY <2>1
  <1>4. StoresAreNext'
    <2>1. ASSUME NEW r \in stores', recv[r.event] = 0
          PROVE  /\ \A f \in Events :
                       SessionOf[f] = SessionOf[r.event] => recv[f] < r.place
                 /\ \A q \in stores' :
                       SessionOf[q.event] = SessionOf[r.event] /\ recv[q.event] = 0
                          => q.event = r.event
      BY <1>2, <1>3, <2>1 DEF StoresAreNext
    <2> QED
      BY <1>1, <1>3, <2>1 DEF StoresAreNext
  <1> QED
    BY <1>1, <1>4 DEF MirrorAgrees

LEMMA MongoNextIInv ==
    MongoIInv /\ [MongoNext]_<<storeVars, mongoVars>> => MongoIInv'
  <1> SUFFICES ASSUME MongoIInv, [MongoNext]_<<storeVars, mongoVars>> PROVE MongoIInv'
    OBVIOUS
  <1>1. MongoTypeOK'
    BY MongoNextType DEF MongoIInv
  <1>2. QueueStep /\ clock' \in {clock, clock + 1}
    BY MongoQueueStep
  <1>3. ClaimsAreOnPendingRows' /\ UnstoredIsUntouched' /\ SessionsAreServedInOrder'
    BY <1>1, <1>2, QueueStepIInv
  <1>4. CallsAreOfHeads'
    BY <1>1, <1>2, CallsOfHeads
  <1>5. StoresAreNext' /\ MirrorAgrees'
    <2>1. CASE UNCHANGED <<recv, stores, mirror, acked>>
      BY <2>1 DEF MongoIInv, StoresAreNext, MirrorAgrees
    <2>2. ASSUME NEW w \in Workers, NEW t \in Nows, StartCall(w, t) \/ LeaseUpdate(w, t)
          PROVE  UNCHANGED <<recv, stores, mirror, acked>>
      BY <2>2 DEF StartCall, StartClaim, StartAcquiring, StartRenewal, StartSettling,
                  LeaseUpdate, RenewWorkerLease, ReleaseWorkerLease, storeVars, mongoVars
    <2>3. ASSUME NEW c \in calls, CallStep(c)
          PROVE  UNCHANGED <<recv, stores, mirror, acked>>
      BY <2>3 DEF CallStep, ReadExhausted, SweepRow, PickHead, TakeHead, Discard,
                  RenewRow, ReadAttempts, SettleRow, WriteLease, CallFails, storeVars
    <2> QED
      BY <1>1, <2>1, <2>2, <2>3, StoringKeeps, StartStoreKeeps
         DEF MongoNext, Tick, storeVars, mongoVars
  <1> QED
    BY <1>1, <1>3, <1>4, <1>5 DEF MongoIInv

LEMMA MongoInvariant == MongoSpec => []MongoIInv
  BY MongoInitIInv, MongoNextIInv, PTL DEF MongoSpec

\* Every field of both stores and every local of a call keeps its type.
THEOREM MongoTypeCorrect == MongoSpec => []MongoTypeOK
  BY MongoInvariant, PTL DEF MongoIInv

\* On MongoDB too an event is tried only when all before it in its session is
\* settled, although claims look for heads in one access and take them in another.
THEOREM MongoInOrder == MongoSpec => []SessionsAreServedInOrder
  BY MongoInvariant, PTL DEF MongoIInv

\* The rollback mirror holds nothing that MongoDB lacks or dates differently, and
\* every acknowledged event is in both.
THEOREM MirrorTrue == MongoSpec => []MirrorAgrees
  BY MongoInvariant, PTL DEF MongoIInv

LEMMA MongoSettlesOnce ==
    MongoIInv /\ [MongoNext]_<<storeVars, mongoVars>> => [SettlesOnce]_storeVars
  <1> SUFFICES ASSUME MongoIInv, [MongoNext]_<<storeVars, mongoVars>> PROVE SettlesOnce
    OBVIOUS
  <1>1. QueueStep
    BY MongoQueueStep
  <1>2. \A e \in Events : attempts[e] \in Nat
    BY DEF MongoIInv, MongoTypeOK, TypeOK
  <1>3. ASSUME NEW x \in Events, RowChange(x) PROVE SettlesOnce
    BY <1>2, <1>3, StoreAssumption DEF RowChange, SettlesOnce, Pending
  <1> QED
    BY <1>1, <1>3 DEF QueueStep, RowsStay, RowAdded, SettlesOnce

\* A settled event stays as it was settled, and no update takes a row whose claim
\* is live or whose attempts are used up.
THEOREM MongoOnce == MongoSpec => SettledOnce
  BY MongoInvariant, MongoSettlesOnce, PTL DEF MongoSpec, SettledOnce

LEMMA RowChangeMaps ==
    ASSUME MongoIInv, MongoTypeOK', NEW e \in Events, RowChange(e)
    PROVE  [Queue!Next]_(Queue!queueVars)
  <1>1. Pending(e) /\ UNCHANGED recv
    BY DEF RowChange
  <1>2. PICK o \in Outcomes : o = outcome'[e]
    BY DEF MongoTypeOK, TypeOK
  <1>3. CASE o \in Terminal
    <2>1. Status' = [x \in Events |-> IF x \in {e} THEN o ELSE Status[x]]
      BY <1>2, <1>3 DEF RowChange, Status
    <2>2. \A p \in Events : Queue!Unsettled(p) => ~Queue!Before(p, e)
      BY UnsettledIsPending DEF RowChange, AtHeads, Queue!Before, Precedes
    <2>3. Queue!Unsettled(e)
      BY <1>1, UnsettledIsPending
    <2>4. Queue!SettleAll({e}, o)
      BY <1>1, <2>1, <2>2, <2>3 DEF Queue!SettleAll, Status
    <2> QED
      BY <1>3, <2>4 DEF Queue!Next, Terminal
  <1>4. CASE o \notin Terminal
    <2>1. Status' = Status
      BY <1>1, <1>2, <1>4 DEF RowChange, Status, Pending
    <2> QED
      BY <1>1, <2>1 DEF Queue!queueVars, Status
  <1> QED
    BY <1>3, <1>4

LEMMA MongoMaps ==
    MongoIInv /\ [MongoNext]_<<storeVars, mongoVars>> => [Queue!Next]_(Queue!queueVars)
  <1> SUFFICES ASSUME MongoIInv, [MongoNext]_<<storeVars, mongoVars>>
               PROVE  [Queue!Next]_(Queue!queueVars)
    OBVIOUS
  <1>1. QueueStep /\ MongoTypeOK'
    BY MongoQueueStep, MongoNextType DEF MongoIInv
  <1>2. CASE RowsStay
    BY <1>2 DEF RowsStay, Queue!queueVars, Status
  <1>3. ASSUME NEW e \in Events, RowChange(e) PROVE [Queue!Next]_(Queue!queueVars)
    BY <1>1, <1>3, RowChangeMaps
  <1>4. ASSUME NEW e \in Events, RowAdded(e) PROVE Queue!Next
    BY <1>4 DEF RowAdded, Queue!Store, Queue!Next, Status
  <1> QED
    BY <1>1, <1>2, <1>3, <1>4 DEF QueueStep

\* The queue on MongoDB implements the same first-in first-out queue per session.
THEOREM MongoRefinement == MongoSpec => ImplementsSessionQueue
  <1>1. MongoInit => Queue!Init
    BY InitMaps DEF MongoInit
  <1> QED
    BY <1>1, MongoInvariant, MongoMaps, PTL
       DEF MongoSpec, ImplementsSessionQueue, Queue!Spec
=============================================================================
