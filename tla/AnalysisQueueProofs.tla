------------------------- MODULE AnalysisQueueProofs -------------------------
(* Theorems about AnalysisQueue, for any number of sessions and workers and *)
(* any limits on attempts.                                                  *)
EXTENDS AnalysisQueue, TLAPS

\* A worker past its claim has a session; what it is about to write into the
\* session's row is a verdict, and a skip is one that the job bears out.
VerdictsAreTrue ==
    \A w \in Workers :
        /\ worker[w].at # "idle" => worker[w].on \in Sessions
        /\ worker[w].at = "patch" =>
              /\ worker[w].verdict # ""
              /\ worker[w].verdict = "skipped" => job[worker[w].on].status = "skipped"

AInv == JobTypeOK /\ OneReport /\ SummaryIsNotAhead /\ VerdictsAreTrue

Final == {"succeeded", "skipped"}

-----------------------------------------------------------------------------
(* What the operations on one row do.                                       *)

LEMMA UnclaimedLemma ==
    ASSUME job \in [Sessions -> Rows], NEW s \in Sessions, NEW st \in Open \cup Done
    PROVE  Unclaimed(s, st) \in Rows /\ Unclaimed(s, st).status = st
  <1>1. job[s] \in Rows
    OBVIOUS
  <1> QED
    BY <1>1 DEF Unclaimed, Rows

LEMMA ClaimedLemma ==
    ASSUME job \in [Sessions -> Rows], NEW s \in Claimable
    PROVE  /\ s \in Sessions /\ job[s].status \in Open
           /\ Claimed(s) \in Rows /\ Claimed(s).status = "running"
  <1>1. s \in Sessions /\ job[s] \in Rows /\ job[s].attempts < MaxAttempts
        /\ job[s].status \in Open
    BY DEF Claimable, Available
  <1>2. job[s].attempts + 1 \in 0..MaxAttempts /\ job[s].claims + 1 \in Nat
    BY <1>1, QueueAssumption DEF Rows
  <1> QED
    BY <1>1, <1>2 DEF Claimed, Rows, Open

LEMMA SweptLemma ==
    ASSUME job \in [Sessions -> Rows]
    PROVE  /\ Swept \in [Sessions -> Rows]
           /\ \A s \in Sessions :
                 \/ Swept[s] = job[s]
                 \/ job[s].status \in Open /\ Swept[s].status = "failed"
  <1>1. ASSUME NEW s \in Exhausted
        PROVE  /\ s \in Sessions /\ job[s].status \in Open
               /\ Unclaimed(s, "failed") \in Rows
               /\ Unclaimed(s, "failed").status = "failed"
    BY UnclaimedLemma DEF Exhausted, Available, Done
  <1> QED
    BY <1>1 DEF Swept

\* Rows that are final stay as they are when the changed ones were open.
LEMMA HeldIsOpen ==
    ASSUME NEW w \in Workers, Holds(w)
    PROVE  job[worker[w].on].status = "running"
  BY DEF Holds

LEMMA ReportsKept ==
    ASSUME OneReport, reports' = reports,
           \A s \in Sessions : job'[s].status = "succeeded" <=> job[s].status = "succeeded"
    PROVE  OneReport'
  BY DEF OneReport

LEMMA SummaryKept ==
    ASSUME SummaryIsNotAhead,
           \A s \in Sessions : job[s].status \in Final => job'[s].status = job[s].status,
           \A s \in Sessions : summary'[s] \in Final =>
              summary'[s] = summary[s] \/ summary'[s] = job'[s].status
    PROVE  SummaryIsNotAhead'
  BY DEF SummaryIsNotAhead, Final

\* What is settled for good, as a step leaves it.
FinalStays ==
    \A s \in Sessions : job[s].status \in Final => job'[s].status = job[s].status

\* The clauses of VerdictsAreTrue for one worker's locals.
Sound(locals, rows) ==
    /\ locals.at # "idle" => locals.on \in Sessions
    /\ locals.at = "patch" =>
          /\ locals.verdict # ""
          /\ locals.verdict = "skipped" => rows[locals.on].status = "skipped"

\* A row changes.
LEMMA RowChange ==
    ASSUME job \in [Sessions -> Rows], NEW s \in Sessions, NEW row \in Rows,
           job' = [job EXCEPT ![s] = row]
    PROVE  /\ job' \in [Sessions -> Rows] /\ job'[s] = row
           /\ \A t \in Sessions : t # s => job'[t] = job[t]
  OBVIOUS

\* The locals of one worker change.
LEMMA WorkerChange ==
    ASSUME worker \in [Workers -> Locals], VerdictsAreTrue, FinalStays,
           NEW w \in Workers, NEW l \in Locals, worker' = [worker EXCEPT ![w] = l],
           Sound(l, job')
    PROVE  worker' \in [Workers -> Locals] /\ VerdictsAreTrue'
  <1>1. worker' \in [Workers -> Locals]
    OBVIOUS
  <1>2. ASSUME NEW v \in Workers
        PROVE  Sound(worker'[v], job')
    <2>1. CASE v = w
      BY <2>1
    <2>2. CASE v # w
      <3>1. worker'[v] = worker[v]
        BY <2>2
      <3> QED
        BY <3>1 DEF VerdictsAreTrue, Sound, FinalStays, Final
    <2> QED
      BY <2>1, <2>2
  <1> QED
    BY <1>1, <1>2 DEF VerdictsAreTrue, Sound

\* No locals change.
LEMMA WorkersStay ==
    ASSUME VerdictsAreTrue, FinalStays, worker' = worker
    PROVE  VerdictsAreTrue'
  BY DEF VerdictsAreTrue, FinalStays, Final

\* The new locals of the three ways an action changes them.
LEMMA LocalsAt ==
    ASSUME worker \in [Workers -> Locals], NEW w \in Workers,
           NEW at \in {"idle", "work", "finish", "fail", "patch"}
    PROVE  /\ [worker[w] EXCEPT !.at = at] \in Locals
           /\ [worker[w] EXCEPT !.at = at].at = at
           /\ [worker[w] EXCEPT !.at = at].on = worker[w].on
  <1>1. worker[w] \in Locals
    OBVIOUS
  <1> QED
    BY <1>1 DEF Locals

LEMMA IdleIsLocal == Idle \in Locals /\ Idle.at = "idle"
  BY DEF Idle, Locals

\* A step that files no report, writes no session row and settles no final job
\* keeps the invariant.
LEMMA QuietStep ==
    ASSUME AInv, job' \in [Sessions -> Rows], FinalStays,
           \A s \in Sessions : job'[s].status = "succeeded" => job[s].status = "succeeded",
           worker' \in [Workers -> Locals], VerdictsAreTrue',
           UNCHANGED <<reports, summary>>,
           closer' \in [Sessions -> [at : {"close", "mark", "end", "done"},
                                     tries : 0..MaxCloses]],
           manual' \in [Sessions -> 0..MaxManual]
    PROVE  AInv'
  <1>1. JobTypeOK'
    BY DEF AInv, JobTypeOK
  <1>2. OneReport'
    <2>1. \A s \in Sessions :
             job'[s].status = "succeeded" <=> job[s].status = "succeeded"
      BY DEF FinalStays, Final
    <2> QED
      BY <2>1, ReportsKept DEF AInv
  <1>3. SummaryIsNotAhead'
    BY SummaryKept DEF AInv, FinalStays
  <1> QED
    BY <1>1, <1>2, <1>3 DEF AInv

-----------------------------------------------------------------------------
(* The invariant holds at first, and every action keeps it.                 *)

LEMMA InitInv == Init => AInv
  <1> SUFFICES ASSUME Init PROVE AInv
    OBVIOUS
  <1>1. JobTypeOK
    <2>1. NoJob \in Rows
      BY QueueAssumption DEF NoJob, Rows
    <2>2. [at |-> "close", tries |-> 0] \in
             [at : {"close", "mark", "end", "done"}, tries : 0..MaxCloses]
      BY QueueAssumption
    <2>3. 0 \in 0..MaxManual
      BY QueueAssumption
    <2> QED
      BY <2>1, <2>2, <2>3, IdleIsLocal DEF Init, JobTypeOK
  <1>2. OneReport /\ SummaryIsNotAhead /\ VerdictsAreTrue
    BY DEF Init, OneReport, SummaryIsNotAhead, VerdictsAreTrue, NoJob, Idle
  <1> QED
    BY <1>1, <1>2 DEF AInv

LEMMA CloserStep ==
    ASSUME AInv, NEW s \in Sessions, Closing(s)
    PROVE  AInv'
  <1> USE DEF AInv
  <1>0. /\ job \in [Sessions -> Rows] /\ worker \in [Workers -> Locals]
        /\ manual \in [Sessions -> 0..MaxManual]
        /\ closer \in [Sessions -> [at : {"close", "mark", "end", "done"},
                                    tries : 0..MaxCloses]]
    BY DEF JobTypeOK
  <1>1. CASE Enqueue(s)
    <2>0. NoJob \in Rows
      BY QueueAssumption DEF NoJob, Rows
    <2>1. [NoJob EXCEPT !.status = "queued", !.due = TRUE] \in Rows
      BY <2>0 DEF Rows, Open
    <2>2. [NoJob EXCEPT !.status = "queued", !.due = TRUE].status = "queued"
      BY DEF NoJob
    <2>3. job' \in [Sessions -> Rows] /\ FinalStays
          /\ \A t \in Sessions : job'[t].status = "succeeded" => job[t].status = "succeeded"
      BY <1>0, <1>1, <2>1, <2>2 DEF Enqueue, FinalStays, Final
    <2>4. closer' \in [Sessions -> [at : {"close", "mark", "end", "done"},
                                    tries : 0..MaxCloses]]
      BY <1>0, <1>1 DEF Enqueue, CloserGoes
    <2>5. UNCHANGED <<reports, summary, manual, worker>>
      BY <1>1 DEF Enqueue
    <2>6. VerdictsAreTrue'
      BY <2>3, <2>5, WorkersStay
    <2> QED
      BY <1>0, <2>3, <2>4, <2>5, <2>6, QuietStep
  <1>2. CASE MarkQueued(s)
    <2>1. JobTypeOK'
      BY <1>2 DEF MarkQueued, CloserGoes, JobTypeOK
    <2>2. UNCHANGED <<job, reports, worker>> /\ summary' = [summary EXCEPT ![s] = "queued"]
      BY <1>2 DEF MarkQueued
    <2>3. SummaryIsNotAhead'
      BY <2>2 DEF SummaryIsNotAhead, JobTypeOK
    <2>4. OneReport' /\ VerdictsAreTrue'
      BY <2>2 DEF OneReport, VerdictsAreTrue
    <2> QED
      BY <2>1, <2>3, <2>4
  <1>3. CASE CloseEnds(s) \/ CloseAgain(s)
    <2>1. UNCHANGED <<job, reports, summary, manual, worker>>
      BY <1>3 DEF CloseEnds, CloseAgain
    <2>2. closer' \in [Sessions -> [at : {"close", "mark", "end", "done"},
                                    tries : 0..MaxCloses]]
      <3>1. CASE CloseEnds(s)
        BY <1>0, <3>1 DEF CloseEnds, CloserGoes
      <3>2. CASE CloseAgain(s)
        <4>1. closer[s].tries + 1 \in 0..MaxCloses
          BY <1>0, <3>2, QueueAssumption DEF CloseAgain
        <4> QED
          BY <1>0, <3>2, <4>1 DEF CloseAgain
      <3> QED
        BY <1>3, <3>1, <3>2
    <2> QED
      BY <2>1, <2>2 DEF JobTypeOK, OneReport, SummaryIsNotAhead, VerdictsAreTrue
  <1> QED
    BY <1>1, <1>2, <1>3 DEF Closing

LEMMA TimeStep ==
    ASSUME AInv, NEW s \in Sessions, Expire(s) \/ RetryDue(s) \/ RetryFailedJob(s)
    PROVE  AInv'
  <1> USE DEF AInv
  <1>0. /\ job \in [Sessions -> Rows] /\ worker \in [Workers -> Locals] /\ job[s] \in Rows
        /\ manual \in [Sessions -> 0..MaxManual]
        /\ closer \in [Sessions -> [at : {"close", "mark", "end", "done"},
                                    tries : 0..MaxCloses]]
    BY DEF JobTypeOK
  <1>1. UNCHANGED <<reports, summary, closer, worker>>
    BY DEF Expire, RetryDue, RetryFailedJob
  <1>2. manual' \in [Sessions -> 0..MaxManual]
    BY <1>0, QueueAssumption DEF Expire, RetryDue, RetryFailedJob
  <1>3. PICK row \in Rows :
           /\ job' = [job EXCEPT ![s] = row]
           /\ \/ row.status = job[s].status
              \/ job[s].status = "failed" /\ row.status = "retry"
    <2>1. CASE Expire(s)
      <3>1. [job[s] EXCEPT !.live = FALSE] \in Rows
            /\ [job[s] EXCEPT !.live = FALSE].status = job[s].status
        BY <1>0 DEF Rows
      <3> QED
        BY <2>1, <3>1 DEF Expire
    <2>2. CASE RetryDue(s)
      <3>1. [job[s] EXCEPT !.due = TRUE] \in Rows
            /\ [job[s] EXCEPT !.due = TRUE].status = job[s].status
        BY <1>0 DEF Rows
      <3> QED
        BY <2>2, <3>1 DEF RetryDue
    <2>3. CASE RetryFailedJob(s)
      <3> DEFINE reopened == [job[s] EXCEPT !.status = "retry", !.attempts = 0, !.due = TRUE]
      <3>0. 0 \in 0..MaxAttempts /\ "retry" \in Open
        BY QueueAssumption DEF Open
      <3>1. reopened \in Rows /\ reopened.status = "retry"
        BY <1>0, <3>0 DEF Rows
      <3>2. job' = [job EXCEPT ![s] = reopened] /\ job[s].status = "failed"
        BY <2>3 DEF RetryFailedJob
      <3> HIDE DEF reopened
      <3> QED
        BY <3>1, <3>2
    <2> QED
      BY <2>1, <2>2, <2>3
  <1>4. job' \in [Sessions -> Rows] /\ FinalStays
        /\ \A t \in Sessions : job'[t].status = "succeeded" => job[t].status = "succeeded"
    BY <1>0, <1>3, RowChange DEF FinalStays, Final
  <1>5. VerdictsAreTrue'
    BY <1>1, <1>4, WorkersStay
  <1> QED
    BY <1>0, <1>1, <1>2, <1>4, <1>5, QuietStep

\* A worker's step that changes no report, session row, closer or count.
LEMMA QuietWorkerStep ==
    ASSUME AInv, NEW w \in Workers, NEW l \in Locals, worker' = [worker EXCEPT ![w] = l],
           job' \in [Sessions -> Rows], FinalStays, Sound(l, job'),
           \A s \in Sessions : job'[s].status = "succeeded" => job[s].status = "succeeded",
           UNCHANGED <<reports, summary, closer, manual>>
    PROVE  AInv'
  <1>1. worker' \in [Workers -> Locals] /\ VerdictsAreTrue'
    BY WorkerChange DEF AInv, JobTypeOK
  <1> QED
    BY <1>1, QuietStep DEF AInv, JobTypeOK

\* The row of a held job is given another status that opens no settled job.
LEMMA HeldRow ==
    ASSUME AInv, NEW w \in Workers, worker[w].at # "idle", Holds(w),
           NEW row \in Rows, job' = [job EXCEPT ![worker[w].on] = row]
    PROVE  /\ worker[w].on \in Sessions
           /\ job' \in [Sessions -> Rows] /\ job'[worker[w].on] = row /\ FinalStays
           /\ \A s \in Sessions : s # worker[w].on => job'[s] = job[s]
  <1>1. worker[w].on \in Sessions
    BY DEF AInv, VerdictsAreTrue
  <1>2. job \in [Sessions -> Rows]
    BY DEF AInv, JobTypeOK
  <1>3. job[worker[w].on].status = "running"
    BY HeldIsOpen
  <1>4. /\ job' \in [Sessions -> Rows] /\ job'[worker[w].on] = row
        /\ \A t \in Sessions : t # worker[w].on => job'[t] = job[t]
    BY <1>1, <1>2, RowChange
  <1> QED
    BY <1>1, <1>3, <1>4 DEF FinalStays, Final

\* Nothing happens to the rows.
LEMMA RowsStay ==
    ASSUME AInv, job' = job
    PROVE  /\ job' \in [Sessions -> Rows] /\ FinalStays
           /\ \A s \in Sessions : job'[s].status = "succeeded" => job[s].status = "succeeded"
  BY DEF AInv, JobTypeOK, FinalStays

LEMMA ClaimStep ==
    ASSUME AInv, NEW w \in Workers, Claim(w)
    PROVE  AInv'
  <1>0. job \in [Sessions -> Rows] /\ worker \in [Workers -> Locals]
    BY DEF AInv, JobTypeOK
  <1>1. UNCHANGED <<reports, summary, closer, manual>>
    BY DEF Claim
  <1>2. ASSUME NEW s \in Claimable, job' = [Swept EXCEPT ![s] = Claimed(s)],
               worker' = [worker EXCEPT ![w] = [at |-> "work", on |-> s,
                                                claim |-> job[s].claims + 1, verdict |-> ""]]
        PROVE  AInv'
    <2>1. s \in Sessions /\ job[s].status \in Open
          /\ Claimed(s) \in Rows /\ Claimed(s).status = "running"
      BY <1>0, ClaimedLemma
    <2>2. job' \in [Sessions -> Rows] /\ job'[s] = Claimed(s)
          /\ \A t \in Sessions : t # s => job'[t] = Swept[t]
      BY <1>0, <1>2, <2>1, SweptLemma
    <2>3. FinalStays
          /\ \A t \in Sessions : job'[t].status = "succeeded" => job[t].status = "succeeded"
      BY <1>0, <2>1, <2>2, SweptLemma DEF FinalStays, Final, Open
    <2>4. job[s].claims + 1 \in Nat
      BY <1>0, <2>1 DEF Rows
    <2> DEFINE l == [at |-> "work", on |-> s, claim |-> job[s].claims + 1, verdict |-> ""]
    <2>5. l \in Locals /\ Sound(l, job')
      BY <2>1, <2>4 DEF Locals, Sound
    <2>6. worker' = [worker EXCEPT ![w] = l]
      BY <1>2
    <2> HIDE DEF l
    <2> QED
      BY <1>1, <2>2, <2>3, <2>5, <2>6, QuietWorkerStep
  <1>3. CASE job' = Swept /\ worker' = worker
    <2>1. job' \in [Sessions -> Rows] /\ FinalStays
          /\ \A t \in Sessions : job'[t].status = "succeeded" => job[t].status = "succeeded"
      BY <1>0, <1>3, SweptLemma DEF FinalStays, Final, Open
    <2>2. VerdictsAreTrue'
      BY <1>3, <2>1, WorkersStay DEF AInv
    <2> QED
      BY <1>0, <1>1, <1>3, <2>1, <2>2, QuietStep DEF AInv, JobTypeOK
  <1> QED
    BY <1>2, <1>3 DEF Claim

LEMMA ReleaseStep ==
    ASSUME AInv, NEW w \in Workers, Release(w)
    PROVE  AInv'
  <1>0. worker[w].at # "idle" /\ worker' = [worker EXCEPT ![w] = Idle]
        /\ UNCHANGED <<reports, summary, closer, manual>>
    BY DEF Release, Forgets
  <1>1. Sound(Idle, job')
    BY IdleIsLocal DEF Sound
  <1>2. job' \in [Sessions -> Rows] /\ FinalStays
        /\ \A s \in Sessions : job'[s].status = "succeeded" => job[s].status = "succeeded"
    <2>1. CASE Holds(w)
      <3>1. worker[w].on \in Sessions /\ job \in [Sessions -> Rows]
        BY <1>0 DEF AInv, VerdictsAreTrue, JobTypeOK
      <3>2. Unclaimed(worker[w].on, "retry") \in Rows
            /\ Unclaimed(worker[w].on, "retry").status = "retry"
        BY <3>1, UnclaimedLemma DEF Open
      <3>3. job' = [job EXCEPT ![worker[w].on] = Unclaimed(worker[w].on, "retry")]
        BY <2>1 DEF Release
      <3> QED
        BY <1>0, <2>1, <3>2, <3>3, HeldRow
    <2>2. CASE ~Holds(w)
      BY <2>2, RowsStay DEF Release
    <2> QED
      BY <2>1, <2>2
  <1> QED
    BY <1>0, <1>1, <1>2, IdleIsLocal, QuietWorkerStep

\* The steps that only move a worker on.
LEMMA MoveStep ==
    ASSUME AInv, NEW w \in Workers, CheckLease(w) \/ Raise(w) \/ Crash(w)
    PROVE  AInv'
  <1>0. worker \in [Workers -> Locals] /\ worker[w].at # "idle"
        /\ UNCHANGED <<job, reports, summary, closer, manual>>
    BY DEF CheckLease, Raise, Crash, WorkerGoes, AInv, JobTypeOK
  <1>1. worker[w].on \in Sessions
    BY <1>0 DEF AInv, VerdictsAreTrue
  <1>2. PICK l \in Locals : worker' = [worker EXCEPT ![w] = l] /\ Sound(l, job')
    <2>1. CASE Crash(w)
      BY <2>1, IdleIsLocal DEF Crash, Forgets, Sound
    <2>2. ASSUME NEW at \in {"finish", "fail"}, worker' = [worker EXCEPT ![w].at = at]
          PROVE  \E l \in Locals : worker' = [worker EXCEPT ![w] = l] /\ Sound(l, job')
      <3> DEFINE moved == [worker[w] EXCEPT !.at = at]
      <3>1. moved \in Locals /\ moved.at = at /\ moved.on = worker[w].on
        BY <1>0, LocalsAt
      <3>2. worker' = [worker EXCEPT ![w] = moved]
        BY <2>2
      <3> HIDE DEF moved
      <3> QED
        BY <1>1, <3>1, <3>2 DEF Sound
    <2> QED
      BY <2>1, <2>2 DEF CheckLease, Raise, WorkerGoes
  <1> QED
    BY <1>0, <1>2, RowsStay, QuietWorkerStep

LEMMA CompleteStep ==
    ASSUME AInv, NEW w \in Workers, Complete(w)
    PROVE  AInv'
  <1> DEFINE s == worker[w].on
  <1>0. worker[w].at = "finish" /\ worker' = [worker EXCEPT ![w] = Idle]
        /\ UNCHANGED <<closer, manual>>
    BY DEF Complete, Forgets
  <1>1. s \in Sessions /\ job \in [Sessions -> Rows] /\ worker \in [Workers -> Locals]
        /\ worker[w] \in Locals
    BY <1>0 DEF AInv, VerdictsAreTrue, JobTypeOK
  <1>2. Sound(Idle, job')
    BY IdleIsLocal DEF Sound
  <1>3. CASE Holds(w)
    <2>1. /\ job' = [job EXCEPT ![s] = Unclaimed(s, "succeeded")]
          /\ reports' = reports \cup {<<s, worker[w].claim>>}
          /\ summary' = [summary EXCEPT ![s] = "succeeded"]
      BY <1>3 DEF Complete
    <2>2. Unclaimed(s, "succeeded") \in Rows
          /\ Unclaimed(s, "succeeded").status = "succeeded"
      BY <1>1, UnclaimedLemma DEF Done
    <2>3. /\ job' \in [Sessions -> Rows] /\ job'[s].status = "succeeded" /\ FinalStays
          /\ \A t \in Sessions : t # s => job'[t] = job[t]
      BY <1>0, <1>3, <2>1, <2>2, HeldRow
    <2>4. job[s].status = "running"
      BY <1>3, HeldIsOpen
    <2>5. worker' \in [Workers -> Locals] /\ VerdictsAreTrue'
      BY <1>0, <1>1, <1>2, <2>3, IdleIsLocal, WorkerChange DEF AInv
    <2>6. JobTypeOK'
      <3>1. worker[w].claim \in Nat
        BY <1>1 DEF Locals
      <3>2. reports' \subseteq Sessions \X Nat
        BY <1>1, <2>1, <3>1 DEF AInv, JobTypeOK
      <3> QED
        BY <1>0, <1>1, <2>1, <2>3, <2>5, <3>2 DEF AInv, JobTypeOK
    <2>7. OneReport'
      <3>1. \A r \in reports : r[1] # s
        BY <1>1, <2>4 DEF AInv, OneReport
      <3>2. \A r \in reports' : r \in reports \/ r = <<s, worker[w].claim>>
        BY <2>1
      <3>3. <<s, worker[w].claim>>[1] = s /\ <<s, worker[w].claim>> \in reports'
        BY <2>1
      <3>4. \A r, q \in reports' : r[1] = q[1] => r = q
        BY <3>1, <3>2, <3>3 DEF AInv, OneReport
      <3>5. ASSUME NEW t \in Sessions
            PROVE  job'[t].status = "succeeded" <=> \E r \in reports' : r[1] = t
        <4>1. CASE t = s
          BY <2>3, <3>3, <4>1
        <4>2. CASE t # s
          <5>1. (\E r \in reports' : r[1] = t) <=> (\E r \in reports : r[1] = t)
            BY <2>1, <3>2, <3>3, <4>2
          <5> QED
            BY <2>3, <4>2, <5>1 DEF AInv, OneReport
        <4> QED
          BY <4>1, <4>2
      <3> QED
        BY <3>4, <3>5 DEF OneReport
    <2>8. SummaryIsNotAhead'
      <3>1. \A t \in Sessions :
               summary'[t] = summary[t] \/ summary'[t] = job'[t].status
        BY <1>1, <2>1, <2>3 DEF AInv, JobTypeOK
      <3> QED
        BY <2>3, <3>1, SummaryKept DEF AInv, FinalStays
    <2> QED
      BY <2>5, <2>6, <2>7, <2>8 DEF AInv
  <1>4. CASE ~Holds(w)
    <2>1. UNCHANGED <<job, reports, summary>>
      BY <1>4 DEF Complete
    <2> QED
      BY <1>0, <1>2, <2>1, RowsStay, IdleIsLocal, QuietWorkerStep
  <1> QED
    BY <1>3, <1>4

\* A held job is settled or sent back, and the verdict is to be written.
LEMMA VerdictStep ==
    ASSUME AInv, NEW w \in Workers, worker[w].at # "idle", Holds(w),
           NEW v \in {"retry", "failed", "skipped"},
           NEW row \in Rows, row.status = v, job' = [job EXCEPT ![worker[w].on] = row],
           worker' = [worker EXCEPT ![w].at = "patch", ![w].verdict = v],
           UNCHANGED <<reports, summary, closer, manual>>
    PROVE  AInv'
  <1>0. worker \in [Workers -> Locals] /\ worker[w] \in Locals
    BY DEF AInv, JobTypeOK
  <1> DEFINE l == [worker[w] EXCEPT !.at = "patch", !.verdict = v]
  <1>1. l \in Locals /\ l.at = "patch" /\ l.verdict = v /\ l.on = worker[w].on
    BY <1>0 DEF Locals
  <1>2. worker' = [worker EXCEPT ![w] = l]
    BY <1>0
  <1> HIDE DEF l
  <1>3. /\ worker[w].on \in Sessions
        /\ job' \in [Sessions -> Rows] /\ job'[worker[w].on].status = v /\ FinalStays
        /\ \A s \in Sessions : s # worker[w].on => job'[s] = job[s]
    BY HeldRow
  <1>4. \A s \in Sessions : job'[s].status = "succeeded" => job[s].status = "succeeded"
    BY <1>3
  <1>5. Sound(l, job')
    BY <1>1, <1>3 DEF Sound
  <1> QED
    BY <1>1, <1>2, <1>3, <1>4, <1>5, QuietWorkerStep

\* A worker that lost its claim forgets it.
LEMMA ForgetStep ==
    ASSUME AInv, NEW w \in Workers, Forgets(w), job' = job,
           UNCHANGED <<reports, summary, closer, manual>>
    PROVE  AInv'
  <1>1. Sound(Idle, job')
    BY IdleIsLocal DEF Sound
  <1>2. worker' = [worker EXCEPT ![w] = Idle]
    BY DEF Forgets
  <1> QED
    BY <1>1, <1>2, RowsStay, IdleIsLocal, QuietWorkerStep

LEMMA SkipStep ==
    ASSUME AInv, NEW w \in Workers, Skip(w)
    PROVE  AInv'
  <1>0. worker[w].at = "work" /\ UNCHANGED <<reports, summary, closer, manual>>
    BY DEF Skip
  <1>1. CASE Holds(w)
    <2>1. worker[w].on \in Sessions /\ job \in [Sessions -> Rows]
      BY <1>0 DEF AInv, VerdictsAreTrue, JobTypeOK
    <2>2. Unclaimed(worker[w].on, "skipped") \in Rows
          /\ Unclaimed(worker[w].on, "skipped").status = "skipped"
      BY <2>1, UnclaimedLemma DEF Done
    <2>3. /\ job' = [job EXCEPT ![worker[w].on] = Unclaimed(worker[w].on, "skipped")]
          /\ worker' = [worker EXCEPT ![w].at = "patch", ![w].verdict = "skipped"]
      BY <1>1 DEF Skip
    <2> QED
      BY <1>0, <1>1, <2>2, <2>3, VerdictStep
  <1>2. CASE ~Holds(w)
    BY <1>0, <1>2, ForgetStep DEF Skip
  <1> QED
    BY <1>1, <1>2

LEMMA FailStep ==
    ASSUME AInv, NEW w \in Workers, FailJob(w)
    PROVE  AInv'
  <1> DEFINE s == worker[w].on
  <1>0. worker[w].at = "fail" /\ UNCHANGED <<reports, summary, closer, manual>>
    BY DEF FailJob
  <1>1. s \in Sessions /\ job \in [Sessions -> Rows]
    BY <1>0 DEF AInv, VerdictsAreTrue, JobTypeOK
  <1>2. ASSUME Holds(w), job' = [job EXCEPT ![s] = [Unclaimed(s, "retry") EXCEPT !.due = FALSE]],
               worker' = [worker EXCEPT ![w].at = "patch", ![w].verdict = "retry"]
        PROVE  AInv'
    <2>1. Unclaimed(s, "retry") \in Rows /\ Unclaimed(s, "retry").status = "retry"
      BY <1>1, UnclaimedLemma DEF Open
    <2> DEFINE row == [Unclaimed(s, "retry") EXCEPT !.due = FALSE]
    <2>2. row \in Rows /\ row.status = "retry"
      BY <2>1 DEF Rows
    <2>3. job' = [job EXCEPT ![s] = row]
      BY <1>2
    <2> HIDE DEF row
    <2> QED
      BY <1>0, <1>2, <2>2, <2>3, VerdictStep
  <1>3. ASSUME Holds(w), job' = [job EXCEPT ![s] = Unclaimed(s, "failed")],
               worker' = [worker EXCEPT ![w].at = "patch", ![w].verdict = "failed"]
        PROVE  AInv'
    <2>1. Unclaimed(s, "failed") \in Rows /\ Unclaimed(s, "failed").status = "failed"
      BY <1>1, UnclaimedLemma DEF Done
    <2> QED
      BY <1>0, <1>3, <2>1, VerdictStep
  <1>4. CASE ~Holds(w)
    BY <1>0, <1>4, ForgetStep DEF FailJob
  <1> QED
    BY <1>2, <1>3, <1>4 DEF FailJob

LEMMA PatchStep ==
    ASSUME AInv, NEW w \in Workers, Patch(w)
    PROVE  AInv'
  <1> DEFINE s == worker[w].on
  <1>0. /\ worker[w].at = "patch" /\ worker' = [worker EXCEPT ![w] = Idle]
        /\ summary' = [summary EXCEPT ![s] = worker[w].verdict]
        /\ UNCHANGED <<job, reports, closer, manual>>
    BY DEF Patch, Forgets
  <1>1. /\ s \in Sessions /\ worker[w].verdict \in {"retry", "failed", "skipped"}
        /\ worker[w].verdict = "skipped" => job[s].status = "skipped"
        /\ worker \in [Workers -> Locals]
    BY <1>0 DEF AInv, VerdictsAreTrue, JobTypeOK, Locals
  <1>2. worker' \in [Workers -> Locals] /\ VerdictsAreTrue'
    <2>1. Sound(Idle, job') /\ FinalStays
      BY <1>0, IdleIsLocal DEF Sound, FinalStays
    <2> QED
      BY <1>0, <1>1, <2>1, IdleIsLocal, WorkerChange DEF AInv
  <1>3. JobTypeOK'
    BY <1>0, <1>1, <1>2 DEF AInv, JobTypeOK
  <1>4. OneReport'
    BY <1>0, ReportsKept DEF AInv
  <1>5. SummaryIsNotAhead'
    <2>1. \A t \in Sessions : summary'[t] \in Final =>
             summary'[t] = summary[t] \/ summary'[t] = job'[t].status
      BY <1>0, <1>1 DEF AInv, JobTypeOK, Final
    <2> QED
      BY <1>0, <2>1, SummaryKept DEF AInv
  <1> QED
    BY <1>2, <1>3, <1>4, <1>5 DEF AInv

LEMMA NextInv ==
    ASSUME AInv, [Next]_vars
    PROVE  AInv'
  <1>1. ASSUME NEW s \in Sessions,
               Closing(s) \/ Expire(s) \/ RetryDue(s) \/ RetryFailedJob(s)
        PROVE  AInv'
    BY <1>1, CloserStep, TimeStep
  <1>2. ASSUME NEW w \in Workers, Working(w) \/ Release(w) \/ Crash(w)
        PROVE  AInv'
    BY <1>2, ClaimStep, ReleaseStep, MoveStep, CompleteStep, SkipStep, FailStep, PatchStep
       DEF Working
  <1>3. CASE UNCHANGED vars
    BY <1>3 DEF vars, AInv, JobTypeOK, OneReport, SummaryIsNotAhead, VerdictsAreTrue
  <1> QED
    BY <1>1, <1>2, <1>3 DEF Next

\* The invariant holds of every behaviour of the queue, its claims and sweeps.
THEOREM AnalysisInvariant == Spec => []AInv
  <1> QED
    BY InitInv, NextInv, PTL DEF Spec

\* Every row of analysis_jobs is well formed: in particular claim_jobs and
\* retry_failed_job never let the attempts of a job exceed analysis_max_attempts.
THEOREM QueueTypeCorrect == Spec => []JobTypeOK
  <1>1. AInv => JobTypeOK
    BY DEF AInv
  <1> QED
    BY <1>1, AnalysisInvariant, PTL

\* complete_analysis_job files one report for a session and only together with
\* the job's success, however many workers hold expired claims on it.
THEOREM OneReportFiled == Spec => []OneReport
  <1>1. AInv => OneReport
    BY DEF AInv
  <1> QED
    BY <1>1, AnalysisInvariant, PTL

\* update_session_analysis_status and complete_analysis_job never write a success
\* or a skip into a session's row that the session's job does not bear out.
THEOREM SummaryTrue == Spec => []SummaryIsNotAhead
  <1>1. AInv => SummaryIsNotAhead
    BY DEF AInv
  <1> QED
    BY <1>1, AnalysisInvariant, PTL

-----------------------------------------------------------------------------
(* Every step is a step of the ledger, or changes nothing there.            *)

\* A job's state in the ledger, and the ledger's state.
Entry(rows, s) == IF rows[s].status \in Open THEN "open" ELSE rows[s].status

Entries == [s \in Sessions |-> Entry(job, s)]

\* A step that leaves every entry and the reports is none of the ledger's.
LEMMA LedgerStutter ==
    ASSUME \A s \in Sessions : Entry(job', s) = Entry(job, s), reports' = reports
    PROVE  UNCHANGED Ledger!ledgerVars
  BY DEF Ledger!ledgerVars, Entry

LEMMA LedgerClaim ==
    ASSUME AInv, NEW w \in Workers, Claim(w)
    PROVE  Ledger!LedgerNext
  <1>0. job \in [Sessions -> Rows] /\ reports' = reports
    BY DEF AInv, JobTypeOK, Claim
  <1>1. \A s \in Exhausted : s \in Sessions /\ job[s].status \in Open /\ s \notin Claimable
    BY <1>0, QueueAssumption DEF Exhausted, Claimable, Available, Rows
  <1>2. \A s \in Sessions : Swept[s].status = IF s \in Exhausted THEN "failed"
                                              ELSE job[s].status
    BY <1>0 DEF Swept, Unclaimed, Rows
  <1>3. \A s \in Sessions : Entry(job', s) = IF s \in Exhausted THEN "failed"
                                             ELSE Entry(job, s)
    <2>1. ASSUME NEW t \in Claimable, job' = [Swept EXCEPT ![t] = Claimed(t)]
          PROVE  \A s \in Sessions : Entry(job', s) = IF s \in Exhausted THEN "failed"
                                                      ELSE Entry(job, s)
      <3>1. t \in Sessions /\ job[t].status \in Open /\ Claimed(t).status = "running"
        BY <1>0, ClaimedLemma
      <3>2. \A s \in Sessions : job'[s] = IF s = t THEN Claimed(t) ELSE Swept[s]
        BY <1>0, <2>1, <3>1, SweptLemma
      <3> QED
        BY <1>1, <1>2, <2>1, <3>1, <3>2 DEF Entry, Open
    <2>2. CASE job' = Swept
      BY <1>2, <2>2 DEF Entry, Open
    <2> QED
      BY <2>1, <2>2 DEF Claim
  <1>4. Ledger!Fail(Exhausted)
    BY <1>0, <1>1, <1>3 DEF Ledger!Fail, Entry
  <1>5. Exhausted \in SUBSET Sessions
    BY DEF Exhausted
  <1>6. \E some \in SUBSET Sessions : Ledger!Fail(some)
    BY <1>4, <1>5, Zenon DEF Ledger!Fail
  <1> QED
    BY <1>6, Zenon DEF Ledger!LedgerNext

\* One row changes from an open job to another state.
LEMMA LedgerRow ==
    ASSUME AInv, NEW w \in Workers, worker[w].at # "idle", Holds(w),
           NEW st \in {"retry", "skipped", "failed"},
           NEW row \in Rows, row.status = st,
           job' = [job EXCEPT ![worker[w].on] = row], reports' = reports
    PROVE  [Ledger!LedgerNext]_(Ledger!ledgerVars)
  <1> DEFINE s == worker[w].on
  <1>1. /\ s \in Sessions /\ job'[s] = row
        /\ \A t \in Sessions : t # s => job'[t] = job[t]
    BY HeldRow
  <1>2. Entry(job, s) = "open"
    BY HeldIsOpen DEF Entry, Open
  <1>3. CASE st = "retry"
    <2>1. \A t \in Sessions : Entry(job', t) = Entry(job, t)
      BY <1>1, <1>2, <1>3 DEF Entry, Open
    <2> QED
      BY <2>1, LedgerStutter
  <1>4. CASE st # "retry"
    <2>1. \A t \in Sessions : Entry(job', t) = IF t = s THEN st ELSE Entry(job, t)
      BY <1>1, <1>4 DEF Entry, Open
    <2>2. CASE st = "skipped"
      <3>1. Ledger!Skip(s)
        BY <1>1, <1>2, <2>1, <2>2 DEF Ledger!Skip, Entry
      <3> QED
        BY <1>1, <3>1 DEF Ledger!LedgerNext, Ledger!Skip
    <2>3. CASE st = "failed"
      <3>1. Ledger!Fail({s})
        BY <1>1, <1>2, <2>1, <2>3 DEF Ledger!Fail, Entry
      <3>2. {s} \in SUBSET Sessions
        BY <1>1
      <3>3. \E some \in SUBSET Sessions : Ledger!Fail(some)
        BY <3>1, <3>2, Zenon DEF Ledger!Fail
      <3> QED
        BY <3>3, Zenon DEF Ledger!LedgerNext
    <2> QED
      BY <1>4, <2>2, <2>3
  <1> QED
    BY <1>3, <1>4

LEMMA LedgerWorker ==
    ASSUME AInv, NEW w \in Workers, Release(w) \/ Skip(w) \/ FailJob(w)
    PROVE  [Ledger!LedgerNext]_(Ledger!ledgerVars)
  <1> DEFINE s == worker[w].on
  <1>0. worker[w].at # "idle" /\ reports' = reports /\ job \in [Sessions -> Rows]
    BY DEF Release, Skip, FailJob, AInv, JobTypeOK
  <1>1. s \in Sessions
    BY <1>0 DEF AInv, VerdictsAreTrue
  <1>2. CASE job' = job
    BY <1>0, <1>2, LedgerStutter
  <1>3. ASSUME NEW st \in {"retry", "skipped", "failed"}, Holds(w),
               job' = [job EXCEPT ![s] = Unclaimed(s, st)]
        PROVE  [Ledger!LedgerNext]_(Ledger!ledgerVars)
    <2>1. Unclaimed(s, st) \in Rows /\ Unclaimed(s, st).status = st
      BY <1>0, <1>1, UnclaimedLemma DEF Open, Done
    <2> QED
      BY <1>0, <1>3, <2>1, LedgerRow
  <1>4. ASSUME Holds(w), job' = [job EXCEPT ![s] = [Unclaimed(s, "retry") EXCEPT !.due = FALSE]]
        PROVE  [Ledger!LedgerNext]_(Ledger!ledgerVars)
    <2>1. Unclaimed(s, "retry") \in Rows /\ Unclaimed(s, "retry").status = "retry"
      BY <1>0, <1>1, UnclaimedLemma DEF Open
    <2> DEFINE row == [Unclaimed(s, "retry") EXCEPT !.due = FALSE]
    <2>2. row \in Rows /\ row.status = "retry"
      BY <2>1 DEF Rows
    <2>3. job' = [job EXCEPT ![s] = row]
      BY <1>4
    <2> HIDE DEF row
    <2> QED
      BY <1>0, <1>4, <2>2, <2>3, LedgerRow
  <1> QED
    BY <1>2, <1>3, <1>4 DEF Release, Skip, FailJob

LEMMA LedgerComplete ==
    ASSUME AInv, NEW w \in Workers, Complete(w)
    PROVE  [Ledger!LedgerNext]_(Ledger!ledgerVars)
  <1> DEFINE s == worker[w].on
             r == <<s, worker[w].claim>>
  <1>0. worker[w].at = "finish" /\ job \in [Sessions -> Rows]
    BY DEF Complete, AInv, JobTypeOK
  <1>1. s \in Sessions
    BY <1>0 DEF AInv, VerdictsAreTrue
  <1>2. CASE Holds(w)
    <2>1. job' = [job EXCEPT ![s] = Unclaimed(s, "succeeded")] /\ reports' = reports \cup {r}
      BY <1>2 DEF Complete
    <2>2. Unclaimed(s, "succeeded") \in Rows
          /\ Unclaimed(s, "succeeded").status = "succeeded"
      BY <1>0, <1>1, UnclaimedLemma DEF Done
    <2>3. job'[s].status = "succeeded" /\ \A t \in Sessions : t # s => job'[t] = job[t]
      BY <1>0, <1>1, <2>1, <2>2
    <2>4. job[s].status = "running"
      BY <1>2, HeldIsOpen
    <2>5. \A q \in reports : q[1] # s
      BY <1>1, <2>4 DEF AInv, OneReport
    <2>6. Entry(job, s) = "open"
          /\ \A t \in Sessions : Entry(job', t) = IF t = s THEN "succeeded" ELSE Entry(job, t)
      BY <1>1, <2>3, <2>4 DEF Entry, Open
    <2>7. r \in reports' /\ r[1] = s
      BY <2>1
    <2>8. Ledger!Succeed(s)
      <3>1. /\ Entries[s] = "open" /\ Entries' = [Entries EXCEPT ![s] = "succeeded"]
        BY <1>1, <2>6 DEF Entries
      <3>2. \E q \in reports' : q[1] = s /\ reports' = reports \cup {q}
        BY <2>1, <2>7
      <3> HIDE DEF r, s
      <3> QED
        BY <2>5, <3>1, <3>2 DEF Ledger!Succeed, Entries, Entry
    <2> QED
      BY <1>1, <2>8 DEF Ledger!LedgerNext, Ledger!Succeed
  <1>3. CASE ~Holds(w)
    BY <1>3, LedgerStutter DEF Complete
  <1> QED
    BY <1>2, <1>3

LEMMA LedgerSession ==
    ASSUME AInv, NEW s \in Sessions,
           Closing(s) \/ Expire(s) \/ RetryDue(s) \/ RetryFailedJob(s)
    PROVE  [Ledger!LedgerNext]_(Ledger!ledgerVars)
  <1>0. job \in [Sessions -> Rows] /\ reports' = reports
    BY DEF AInv, JobTypeOK, Closing, Enqueue, MarkQueued, CloseEnds, CloseAgain,
           Expire, RetryDue, RetryFailedJob
  <1>1. CASE job[s].status = "none" /\ Enqueue(s)
    <2>1. \A t \in Sessions : Entry(job', t) = IF t = s THEN "open" ELSE Entry(job, t)
      BY <1>0, <1>1 DEF Enqueue, NoJob, Entry, Open
    <2>2. Entry(job, s) = "none"
      BY <1>1 DEF Entry, Open
    <2> QED
      BY <1>0, <2>1, <2>2 DEF Ledger!LedgerNext, Ledger!Open, Entry
  <1>2. CASE RetryFailedJob(s)
    <2>1. \A t \in Sessions : Entry(job', t) = IF t = s THEN "open" ELSE Entry(job, t)
      BY <1>0, <1>2 DEF RetryFailedJob, Entry, Open, Rows
    <2>2. Entry(job, s) = "failed"
      BY <1>2 DEF RetryFailedJob, Entry, Open
    <2> QED
      BY <1>0, <2>1, <2>2 DEF Ledger!LedgerNext, Ledger!Reopen, Entry
  <1>3. CASE Expire(s) \/ RetryDue(s)
    <2>1. \A t \in Sessions : job'[t].status = job[t].status
      BY <1>0, <1>3 DEF Expire, RetryDue, Rows
    <2> QED
      BY <1>0, <2>1, LedgerStutter DEF Entry
  <1>4. CASE job' = job
    BY <1>0, <1>4, LedgerStutter
  <1> QED
    BY <1>1, <1>2, <1>3, <1>4 DEF Closing, Enqueue, MarkQueued, CloseEnds, CloseAgain

LEMMA LedgerStep ==
    ASSUME AInv, [Next]_vars
    PROVE  [Ledger!LedgerNext]_(Ledger!ledgerVars)
  <1>1. ASSUME NEW w \in Workers,
               CheckLease(w) \/ Raise(w) \/ Patch(w) \/ Crash(w)
        PROVE  [Ledger!LedgerNext]_(Ledger!ledgerVars)
    <2>1. job' = job /\ reports' = reports
      BY <1>1 DEF CheckLease, Raise, Patch, Crash
    <2> QED
      BY <2>1, LedgerStutter
  <1>2. CASE UNCHANGED vars
    BY <1>2, LedgerStutter DEF vars
  <1> QED
    BY <1>1, <1>2, LedgerSession, LedgerClaim, LedgerWorker, LedgerComplete
       DEF Next, Working

\* The queue of analysis jobs implements the ledger: whatever workers do under
\* expired claims, an analysis is opened once, settled by one report, a skip or
\* the end of its attempts, and opened again only by retry_failed_job.
THEOREM LedgerRefinement == Spec => ImplementsLedger
  <1>1. Init => Ledger!LedgerInit
    BY DEF Init, Ledger!LedgerInit, NoJob, Open
  <1>2. AInv /\ [Next]_vars => [Ledger!LedgerNext]_(Ledger!ledgerVars)
    BY LedgerStep
  <1> QED
    BY <1>1, <1>2, AnalysisInvariant, PTL DEF Spec, ImplementsLedger, Ledger!LedgerSpec
=============================================================================
