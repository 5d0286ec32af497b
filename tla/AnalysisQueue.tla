---------------------------- MODULE AnalysisQueue ----------------------------
(***************************************************************************)
(* The analysis jobs: the session worker's announcement of a closed        *)
(* session (_on_session_end), the job queue of storage/backend.py, and the *)
(* analysis workers (workers/analysis_worker.py) that claim jobs, file     *)
(* reports and keep analysis_status in the session's row, with failures,   *)
(* crashes, claims that expire at any moment and retries by hand.          *)
(*                                                                         *)
(* Time is left out: a claim and a retry are due or not yet due.  Which of *)
(* the claimable jobs is taken is left open (the code takes the oldest).   *)
(***************************************************************************)
EXTENDS Naturals, FiniteSets

CONSTANTS
    Sessions,      \* closed sessions that need analysis
    NoSession,     \* no session
    Workers,       \* analysis worker processes
    MaxAttempts,   \* analysis_max_attempts
    MaxCloses,     \* bound: how often a closing event is tried
    MaxManual      \* bound: retries of a failed job by hand

ASSUME QueueAssumption ==
    NoSession \notin Sessions /\ MaxAttempts \in Nat \ {0} /\ MaxCloses \in Nat /\ MaxManual \in Nat

VARIABLES
    job,       \* rows of analysis_jobs, one per session
    reports,   \* rows of reports: session, and number of the claim that wrote it
    summary,   \* analysis_status in the session's payload
    closer,    \* what _on_session_end reached with the session, and its tries
    manual,    \* retries by hand so far
    worker     \* locals of process_once: step, session, claim, status to write

vars == <<job, reports, summary, closer, manual, worker>>

Open == {"queued", "retry", "running"}
Done == {"succeeded", "skipped", "failed"}

NoJob == [status |-> "none", attempts |-> 0, claims |-> 0, live |-> FALSE, due |-> FALSE]
Idle == [at |-> "idle", on |-> NoSession, claim |-> 0, verdict |-> ""]

Rows == [status : {"none"} \cup Open \cup Done, attempts : 0..MaxAttempts,
         claims : Nat, live : BOOLEAN, due : BOOLEAN]

Locals == [at : {"idle", "work", "finish", "fail", "patch"},
           on : Sessions \cup {NoSession}, claim : Nat,
           verdict : {"", "retry", "failed", "skipped"}]

JobTypeOK ==
    /\ job \in [Sessions -> Rows]
    /\ reports \subseteq Sessions \X Nat
    /\ summary \in [Sessions -> {"none", "queued", "retry", "failed",
                                 "succeeded", "skipped"}]
    /\ closer \in [Sessions -> [at : {"close", "mark", "end", "done"},
                                tries : 0..MaxCloses]]
    /\ manual \in [Sessions -> 0..MaxManual]
    /\ worker \in [Workers -> Locals]

Init ==
    /\ job = [s \in Sessions |-> NoJob]
    /\ reports = {}
    /\ summary = [s \in Sessions |-> "none"]
    /\ closer = [s \in Sessions |-> [at |-> "close", tries |-> 0]]
    /\ manual = [s \in Sessions |-> 0]
    /\ worker = [w \in Workers |-> Idle]

-----------------------------------------------------------------------------
(* The session worker closes a session.  Its first save changes no analysis *)
(* field, and its second save keeps those of the row.                       *)

CloserGoes(s, from, to) ==
    /\ closer[s].at \in from
    /\ closer' = [closer EXCEPT ![s].at = to]

\* enqueue_analysis_job: INSERT OR IGNORE.
Enqueue(s) ==
    /\ CloserGoes(s, {"close"}, "mark")
    /\ job' = IF job[s].status = "none"
              THEN [job EXCEPT ![s] = [NoJob EXCEPT !.status = "queued", !.due = TRUE]]
              ELSE job
    /\ UNCHANGED <<reports, summary, manual, worker>>

\* update_session_analysis_status(queued).
MarkQueued(s) ==
    /\ CloserGoes(s, {"mark"}, "end")
    /\ summary' = [summary EXCEPT ![s] = "queued"]
    /\ UNCHANGED <<job, reports, manual, worker>>

\* The closing event is completed, or given up as a dead letter.
CloseEnds(s) ==
    /\ CloserGoes(s, {"close", "mark", "end"}, "done")
    /\ UNCHANGED <<job, reports, summary, manual, worker>>

\* An error or a crash before that: the closing event is tried again.
CloseAgain(s) ==
    /\ closer[s].at \in {"mark", "end"}
    /\ closer[s].tries < MaxCloses
    /\ closer' = [closer EXCEPT ![s] = [at |-> "close", tries |-> @.tries + 1]]
    /\ UNCHANGED <<job, reports, summary, manual, worker>>

-----------------------------------------------------------------------------
(* The job queue. *)

\* The conditions of claim_jobs but for the attempts.
Available(s) ==
    /\ job[s].status \in Open
    /\ job[s].due
    /\ job[s].status = "running" => ~job[s].live

\* Bug: jobs whose last attempt died are never swept up.
NeverExhausted == {}

\* Jobs that used up their attempts: claim_jobs fails them first.
Exhausted == {s \in Sessions : Available(s) /\ job[s].attempts >= MaxAttempts}

\* Bug: the limit on attempts is off by one.
ClaimableOnceMore == {s \in Sessions : Available(s) /\ job[s].attempts <= MaxAttempts}

Claimable == {s \in Sessions : Available(s) /\ job[s].attempts < MaxAttempts}

\* The claim leaves the row of s with this status.
Unclaimed(s, status) == [job[s] EXCEPT !.status = status, !.live = FALSE]

Claimed(s) ==
    [job[s] EXCEPT !.status = "running", !.attempts = @ + 1, !.claims = @ + 1,
                   !.live = TRUE]

\* The row still is under the claim w works with.
Holds(w) ==
    LET j == job[worker[w].on]
    IN  j.status = "running" /\ j.live /\ j.claims = worker[w].claim

WorkerGoes(w, from, to) ==
    /\ worker[w].at \in from
    /\ worker' = [worker EXCEPT ![w].at = to]

\* The loop over the batch begins anew, or the process does.
Forgets(w) == worker' = [worker EXCEPT ![w] = Idle]

Swept == [s \in Sessions |-> IF s \in Exhausted THEN Unclaimed(s, "failed") ELSE job[s]]

\* claim_analysis_jobs with limit 1.
Claim(w) ==
    /\ worker[w].at = "idle"
    /\ \/ \E s \in Claimable :
             /\ job' = [Swept EXCEPT ![s] = Claimed(s)]
             /\ worker' = [worker EXCEPT ![w] =
                             [at |-> "work", on |-> s, claim |-> job[s].claims + 1,
                              verdict |-> ""]]
       \/ /\ Claimable = {}
          /\ job' = Swept
          /\ UNCHANGED worker
    /\ UNCHANGED <<reports, summary, closer, manual>>

\* release_job_claim: the signal to stop came after the claim.
Release(w) ==
    /\ worker[w].at = "work"
    /\ job' = IF Holds(w)
              THEN [job EXCEPT ![worker[w].on] = Unclaimed(worker[w].on, "retry")]
              ELSE job
    /\ Forgets(w)
    /\ UNCHANGED <<reports, summary, closer, manual>>

\* The report is made, and heartbeat.check renews the claim.
CheckLease(w) ==
    /\ WorkerGoes(w, {"work"}, "finish")
    /\ Holds(w)
    /\ UNCHANGED <<job, reports, summary, closer, manual>>

\* An exception: in the analysis, from a heartbeat that lost the claim or found
\* it lost, or from the storage.
Raise(w) ==
    /\ WorkerGoes(w, {"work", "finish"}, "fail")
    /\ UNCHANGED <<job, reports, summary, closer, manual>>

\* Bug: the report is filed under a claim that is no longer one's own.
CompleteUnclaimed(w) ==
    /\ worker[w].at = "finish"
    /\ LET s == worker[w].on IN
       /\ job' = [job EXCEPT ![s] = Unclaimed(s, "succeeded")]
       /\ reports' = reports \cup {<<s, worker[w].claim>>}
       /\ summary' = [summary EXCEPT ![s] = "succeeded"]
    /\ Forgets(w)
    /\ UNCHANGED <<closer, manual>>

\* complete_analysis_job: report, job and session row in one transaction.
Complete(w) ==
    /\ worker[w].at = "finish"
    /\ LET s == worker[w].on IN
       IF Holds(w)
       THEN /\ job' = [job EXCEPT ![s] = Unclaimed(s, "succeeded")]
            /\ reports' = reports \cup {<<s, worker[w].claim>>}
            /\ summary' = [summary EXCEPT ![s] = "succeeded"]
       ELSE UNCHANGED <<job, reports, summary>>
    /\ Forgets(w)
    /\ UNCHANGED <<closer, manual>>

\* Bug: the session is marked skipped whether or not the job still could be.
SkipUnclaimed(w) ==
    /\ worker[w].at = "work"
    /\ job' = IF Holds(w)
              THEN [job EXCEPT ![worker[w].on] = Unclaimed(worker[w].on, "skipped")]
              ELSE job
    /\ worker' = [worker EXCEPT ![w].at = "patch", ![w].verdict = "skipped"]
    /\ UNCHANGED <<reports, summary, closer, manual>>

\* skip_analysis_job, up to its update of the session row.
Skip(w) ==
    /\ worker[w].at = "work"
    /\ IF Holds(w)
       THEN /\ job' = [job EXCEPT ![worker[w].on] = Unclaimed(worker[w].on, "skipped")]
            /\ worker' = [worker EXCEPT ![w].at = "patch", ![w].verdict = "skipped"]
       ELSE Forgets(w) /\ UNCHANGED job
    /\ UNCHANGED <<reports, summary, closer, manual>>

\* fail_analysis_job, up to its update of the session row.
FailJob(w) ==
    /\ worker[w].at = "fail"
    /\ LET s == worker[w].on IN
       IF Holds(w)
       THEN \E retryable \in BOOLEAN :
              IF retryable /\ job[s].attempts < MaxAttempts
              THEN /\ job' = [job EXCEPT ![s] = [Unclaimed(s, "retry") EXCEPT !.due = FALSE]]
                   /\ worker' = [worker EXCEPT ![w].at = "patch", ![w].verdict = "retry"]
              ELSE /\ job' = [job EXCEPT ![s] = Unclaimed(s, "failed")]
                   /\ worker' = [worker EXCEPT ![w].at = "patch", ![w].verdict = "failed"]
       ELSE Forgets(w) /\ UNCHANGED job
    /\ UNCHANGED <<reports, summary, closer, manual>>

\* update_session_analysis_status, a transaction of its own.
Patch(w) ==
    /\ worker[w].at = "patch"
    /\ summary' = [summary EXCEPT ![worker[w].on] = worker[w].verdict]
    /\ Forgets(w)
    /\ UNCHANGED <<job, reports, closer, manual>>

\* The process dies, or an exception leaves process_once; systemd restarts it
\* with a new owner identity.
Crash(w) ==
    /\ worker[w].at # "idle"
    /\ Forgets(w)
    /\ UNCHANGED <<job, reports, summary, closer, manual>>

-----------------------------------------------------------------------------
(* Time and the operator. *)

Expire(s) ==
    /\ job[s].live
    /\ job' = [job EXCEPT ![s].live = FALSE]
    /\ UNCHANGED <<reports, summary, closer, manual, worker>>

RetryDue(s) ==
    /\ job[s].status = "retry" /\ ~job[s].due
    /\ job' = [job EXCEPT ![s].due = TRUE]
    /\ UNCHANGED <<reports, summary, closer, manual, worker>>

\* Bug: a job may be retried by hand whatever became of it.
RetryAnyJob(s) ==
    /\ job[s].status \in Done
    /\ manual[s] < MaxManual
    /\ manual' = [manual EXCEPT ![s] = @ + 1]
    /\ job' = [job EXCEPT ![s] = [@ EXCEPT !.status = "retry", !.attempts = 0,
                                           !.due = TRUE]]
    /\ UNCHANGED <<reports, summary, closer, worker>>

\* retry_failed_job.
RetryFailedJob(s) ==
    /\ job[s].status = "failed"
    /\ manual[s] < MaxManual
    /\ manual' = [manual EXCEPT ![s] = @ + 1]
    /\ job' = [job EXCEPT ![s] = [@ EXCEPT !.status = "retry", !.attempts = 0,
                                           !.due = TRUE]]
    /\ UNCHANGED <<reports, summary, closer, worker>>

-----------------------------------------------------------------------------
Closing(s) == Enqueue(s) \/ MarkQueued(s) \/ CloseEnds(s) \/ CloseAgain(s)

Working(w) ==
    \/ Claim(w) \/ CheckLease(w) \/ Raise(w) \/ Complete(w) \/ Skip(w)
    \/ FailJob(w) \/ Patch(w)

Next ==
    \/ \E s \in Sessions : Closing(s) \/ Expire(s) \/ RetryDue(s) \/ RetryFailedJob(s)
    \/ \E w \in Workers : Working(w) \/ Release(w) \/ Crash(w)

\* Every worker runs or is restarted (Restart=always), and time passes.
Fairness ==
    /\ \A w \in Workers : WF_vars(Working(w))
    /\ \A s \in Sessions : WF_vars(Expire(s)) /\ WF_vars(RetryDue(s))

Spec == Init /\ [][Next]_vars

FairSpec == Spec /\ Fairness

-----------------------------------------------------------------------------
(* Properties. *)

\* A report is filed once, and exactly for a job that succeeded: no worker whose
\* claim expired files a second one, and no failure loses or doubles it.
OneReport ==
    /\ \A r, q \in reports : r[1] = q[1] => r = q
    /\ \A s \in Sessions :
          job[s].status = "succeeded" <=> \E r \in reports : r[1] = s

\* The session row never says more than the job: it shows success or a skip only
\* if the job ended so for good.
SummaryIsNotAhead ==
    \A s \in Sessions :
        summary[s] \in {"succeeded", "skipped"} => job[s].status = summary[s]

\* Once the session worker is done with a session whose report exists, the row of
\* the session does not say that it is queued.
NotQueuedAfterReport ==
    \A s \in Sessions :
        /\ job[s].status = "succeeded"
        /\ closer[s].at = "done"
        => summary[s] # "queued"

\* A job that was enqueued is settled, though workers die with it or lose their
\* claims again and again.
EveryJobSettles ==
    \A s \in Sessions : job[s].status # "none" ~> job[s].status \in Done

Ledger == INSTANCE AnalysisLedger WITH
             state <- [s \in Sessions |-> IF job[s].status \in Open THEN "open"
                                          ELSE job[s].status]

\* The queue with its claims, retries and sweeps is the ledger it promises to be:
\* an analysis is settled once, and only a failed one is opened again.
ImplementsLedger == Ledger!LedgerSpec
=============================================================================
