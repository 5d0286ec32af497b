------------------------------- MODULE Backup -------------------------------
(***************************************************************************)
(* The daily backup of one target (agents/hardware-backup): control        *)
(* processes run the schedule of each date and the requests of the         *)
(* dashboard, an operator may run the same backup by hand, and a file lock *)
(* keeps one of them at the archive.  A process may die at any step, a     *)
(* step of a day may fail, and a lease may run out under a live process.   *)
(*                                                                         *)
(* Day d can be archived from date d on, stays in the window and loses no  *)
(* documents.  The collections drop them after 30 days and the window      *)
(* reaches 30 days back, so that its oldest day is losing documents while  *)
(* it is looked at and read: that day, due for four weeks, lies outside    *)
(* the model.  An archive is the number of documents in it.  BACKUP_FORCE  *)
(* is off.                                                                 *)
(***************************************************************************)
EXTENDS Naturals, FiniteSets

CONSTANTS
    Controls,    \* processes in mode "control"
    Operators,   \* processes started by hand
    NoRunner,    \* nobody, or a process that is gone
    MaxDate,     \* bound: dates
    MaxDocs,     \* bound: documents of a day
    MaxAsked,    \* bound: requests
    MaxFaults    \* bound: deaths, failed or missed calls, leases lost by a live process

ASSUME BackupAssumption ==
    /\ NoRunner \notin Controls \cup Operators /\ Controls \cap Operators = {}
    /\ MaxDate \in Nat \ {0} /\ MaxDocs \in Nat \ {0}
    /\ MaxAsked \in Nat /\ MaxFaults \in Nat

Runners == Controls \cup Operators
Dates == 1..MaxDate
Requests == 1..MaxAsked

VARIABLES
    today,     \* the date
    due,       \* the time of its run has come
    docs,      \* documents of a day in MongoDB
    manifest,  \* hardware_backup_manifests
    object,    \* documents in the newest object of a day in the bucket
    run,       \* backup_schedule_runs, and history: days with documents when claimed
    request,   \* hardware_backup_requests
    lock,      \* holder of .backup.lock
    runner,    \* step and locals of a process
    faults     \* bound: faults so far

backupVars == <<today, due, docs, manifest, object, run, request, lock, runner, faults>>

AtEase == [at |-> "idle", for |-> "none", key |-> 0, days |-> {}, copy |-> 0, failed |-> FALSE]

Runs == [status : {"none", "running", "failed", "success"}, owner : Controls \cup {NoRunner},
         stale : BOOLEAN, due : BOOLEAN, owed : SUBSET Dates]

Asked == [status : {"none", "pending", "running", "failed", "success"},
          action : {"run_missing", "retry_failed"}, stale : BOOLEAN]

BackupTypeOK ==
    /\ today \in Dates /\ due \in BOOLEAN
    /\ docs \in [Dates -> 0..MaxDocs] /\ object \in [Dates -> 0..MaxDocs]
    /\ manifest \in [Dates -> [status : {"none", "running", "failed", "success"},
                               count : 0..MaxDocs]]
    /\ run \in [Dates -> Runs] /\ request \in [Requests -> Asked]
    /\ lock \in Runners \cup {NoRunner}
    /\ \A w \in Runners :
         /\ runner[w].at \in {"idle", "select", "lock", "day", "read", "upload", "record", "finish"}
         /\ runner[w].days \subseteq 1..today
         /\ runner[w].at \in {"day", "read", "upload", "record"} <=> lock = w
         /\ runner[w].at \in {"upload", "record"} => runner[w].copy \in 1..MaxDocs
    /\ faults \in 0..MaxFaults

BackupInit ==
    /\ today = 1 /\ due = FALSE
    /\ docs = [d \in Dates |-> 0] /\ object = [d \in Dates |-> 0]
    /\ manifest = [d \in Dates |-> [status |-> "none", count |-> 0]]
    /\ run = [t \in Dates |-> [status |-> "none", owner |-> NoRunner, stale |-> FALSE,
                               due |-> FALSE, owed |-> {}]]
    /\ request = [q \in Requests |-> [status |-> "none", action |-> "run_missing",
                                      stale |-> FALSE]]
    /\ lock = NoRunner
    /\ runner = [w \in Runners |-> AtEase]
    /\ faults = 0

\* backupWindow: the days that are old enough.
Window(t) == 1..t

\* lastScheduledOccurrence.
LastRunDate == IF due THEN today ELSE today - 1

-----------------------------------------------------------------------------
(* Time, documents and requests. *)

\* dueScheduleDay.
TimeComes ==
    /\ ~due /\ due' = TRUE
    /\ UNCHANGED <<today, docs, manifest, object, run, request, lock, runner, faults>>

\* The run of the day before is given up, wherever it got to.
NextDate ==
    /\ today < MaxDate
    /\ today' = today + 1 /\ due' = FALSE
    /\ UNCHANGED <<docs, manifest, object, run, request, lock, runner, faults>>

\* A document of a day, late ones included.
WriteDocument(d) ==
    /\ docs[d] < MaxDocs
    /\ docs' = [docs EXCEPT ![d] = @ + 1]
    /\ UNCHANGED <<today, due, manifest, object, run, request, lock, runner, faults>>

\* The dashboard inserts a request; active_key allows one at a time.
Ask(q, action) ==
    /\ request[q].status = "none"
    /\ \A p \in Requests :
          IF p < q THEN request[p].status \in {"success", "failed"}
                   ELSE request[p].status = "none"
    /\ request' = [request EXCEPT ![q].status = "pending", ![q].action = action]
    /\ UNCHANGED <<today, due, docs, manifest, object, run, lock, runner, faults>>

Fault == faults < MaxFaults /\ faults' = faults + 1

\* Half an hour without a heartbeat: nobody renews the row of a dead process.
RunGoesStale(t) ==
    /\ run[t].status = "running" /\ ~run[t].stale
    /\ IF run[t].owner = NoRunner THEN UNCHANGED faults ELSE Fault
    /\ run' = [run EXCEPT ![t].stale = TRUE]
    /\ UNCHANGED <<today, due, docs, manifest, object, request, lock, runner>>

RetryIsDue(t) ==
    /\ run[t].status = "failed" /\ ~run[t].due
    /\ run' = [run EXCEPT ![t].due = TRUE]
    /\ UNCHANGED <<today, due, docs, manifest, object, request, lock, runner, faults>>

WorksAt(w, q) == runner[w].for = "request" /\ runner[w].key = q

\* The heartbeat of a request is only renewed between days, so that it also runs out
\* under a process that waits for the lock.
RequestGoesStale(q) ==
    /\ request[q].status = "running" /\ ~request[q].stale
    /\ IF \E w \in Controls : WorksAt(w, q) THEN Fault ELSE UNCHANGED faults
    /\ request' = [request EXCEPT ![q].stale = TRUE]
    /\ UNCHANGED <<today, due, docs, manifest, object, run, lock, runner>>

-----------------------------------------------------------------------------
(* A process takes something up. *)

\* Bug: a run is taken once and not again from a process that died.
MayRunOnce(t) ==
    \/ run[t].status = "none"
    \/ run[t].status = "failed" /\ run[t].due

\* The filter of tryClaimScheduleRun.
MayRun(t) ==
    \/ run[t].status = "none"
    \/ run[t].status = "failed" /\ run[t].due
    \/ run[t].status = "running" /\ run[t].stale

RunIsDue == due /\ MayRun(today)

\* tryClaimScheduleRun for today.
ClaimRun(w) ==
    /\ runner[w].at = "idle"
    /\ RunIsDue
    /\ run' = [run EXCEPT ![today] =
                 [status |-> "running", owner |-> w, stale |-> FALSE, due |-> FALSE,
                  owed |-> {d \in Window(today) : docs[d] > 0}]]
    /\ runner' = [runner EXCEPT ![w] =
                    [AtEase EXCEPT !.at = "lock", !.for = "run", !.key = today,
                                   !.days = Window(today)]]
    /\ UNCHANGED <<today, due, docs, manifest, object, request, lock, faults>>

\* Bug: only a request that is pending is taken.
MayServePending(q) == request[q].status = "pending"

MayServe(q) ==
    \/ request[q].status = "pending"
    \/ request[q].status = "running" /\ request[q].stale

\* claimNextBackupRequest, when there is no run to do, or none that was seen: the
\* schedule was read just before it came due, or could not be read.
ClaimRequest(w, q) ==
    /\ runner[w].at = "idle"
    /\ MayServe(q)
    /\ IF RunIsDue THEN Fault ELSE UNCHANGED faults
    /\ request' = [request EXCEPT ![q].status = "running", ![q].stale = FALSE]
    /\ runner' = [runner EXCEPT ![w] =
                    [AtEase EXCEPT !.at = "select", !.for = "request", !.key = q]]
    /\ UNCHANGED <<today, due, docs, manifest, object, run, lock>>

Chosen(q) ==
    {d \in Window(LastRunDate) :
        manifest[d].status = IF request[q].action = "run_missing" THEN "none" ELSE "failed"}

\* selectBackupRequestDays and the first progress; nothing to do is a success.
SelectDays(w) ==
    LET q == runner[w].key IN
    /\ runner[w].at = "select"
    /\ IF Chosen(q) = {}
       THEN /\ request' = [request EXCEPT ![q].status = "success"]
            /\ runner' = [runner EXCEPT ![w] = AtEase]
       ELSE /\ request' = [request EXCEPT ![q].stale = @ /\ request[q].status # "running"]
            /\ runner' = [runner EXCEPT ![w].at = "lock", ![w].days = Chosen(q)]
    /\ UNCHANGED <<today, due, docs, manifest, object, run, lock, faults>>

\* runScheduledBackup without a claim.
RunByHand(w) ==
    /\ runner[w].at = "idle"
    /\ runner' = [runner EXCEPT ![w] =
                    [AtEase EXCEPT !.at = "lock", !.days = Window(today)]]
    /\ UNCHANGED <<today, due, docs, manifest, object, run, request, lock, faults>>

-----------------------------------------------------------------------------
(* runBackupDays under the lock. *)

\* Bug: the lock does not exclude anybody.
TakeAnyLock(w) ==
    /\ runner[w].at = "lock"
    /\ lock' = w
    /\ runner' = [runner EXCEPT ![w].at = "day"]
    /\ UNCHANGED <<today, due, docs, manifest, object, run, request, faults>>

\* withBackupLock.
TakeLock(w) ==
    /\ runner[w].at = "lock" /\ lock = NoRunner
    /\ lock' = w
    /\ runner' = [runner EXCEPT ![w].at = "day"]
    /\ UNCHANGED <<today, due, docs, manifest, object, run, request, faults>>

Day(w) == CHOOSE d \in runner[w].days : \A e \in runner[w].days : d <= e

\* The progress of a request renews its heartbeat.
Renewed(w) ==
    [q \in Requests |-> IF WorksAt(w, q) /\ request[q].status = "running"
                        THEN [request[q] EXCEPT !.stale = FALSE] ELSE request[q]]

\* Bug: whatever was archived before is archived again.
NothingIsArchived(d) == FALSE

\* A day that was archived, or was empty and still is.
IsArchived(d) ==
    manifest[d].status = "success" /\ (manifest[d].count > 0 \/ docs[d] = 0)

\* The first half of backupDay.
StartDay(w) ==
    /\ runner[w].at = "day" /\ runner[w].days # {}
    /\ IF IsArchived(Day(w))
       THEN /\ runner' = [runner EXCEPT ![w].days = @ \ {Day(w)}]
            /\ UNCHANGED manifest
       ELSE /\ runner' = [runner EXCEPT ![w].at = "read"]
            /\ manifest' = [manifest EXCEPT ![Day(w)].status = "running"]
    /\ request' = Renewed(w)
    /\ UNCHANGED <<today, due, docs, object, run, lock, faults>>

NextDay(w) == [runner[w] EXCEPT !.at = "day", !.days = @ \ {Day(w)}, !.copy = 0]

\* writeTargetDayArchive; a day without documents is done.
ReadDay(w) ==
    /\ runner[w].at = "read"
    /\ IF docs[Day(w)] = 0
       THEN /\ manifest' = [manifest EXCEPT ![Day(w)] = [status |-> "success", count |-> 0]]
            /\ runner' = [runner EXCEPT ![w] = NextDay(w)]
       ELSE /\ runner' = [runner EXCEPT ![w].at = "upload", ![w].copy = docs[Day(w)]]
            /\ UNCHANGED manifest
    /\ UNCHANGED <<today, due, docs, object, run, request, lock, faults>>

Upload(w) ==
    /\ runner[w].at = "upload"
    /\ object' = [object EXCEPT ![Day(w)] = runner[w].copy]
    /\ runner' = [runner EXCEPT ![w].at = "record"]
    /\ UNCHANGED <<today, due, docs, manifest, run, request, lock, faults>>

RecordDay(w) ==
    /\ runner[w].at = "record"
    /\ manifest' = [manifest EXCEPT ![Day(w)] = [status |-> "success", count |-> runner[w].copy]]
    /\ runner' = [runner EXCEPT ![w] = NextDay(w)]
    /\ UNCHANGED <<today, due, docs, object, run, request, lock, faults>>

\* A call fails and with it the day: before anything was written, with a manifest
\* that is marked so unless that fails too, or in the manifest's last update.  An
\* upload may have reached the bucket all the same.
DayFails(w) ==
    /\ runner[w].at \in {"day", "read", "upload", "record"} /\ runner[w].days # {}
    /\ Fault
    /\ \E marked \in BOOLEAN, arrived \in BOOLEAN :
         /\ marked => runner[w].at \in {"read", "upload"}
         /\ arrived => runner[w].at = "upload"
         /\ manifest' = IF marked THEN [manifest EXCEPT ![Day(w)].status = "failed"] ELSE manifest
         /\ object' = IF arrived THEN [object EXCEPT ![Day(w)] = runner[w].copy] ELSE object
    /\ runner' = [runner EXCEPT ![w] = [NextDay(w) EXCEPT !.failed = TRUE]]
    /\ UNCHANGED <<today, due, docs, run, request, lock>>

\* The manifest's last update is made, but its answer is lost, and the day counts as
\* failed all the same.
AnswerIsLost(w) ==
    /\ \/ runner[w].at = "record"
       \/ runner[w].at = "read" /\ docs[Day(w)] = 0
    /\ Fault
    /\ manifest' = [manifest EXCEPT ![Day(w)] =
                      [status |-> "success",
                       count |-> IF runner[w].at = "record" THEN runner[w].copy ELSE 0]]
    /\ runner' = [runner EXCEPT ![w] = [NextDay(w) EXCEPT !.failed = TRUE]]
    /\ UNCHANGED <<today, due, docs, object, run, request, lock>>

\* A call outside the days fails: the schedule or the manifests cannot be read, the
\* bucket is not reached, or the progress of a request not written.
GiveUp(w) ==
    /\ \/ runner[w].at \in {"select", "lock"}
       \/ runner[w].at = "day" /\ runner[w].for = "request"
    /\ Fault
    /\ runner' = [runner EXCEPT ![w] = [@ EXCEPT !.at = "finish", !.days = {}, !.failed = TRUE]]
    /\ lock' = IF lock = w THEN NoRunner ELSE lock
    /\ UNCHANGED <<today, due, docs, manifest, object, run, request>>

ReleaseLock(w) ==
    /\ runner[w].at = "day" /\ runner[w].days = {}
    /\ lock' = NoRunner
    /\ runner' = [runner EXCEPT ![w].at = "finish"]
    /\ UNCHANGED <<today, due, docs, manifest, object, run, request, faults>>

-----------------------------------------------------------------------------
(* A process ends what it took up. *)

Verdict(w) == IF runner[w].failed THEN "failed" ELSE "success"

\* Bug: the result is recorded whoever owns the run by now.
FinishAnyRun(w) ==
    /\ runner[w].at = "finish" /\ runner[w].for = "run"
    /\ run' = [run EXCEPT ![runner[w].key].status = Verdict(w)]
    /\ runner' = [runner EXCEPT ![w] = AtEase]
    /\ UNCHANGED <<today, due, docs, manifest, object, request, lock, faults>>

\* Bug: a run with failed days is a success.
FinishWithoutFailures(w) ==
    /\ runner[w].at = "finish" /\ runner[w].for = "run"
    /\ LET t == runner[w].key IN
       run' = IF run[t].status = "running" /\ run[t].owner = w
              THEN [run EXCEPT ![t].status = "success"] ELSE run
    /\ runner' = [runner EXCEPT ![w] = AtEase]
    /\ UNCHANGED <<today, due, docs, manifest, object, request, lock, faults>>

\* The last update of runDueBackupSchedule, of the run that is still its own.
FinishRun(w) ==
    /\ runner[w].at = "finish" /\ runner[w].for = "run"
    /\ LET t == runner[w].key IN
       run' = IF run[t].status = "running" /\ run[t].owner = w
              THEN [run EXCEPT ![t].status = Verdict(w), ![t].stale = FALSE] ELSE run
    /\ runner' = [runner EXCEPT ![w] = AtEase]
    /\ UNCHANGED <<today, due, docs, manifest, object, request, lock, faults>>

\* completeBackupRequest, whoever else has taken the request meanwhile.
FinishRequest(w) ==
    /\ runner[w].at = "finish" /\ runner[w].for = "request"
    /\ request' = [request EXCEPT ![runner[w].key].status = Verdict(w),
                                  ![runner[w].key].stale = FALSE]
    /\ runner' = [runner EXCEPT ![w] = AtEase]
    /\ UNCHANGED <<today, due, docs, manifest, object, run, lock, faults>>

FinishByHand(w) ==
    /\ runner[w].at = "finish" /\ runner[w].for = "none"
    /\ runner' = [runner EXCEPT ![w] = AtEase]
    /\ UNCHANGED <<today, due, docs, manifest, object, run, request, lock, faults>>

\* The process dies, which releases the lock, and the next has another worker_id; or
\* the last update fails and leaves the row as it is.
Vanish(w) ==
    /\ runner[w].at # "idle" /\ Fault
    /\ runner' = [runner EXCEPT ![w] = AtEase]
    /\ lock' = IF lock = w THEN NoRunner ELSE lock
    /\ run' = [t \in Dates |-> IF run[t].owner = w THEN [run[t] EXCEPT !.owner = NoRunner]
                                                   ELSE run[t]]
    /\ UNCHANGED <<today, due, docs, manifest, object, request>>

-----------------------------------------------------------------------------
Backing(w) ==
    \/ TakeLock(w) \/ StartDay(w) \/ ReadDay(w) \/ Upload(w) \/ RecordDay(w) \/ ReleaseLock(w)
    \/ FinishRun(w) \/ FinishRequest(w) \/ FinishByHand(w)

Controlling(w) ==
    ClaimRun(w) \/ (\E q \in Requests : ClaimRequest(w, q)) \/ SelectDays(w) \/ Backing(w)

BackupNext ==
    \/ TimeComes \/ NextDate
    \/ \E d \in Dates : WriteDocument(d) \/ RunGoesStale(d) \/ RetryIsDue(d)
    \/ \E q \in Requests :
         (\E action \in {"run_missing", "retry_failed"} : Ask(q, action)) \/ RequestGoesStale(q)
    \/ \E w \in Controls : Controlling(w)
    \/ \E w \in Operators : RunByHand(w) \/ Backing(w)
    \/ \E w \in Runners : DayFails(w) \/ AnswerIsLost(w) \/ GiveUp(w) \/ Vanish(w)

BackupSpec == BackupInit /\ [][BackupNext]_backupVars

\* Time passes, systemd keeps the control processes running, and a process started by
\* hand goes on once it has the lock or waits for it.
BackupFairness ==
    /\ \A d \in Dates : WF_backupVars(RunGoesStale(d)) /\ WF_backupVars(RetryIsDue(d))
    /\ \A q \in Requests : WF_backupVars(RequestGoesStale(q))
    /\ \A w \in Controls : WF_backupVars(Controlling(w)) /\ SF_backupVars(TakeLock(w))
    /\ \A w \in Operators : WF_backupVars(Backing(w))

-----------------------------------------------------------------------------
(* Properties. *)

\* What is recorded as a success is in the bucket: the newest object of a day is the
\* one its manifest describes, which a process that read the day earlier never replaces;
\* and a run archived every day that had documents when it began, whatever failed, died
\* or was taken over.
SuccessIsInTheBucket ==
    /\ \A d \in Dates :
          manifest[d].status = "success" /\ manifest[d].count > 0
              => object[d] = manifest[d].count
    /\ \A t \in Dates :
          run[t].status = "success" =>
              \A d \in run[t].owed : manifest[d].status = "success" /\ object[d] > 0

\* A day that was archived with documents is not archived again by a run of the
\* schedule, a request or a run by hand, whatever they overlap.
ArchivedIsFinal ==
    [][\A d \in Dates :
          manifest[d].status = "success" /\ manifest[d].count > 0
              => manifest'[d] = manifest[d] /\ object'[d] = object[d]]_backupVars

\* The run of a date that succeeded stays so: it is not started again, and no process
\* it was taken over from overwrites the result.
SucceededRunStays ==
    [][\A t \in Dates : run[t].status = "success" => run'[t].status = "success"]_backupVars

\* Whoever works at the archive, dies, fails or loses its run, and however often a day
\* is tried: database and bucket are what BackupBook promises.  A copy in the bucket is
\* final once its manifest is a success, and a run succeeds when all it owes is recorded.
Recorded == [d \in Dates |-> IF manifest[d].status = "success" THEN manifest[d].count ELSE 0]

Book == INSTANCE BackupBook
            WITH copy <- object, book <- Recorded,
                 status <- [t \in Dates |-> run[t].status], owed <- [t \in Dates |-> run[t].owed]

ImplementsBackupBook == Book!BookSpec

\* What is there of a day when the time of a run comes is archived in the end, unless
\* the date ends first: processes die, days fail and leases are lost on the way.
EveryDayIsArchived ==
    \A d \in Dates :
        (due /\ d <= today /\ docs[d] > 0 /\ run[today].status = "none")
            ~> (object[d] > 0 \/ ~due)

\* A request is answered in the end, though processes die with it.
EveryRequestSettles ==
    \A q \in Requests : (request[q].status = "pending")
                            ~> (request[q].status \in {"success", "failed"})
=============================================================================
