# TLA+ models of the honeypot's event, analysis and archive pipelines

This directory models the part of the repository where a mistake is hard to see in a test:
the way one line of Cowrie's log becomes exactly one durable event, one step of one session
and, once the session is closed, one analysis report and one webhook delivery; the way old
documents are archived before they are deleted; and, of the second pipeline, the look-up of an
observable within its budget and the daily backup. Meanwhile processes crash, leases expire,
answers are lost and files are rotated. The classifiers, the dashboards and the research code
are computations or readers and are not modelled.

`FTD` below is `src/honeypot-analysis/CURRENT_SYSTEM_FULL_TECHNICAL_DOCUMENTATION.md`;
`production/` is `src/honeypot-analysis/production/`, `agents/` is `src/agents/`.

## 1. Inventory

    Cowrie ──feed file──> sensor forwarder ──HTTPS──> ingest API ──┐
                         (spool, checkpoint,                       v
                          quarantine)                    table events + worker_leases
                                                                   │ claim / renew / complete
                                                                   v
       webhook dispatcher <── table alerts <── session worker ──> table sessions
              │                                                    │ enqueue, mark queued
              └─> webhook_deliveries, endpoint                     v
                              analysis workers <──claim── table analysis_jobs
                                     └── report, analysis_status ──> tables reports, sessions

    MongoDB collections ──retention cycle──> archive on the Pi, secondary copy; purge

    sensors ──raw stream──> processor agent ──ti:jobs──> TI worker ──> provider, threat_intel
                                 └──> MongoDB ──hardware backup──> bucket

| part | state it keeps | operations | hard behaviour | what makes it correct |
|---|---|---|---|---|
| Cowrie feed (`cowrie_output/sanitized_jsonlog.py`) | the log file, rotated files and their mode | write, rename, reopen, seal after 15 s | rotation at any moment of a forwarder's poll | — (environment of the forwarder) |
| sensor forwarder (`workers/sensor_forwarder.py`) | offset file, spool, quarantine; nothing in memory between polls | stat, read, append + fsync, commit, POST, shelve, shorten | crash between any two of these, torn append, full spool, lost answer | no line is lost; lines arrive in order; the flow does not stop for good |
| ingest API (`api/ingest_api.py`) | none; a thread per request | store each event of a batch, refuse, abort | a thread runs on after its client has given up and retried | it never lets a later line overtake an earlier one |
| event queue (`storage/backend.py`) | `events` (outcome, attempts, retry, claim), `worker_leases` | store, claim, renew, complete, fail, release; acquire, renew, release lease | takeover while claims live, clock read before the write lock | per-session FIFO, settled once, one worker with live claims |
| session worker (`workers/session_worker.py`, `session_monitor.py`) | memory of sessions, `_leader_held`, a heartbeat thread per event; rows of `sessions` | lead, recover, claim, apply, save, announce, complete; checkpoint restore, evict, close | any step raises; process dies anywhere; two threads share the leadership flag; suspended processes | each event counted once; nothing that succeeded is forgotten; a closed session is announced after its close is durable |
| analysis jobs (`storage/backend.py`, `workers/analysis_worker.py`, `job_lifecycle.py`) | `analysis_jobs`, `reports`, `analysis_status` in the session's payload | enqueue, claim with sweep, heartbeat check, complete, skip, fail, release, retry by hand | claims expire during analysis; job and session row in two transactions; crash on the last attempt | one report; every job settles; the row never claims more than the job |
| webhook dispatcher (`workers/webhook_dispatcher.py`, `storage/backend.py`) | `webhook_deliveries`: status, attempts, claim, due time | read pending, filter, claim with sweep, resolve, POST, complete | lease expires under a slow POST, answer lost, dispatcher dies on the last attempt | attempts bounded; a copy at the endpoint has a reason; every alert settles and stays settled |
| archive and retention (`archive/retention_orchestrator.py`, `cold_archive.py`, `purge.py`, planner, policy) | archives and their copies, run directories with immutable receipts, purge progress, catalog | plan, export, replicate, receipt, freeze, reconcile, count, delete, record, catalogue | no lock between timer and operator; crash anywhere; documents written meanwhile; damaged copies | nothing is purged that cannot be restored as it was; the catalog is true |
| processor agent (`agents/processor-agent`) | raw stream's pending messages, event documents, key `ti:queued:*`, streams `ti:jobs`, `event:canonical` | upsert, deduplicate, publish, acknowledge; claim what was left pending | two loops on one message, failure or death at every call | what is acknowledged is stored and published |
| TI worker (`agents/ti-worker`) | budget counters, caches in Redis and MongoDB | take, reserve, ask, store, attach, acknowledge | two loops, retries, minute boundary, expired answers | budget kept; what is acknowledged is answered |
| hardware backup (`agents/hardware-backup`) | manifests, `backup_schedule_runs`, requests, `.backup.lock`, bucket | claim run, claim request, run by hand, lock, day by day: read, upload, record; finish | leases without fencing, processes die, days fail | success is only said of what is in the bucket; archived days stay; requests are answered |
| MongoDB storage (`storage/mongodb_*.py`) | the same data as documents; a SQLite rollback mirror of the events | the same contract as sequences of reads and single-document updates; dual-durable store of an event | other calls between two accesses; any access fails; one event stored by two threads | the same order and outcome as on SQLite; the copies agree |
| enrichment, threat-hunt, AI advisory workers | further queues of `claim_jobs` | as analysis jobs, with other completions | as analysis jobs | as analysis jobs |
| collector agent, hardware agent (`agents/*`) | file offsets; none | tail and post; measure and send | restart between post and offset | — |
| deception core, service watchdog, hardware fusion | caches, cool-down file, spool | prefetch, restart | staleness, restart storms | — |
| classification, prediction, reporting, correlation; dashboards; installers | none of their own | pure functions, readers, tools | — | — |

`PROJECT.json` lists each part under `components` with its sources and what is left out, and
under `hazards` every place that is hard to test, at its line, with the properties that cover it.

## 2. Modules

| module | what it is | length of its state machine |
|---|---|---|
| `SessionQueue` | abstract: per session, a FIFO queue whose rows are settled once | 2 variables |
| `EventStore` | tables `events` and `worker_leases`; one action per transaction | 7 variables, 9 operations and the clock |
| `MongoEventStore` | the same on MongoDB, one action per access, and the store of an event in both databases | 11 variables, 22 actions |
| `SensorForwarder` | Cowrie's rotation, the forwarder's poll, the ingest threads | 13 variables |
| `SessionLog` | abstract: one log per session on top of `SessionQueue`, written in the order of the queue and final once closed | 4 variables |
| `SessionWorker` | the session worker's processes and heartbeats composed with `EventStore` | 14 variables |
| `AnalysisLedger` | abstract: an analysis is opened once, settled once, reopened after failure only | 2 variables |
| `AnalysisQueue` | job queue, analysis workers, the session worker's announcement | 6 variables |
| `Outbox` | abstract: an alert is begun a number of times, posted no more often, and ends once | 5 variables |
| `Webhook` | deliveries of one target, dispatchers, the endpoint | 6 variables |
| `Retention` | retention cycles on one collection, beside the services that write it | 10 variables, 12 steps of a cycle |
| `ThreatIntel` | the processor agent and the TI worker, two loops each | 11 variables |
| `BackupBook` | abstract: copies of days, the book of those that are final, and runs that succeed when they owe nothing | 5 variables |
| `Backup` | schedule, requests and runs by hand of the backup of one target | 10 variables |
| `*Proofs` | theorems about the module of the same name (section 5); eight modules | |
| `MC*` | instances for TLC, each with its `.cfg` files | |

Operators with a comment that starts "Bug:" are variants of a definition the way a plausible
mistake would write it. No specification uses them; replacing the definition by its
variant makes TLC report the property named in `PROJECT.json` under `mutants`, which shows that the
property depends on that code.

### EventStore

One action is one `BEGIN IMMEDIATE` transaction. A transaction reads its clock *before* it
waits for SQLite's write lock, so an action's time `t` may lag `clock` by up to `MaxLag`
(`busy_timeout`). The clock is assumed not to run backwards. A worker stands for one process
incarnation (`worker_owner` and `worker_token` are drawn afresh), a claim token for the number
of the attempt. `Corrupt` rows decode no more and are dead-lettered by the claim that meets
them, in the same transaction. `Next` lets any worker call any operation with any token at any
time: the queue has to protect itself.
`StoreEvent` keeps the rows of one session in order. That is not assumed out of thin air:
one forwarder sends a session's lines, and `StoredInOrder` of `SensorForwarder` is checked for it.

### MongoEventStore

MongoDB is the backend the service runs on (FTD:128). The variables of `EventStore` stand for the documents
of `events` and `worker_leases`; what is new is that nothing is locked. A call is a record of `calls` with the
locals it still needs, and each of its accesses is an action: `claim_events` looks up its lease, reads the
exhausted heads, dead-letters them one by one, reads a claimable head, takes it by `find_one_and_update` and,
if it does not decode, dead-letters it. Filters are what the code repeats in an update: the sweep and `TakeHead` look
at the row again but not at its predecessors, nor at the lease. Any worker may have any number of calls in
progress, up to `MaxCalls`; each access may be the last one (`CallFails`), which covers time-outs and deaths. A time
is drawn when a call starts and may be old when it ends.
Storing an event (`stores`) is `MongoEpochStorage.store_event` with `persist_for_ack`: look in both databases,
insert where it is missing, look again, acknowledge. A second thread may store the same event with a later time.

### SensorForwarder

Lines are numbered as Cowrie writes them, files as they are rotated; a file's number stands for device and
inode. `pc` and `poll` are the program counter and the locals of `_forward_once_unlocked`; `EndPoll`
is every error return, exception and crash at once, because the next poll starts from the disk
alone. A request runs in an ingest thread (`todo`) that goes on after the client gave up; at most
`MaxThreads` are busy. `Faults` are what the code itself does not guard against: `"torn_append"`,
`"early_seal"` (the feed is sealed before it is drained) and `"rotation_while_opening"` (between `stat` and
`open`). A behaviour chooses at its start which of them may happen (`faults`), so that one run shows the
properties both with and without them. There is one forwarder: a second one is kept out by `flock`
(`sensor_forwarder.py:158`).

### SessionWorker

`pc` follows `process_unprocessed` through the calls inside its `try` block; `Error` lets each
of them raise, `Exit` is the end of the `with` block, where the heartbeat stops, `HandleFailure` the
`except` clause, which restores the session's checkpoint and calls `fail_event`. The heartbeat
(`hb`) runs beside it with the same `_ensure_leadership`, so it may lose or re-acquire leadership,
and recover the memory, while the main thread is inside an event. A recovery that raises gives the new lease back,
unless that fails as well (`RecoveryFails` and `GiveLeaseBack`; in the heartbeat thread `HeartbeatRecoveryFails` and
`HeartbeatGivesBack`). A session is the sequence of the
events applied to it: that decides all that the properties ask (twice, missing, out of order, closed).
`Wait` lets time pass. With `MayStall = FALSE` no claim expires under a process that works on it:
its steps take less than `LeaseSeconds` or its heartbeat is in time. This is an assumption about the
machine, not something the code enforces; what happens without it is run `session_worker_overwrite`.
`Arrive` stores the events of a session in the order of their numbers, gaps included: that order is what `StoredInOrder`
of `SensorForwarder` promises, and an event the ingest API refuses never comes.

`SessionLog` says what is left when processes, memories, claims and crashes are taken away: an event is written to
the row of its session when all before it are settled, once; a closed row is announced and not written again; an event
succeeds while it ends its row. The one thing of the detail that shows is the dead letter: an event given up after it was saved
may be dropped from the row by the next one (the undo in memory) or stay in it (the memory was recovered), and `Kept` allows
both. `Log` is the mapping: rows, announcements, places and outcomes as they are.

### AnalysisQueue

Expiry of claims and due times of retries are single steps (`Expire`, `RetryDue`) that may come at
any moment, so neither lease lengths nor lag need a number: a lagging transaction sees what it would
have seen had the claim expired later. Which claimable job is taken is left open (the code takes the
oldest). A job and its session row are updated by two transactions on failure and skip (`FailJob` or
`Skip`, then `Patch`) and by one on completion, as in the code. `closer` is the session worker's
`_on_session_end`, reduced to its order of calls: enqueue, mark queued, end, and tried again.

### Webhook

A dispatcher reads the pending rows, then treats them one by one (`Treat`: skip, `Filter` or claim, each a
transaction that looks at the row again), resolves the target, posts and completes. A claim token is the
number of its attempt. `LeaseExpires` may come at any step of a live dispatcher, because the urllib timeout
is per socket operation and bounds no POST as a whole; an endpoint may take an alert and its answer be lost. `posts`,
`accepted` and `doubts` are history: what the endpoint saw, and the attempts whose outcome nobody could
record. The sweep that settles rows whose attempts are used up is part of the claim, as in the code.

`Outbox` knows neither dispatchers nor tokens, leases or retry times: a stored alert that is wanted is begun at most
`MaxTries` times, every POST belongs to an attempt that was begun, and it ends once, as delivered only when the endpoint has
a copy. A POST may come after the end, from a dispatcher that was taken over. In the mapping `Out` a row that waits for its
retry is open, and a filtered row has no attempts. (The code counts one more whenever it filters, and so does `Filter`; two
dispatchers that read the same row may both do so.)

### Retention

One action per step of `RetentionOrchestrator.run` that a crash can separate from the next, from
the plan to the final receipt. Run directories (`dirs`) hold the immutable receipts: their
names are what the processes race for, because there is no lock. A run is its plan (the run id is a hash of it); an
archive is named after the cutoff of its cycle and therefore always new. `Write` is a service that inserts or
updates any document at any step; `Damage` makes one copy unreadable. A document has a version, `purged`
remembers the one that was deleted. `SameOrder` is the condition under which the two digests (archive in time
order, reconciliation in id order) can agree at all, and `Fits` adds the limit `PilotMax`. `CopyDocuments` looks again and takes what matches *now*, as
many as were planned, and `Export` compares once more (`Stable`), as in `export_archive`.

### ThreatIntel

Both agents have the same two loops: one takes new messages, one claims what was left pending, *including* what
the first is still at. A failure or death (`ProcessFails`, `LookupFails`) may come before every step and leaves what is
already written. Deduplication key, stream trimming, the budget counter and the two caches (one flag: whether a valid answer is
stored) are explicit. All events have the same observable, which is the case in which the loops meet.

### Backup

Any number of control processes and operators; a file lock admits one to the days. Leases of runs and requests
(`stale`) may expire under a live process; `Vanish` is a death, which frees the lock and nothing else. A call may fail
before or after it had its effect (`DayFails`, `AnswerIsLost`), and a request be claimed although a run is due, because the
schedule was looked at earlier or could not be read (a fault in `ClaimRequest`). An archive is the
number of documents in it, so that a copy read earlier is told from a later one. Documents only come; what that leaves out
is in section 6.

`BackupBook` has neither processes nor leases: a copy of a day, of no more documents than there are, is put into the bucket
as often as need be, until one is entered in the book; a run owes the days that have documents when it begins and succeeds when
all are entered. In the mapping `Book` a day is entered when its manifest is a success with documents; whether a manifest says
"running" or "failed", and who is at it, is what the book does not know.

## 3. Runs

Seven runs pass; five are disagreements between the code and what the repository says of it.

| run | instance | shows |
|---|---|---|
| `event_store` | SQLite: 3 events in 2 sessions, one undecodable, 2 workers, 2 attempts, lag 1, clock to 4. MongoDB: 2 stores at once, then 2 rows of one session or one undecodable row, a call of each of 2 workers, clock to 2 | order within a session, settled once, refinement of `SessionQueue`, agreement of the mirror (1.2 million states) |
| `forwarder` | 3 lines, 1 refused, 2 files, batches of 2, spool 3, quarantine 1, 2 threads, with and without torn appends and early seals | nothing is lost without evidence, lines arrive in order, the checkpoint never goes back |
| `forwarder_liveness` | 3 lines, 2 refused, 2 files, batches of 1, quarantine 1 | everything arrives unless the spool stays full |
| `session_worker` | 1 session, 2 events, of which the first may never come, 2 processes with heartbeats, 2 attempts, clock to 3 | the worker's safety properties, refinement of `SessionLog`, and that live claims belong to one worker (1.1 million states) |
| `retention` | 4 documents of which the last has the first id, 2 processes, 3 archives, cycles of up to 3 documents of which 2 are accepted, batches of 1, one write, one crash, one damaged copy; with other documents than 1 and 2 (at most three in all), cycles go on undisturbed | purged is restorable and as archived, one process per run, true catalog, only a run that cannot be reconciled is stuck (1.2 million states) |
| `agents` | 1 raw event, budget 1, stream 1, 2 look-ups; backup with 2 control processes, 2 dates, 2 documents, 2 faults | quota, acknowledged is done, success is in the bucket and stays (2.8 million states) |
| `services` | analysis: 1 session, 2 workers, 2 attempts, a repeated close, a retry by hand; webhook: 2 alerts, 1 wanted, 2 dispatchers, 2 attempts; backup: a control process, an operator, 1 date, a request, 1 fault | work that is claimed for a while is settled once, in the end, and recorded truly; refinement of `AnalysisLedger`, of `Outbox` and of `BackupBook` |
| `forwarder_spool_full` (violation) | 3 lines, batches of 2, spool 2 | a spool without room for the next batch is never posted |
| `forwarder_rotation_race` (violation) | 2 lines, rotation between `stat` and `open` | the rest of the old file is never read |
| `session_worker_overwrite` (violation) | `MayStall` | a suspended worker saves its old session over a newer row |
| `analysis_queued` (violation) | 1 worker, 1 attempt | the report exists, the session's row says "queued" for ever |
| `retention_resume` (violation) | 2 documents, 1 process, 3 archives, one crash | a cycle cut off after its secondary receipt is never resumed |

`MCServices` and `MCAgents` put services that share no state side by side, `MCEventStore` the two backends. A variable
(`service`, `agent`, `backend`) says which of them a behaviour is about; the others are never asked to do anything, so that
none of their fair actions is enabled and their state does not multiply.

*Why these bounds are enough to be interesting.* Two workers, dispatchers or control processes are what a
takeover, a stale claim or a late write needs; the theorems of section 5 cover the rest where they
exist. Two attempts give a failed one, a last one, and a job, delivery or event whose attempts are used up.
Three events put a row before and after one that waits, or one that does not decode. The clock bound
lets a leadership lease (2) and a claim (1) expire and be taken over. In `forwarder` the second thread is
what an abandoned request needs, the second file a rotation, and three lines with batches of two a second
batch. Two documents in batches of one give a purge that is cut off in the middle, and the third archive a
cycle after the two that can conflict. A third document gives a cycle that is larger than the reconciliation accepts, and
the document with the first id that comes last a cycle of two that it refuses for its order; `TwoOrCalm` of `MCRetention`, a constraint, lets
crashes, writes and damages happen only while nothing but the first two documents is there. One raw event read by two loops is already a message that both
work on, and a stream of one trims what was published before. Two dates give a day that an
earlier run left open. On MongoDB the instance stores first and serves then, which `Storing` and
`Serving` of `MCEventStore` say; that both may happen at once, for more rows and calls, is what the theorems add. The bounds are constants of the modules (`MaxTime`, `MaxLag`, `MaxFiles`, `MaxThreads`,
`MaxCloses`, `MaxManual`, `MaxWrites`, `MaxCrashes`, `MaxDamages`, `MaxJobs`, `MaxDate`, `MaxDocs`,
`MaxAsked`, `MaxFaults`, `MaxCalls`); `MaxAttempts`, `HookAttempts`, `MaxSpool`, `MaxQuarantine`,
`BatchSize`, `High`, `Target`, `MaxDocuments`, `PilotMax`, `Budget` and `StreamMax` are settings of the program.

Larger instances passed as well but are too slow to keep: the forwarder with four lines, two files and
faults (11.9 million states) and with three lines and three files (13 million); the backup with two
control processes, two dates and requests (1.6 million), and `ImplementsBackupBook` on the instance of `agents`; the analysis queue with two sessions and neither
repeated closes nor manual retries (215 thousand). The archive-only mode of `Retention` (`FALSE` in
`Modes`) multiplies the states beyond what TLC finishes beside the other mode; the run has
`Modes = {TRUE}`, cycles that purge, and the theorems cover both. Symmetry is used for workers, processes
and archives, in safety runs only.

*Deadlock* is unchecked where a behaviour may end: in `event_store` and `session_worker` the bound
`MaxTime` stops the clock; the retention cycles, the agents and the services may rest when everything is done
or a bound is reached. It is checked in the runs of the forwarder and in `analysis_queued`.

*Fairness* is used by five runs.

- `forwarder_liveness`, `forwarder_spool_full`: the service polls for ever (systemd restarts it always,
  FTD:582), Cowrie finishes a rotation it began, an ingest thread finishes its loop, and a step that is
  tried again and again succeeds in the end (strong fairness of each step: a disk or a network that fails
  every time allows no progress in any design).
- `services`, analysis: a worker runs or is restarted (FTD:585; weak fairness of `Working`), time passes
  (`Expire`, `RetryDue`). Crashes are never forced to end: a job that kills its worker every time still
  settles, because the attempts run out and the sweep fails it.
- `services`, webhook: time passes, a dispatcher polls for ever and does not die every time *before* it
  treats a row it has read (strong fairness of `Treat`). It may die after every claim.
- `services`, backup: leases and retry times come due, control processes run, a process that waits for a lock
  that is free again and again gets it (strong fairness of `TakeLock`), an operator's run goes on.
- `retention_resume`: cycles go on (weak fairness of `Cycle`). What fails is not for want of a cycle.

### Disagreements that the runs show

1. *Full spool* (`sensor_forwarder.py:764`). On `SpoolCapacityError` a poll returns before it posts, so
   the spool is never shortened. A spool within one batch of its limit stays there although ingest is back.
2. *Rotation race* (`sensor_forwarder.py:415`). The feed is compared by `stat` and opened by name. A
   rotation in between loses the rest of the old file.
3. *Overwrite* (`session_worker.py:927`). `save_session` is an unconditional upsert; only `complete_event`
   is fenced. A process suspended beyond its leases writes its old session over its successor's.
4. *Queued for ever* (`session_worker.py:890`). The mark "queued" is written after, and apart from, the
   enqueue, and without a look at the job.
5. *Retention is not resumed* (`retention_orchestrator.py:790`). The comment in `execute_retention_exact_purge` (line 420)
   says "Execute/resume only the frozen retention identity set", and the module calls itself resumable. But an
   archive is named after the cutoff of its cycle, so that the cycle after a crash exports a new one and then
   conflicts with the immutable receipt that names the first: the run directory is stuck.

### Observations without a run of their own

*Forwarder.* A feed sealed (mode 0600) before the forwarder has drained it is never readable again, and every
later poll fails: add `"early_seal"` to `Faults` in `SensorForwarderLiveness.cfg`. After a torn append the
next record is glued to the unfinished one, and a line is lost with an unreadable record as evidence. The
rotation race and torn appends also break `StoredInOrder`.

*Queue on MongoDB.* `OneWorkerHoldsTheLiveClaims`, which holds on SQLite, fails there: `acquire_worker_lease` counts
the live claims and writes the lease in two accesses (`mongodb_backend.py:541` and 573), and `claim_events` looks up
its lease in another access than it takes the row. When a worker releases its lease while a claim of its own is still
on its way (one whose client gave up and which the server carries out later), the next leader and the old one may
hold live claims at once. An expiry alone does not do it: a claim never ends after the lease it was made under.
The order within a session and the single settlement do not depend on it (`MongoInOrder`, `MongoOnce`), because every
update looks at the row's claim again.

*Session worker.* With `MayStall = TRUE` the heartbeat can recover the memory while the main thread works;
the restored checkpoint is then older than the memory (`MemoryIsCurrent` fails), and `AppliedOnceInOrder`,
`AnalysisSeesClosedRow`, `ClosedStaysClosed` and with them `ImplementsSessionLog` fail with it. An event after the closing one finds no
session in memory and replaces the closed row by a session of one event (`session_worker.py:1054`), while
FTD:911 says "Closure freezes the exact event prefix"; the run stores the closing event last.

*Analysis jobs.* `fail_analysis_job` updates the session row after its transaction: a late "retry" or "failed"
may overwrite the "succeeded" of another worker. The sweep in `claim_jobs` and `retry_failed_job` never
update the session row. `SummaryIsNotAhead` holds in spite of both: a success or a skip that the row shows is true.

*Retention.* The reconciliation accepts at most `PILOT_AUTHORIZED_MAX` = 463 documents (`purge.py:47`, 326–329),
while `configs/mongo_pi_retention.final.json:30` plans up to 5000 a cycle. As configured, a cycle of more than 463
documents raises in its reconciliation, behind its receipts, with nothing else having gone wrong; every later cycle that plans the
same run conflicts with its receipt, and the run stays in the way for good. The archive's digest is in time order and the
reconciliation's in id order; they agree only where `SameOrder` holds, and a cycle of any size whose ids come in another order
than its times ends in the same way. `OnlyUnfitRunsAreStuck` says that there is no third way without a crash, a write or a
damaged copy.
A document that a service updates between the reconciliation and its deletion is deleted, though only the older
version is archived (`DeletedAsArchived` allows exactly this and nothing more; the systemd timer is an inactive
template, so that no such cycle runs unattended).

*Webhook.* Completion on SQLite never sets `alerts.delivered`. Its comparison with `claim_expires_at` uses the time of
the claim, and so never refuses. Dispatchers with different severity policies could replace a delivered row by
"filtered" (`INSERT OR REPLACE`); the model has one policy. `config.py:1019` keeps the lease above the DNS and
socket timeouts, but these bound no POST as a whole.

*Threat intelligence.* Between the `SETNX` of `ti:queued:*` and the `XADD` of the job (`ti_jobs.go:57`) a death, or a
failure of both `XADD` and `DEL`, leaves the key: the redelivered message finds it, skips the publication and is
acknowledged, although `docs/design/threat-intelligence.md` says that without a publication "the raw message
remains unacknowledged and is retried". A deferred answer may overwrite a complete one. A second event of the
same observable gets no answer of its own. Trimming loses pending jobs. The budget is counted when a request is
reserved, so that the call may fall in the next minute.

*Backup.* Completion and failure of a request are not fenced by the worker that claimed it; `SucceededRunStays`
and `EveryRequestSettles` hold nevertheless. A process that dies leaves a manifest "running" that neither
`run_missing` nor `retry_failed` takes up; the schedule does, as long as its date lasts, because a run is
given up when its date ends. A request's heartbeat is renewed between days only.

## 4. Properties, by hazard

- crash, retry, duplicate: `NothingIsLost`, `StoredInOrder`, `CheckpointAdvances`, `AppliedOnceInOrder`,
  `SucceededIsKept`, `ClosedIsAnnounced`, `OneReport`, `CopiesAreExplained`, `AckedIsDone`,
  `PurgedIsRestorable`, `SuccessIsInTheBucket`, `FrozenIsPurged`
- leases and takeovers: `OneWorkerHoldsTheLiveClaims`, `MemoryIsCurrent`, `SettledOnce`, `SucceededRunStays`,
  `ImplementsOutbox` (late completions)
- order and interleaving: `SessionsAreServedInOrder`, `OneProcessPerRun`, `OnlyUnfitRunsAreStuck`
- one fact in two places: `MirrorAgrees`, `SummaryIsNotAhead`, `NotQueuedAfterReport`, `CatalogIsTrue`, `DeletedAsArchived`
- limits: `PostsStayInBudget`, `QuotaIsKept`, `JobTypeOK` (attempts never exceed their limit)
- progress: `EveryLineArrives`, `EveryLineArrivesUnlessFull`, `EveryJobSettles`, `EveryAlertSettles`,
  `EveryDayIsArchived`, `EveryRequestSettles`
- abstraction: `ImplementsSessionQueue`, `ImplementsSessionLog`, `ImplementsLedger`, `ImplementsOutbox`,
  `ImplementsBackupBook`

Each is stated in words above its definition. `AnalysisSeesClosedRow`, `ClosedStaysClosed`, `SettledStays` and `ArchivedIsFinal` are
part of what `SessionLog`, `Outbox` and `BackupBook` promise; no run checks them beside these, and each has a theorem.

The notes of the hazards in `PROJECT.json` say what no property covers, or only in part:

- without a property are the feed that is sealed early (the forwarder's liveness run has no `Faults`, and fails with this one),
  the late event and the limit on recovered sessions of the session worker, and the lost publication of a TI job;
- a suspended session worker is shown by run `session_worker_overwrite`; the passing run excludes it (`MayStall = FALSE`);
- `DeletedAsArchived` delimits the deletion of a late write and does not prevent it;
- that a scheduled run, a request and an operator leave one archive of a day is checked by `ImplementsBackupBook` only, because the
  run of the other properties has neither requests nor operators; and a live process that is taken over while it waits for the backup's
  lock is covered by the theorem about it only, because the run of the requests has one control process.

## 5. Theorems

All are proved for every value of the constants, under the named assumptions of the modules
(`StoreAssumption`, `MongoAssumption`, `ForwarderAssumption`, `WorkerAssumption`, `QueueAssumption`, `HookAssumption`,
`RetentionAssumption`, `TiAssumption`, `BackupAssumption`), which TLC evaluates in the runs. Theorems with an
assumption of their own state it. Each proof has the same shape: the inductive invariant named below holds initially,
every action preserves it, one step per action, and a last step of temporal logic.

**EventStoreProofs.** The inductive invariant `IInv` is `TypeOK`, `OneWorkerHoldsTheLiveClaims`,
`SessionsAreServedInOrder` and two strengthenings: `ClaimsAreOnPendingRows` (only stored, unsettled rows have a
claim) and `UnstoredIsUntouched` (a row that is not stored has no attempts). Without the first, a settled row could
carry a live claim that the look at *pending* rows in `acquire_worker_lease` misses; without the second, an event
stored late could already be tried. `LeaseSeconds <= LeaderSeconds` (the configuration is validated so) matters:
otherwise a claim could outlive the leadership it is bound to. From it: `TypeCorrect`, `OneWorker`, `InOrder`,
`Once` (action property) and `Refinement` (`Spec => ImplementsSessionQueue`: every operation is a `Store`, a
`SettleAll` or a stutter; a claim that dead-letters a run of undecodable rows settles them together).

The second half of the module is about `MongoEventStore`. `MongoIInv` replaces the one-worker part by three others:
`CallsAreOfHeads` (rows a call is about to sweep or take have everything before them settled, which stays true however
late it does so, because settled rows stay settled and new rows come last), `StoresAreNext` (an event on its way into
the stores comes after all that its session has) and `MirrorAgrees`. One lemma, `MongoQueueStep`, says what an access may do
to the queue: change one head (`RowChange`), add a row behind its session (`RowAdded`), or nothing. From it
`MongoTypeCorrect`, `MongoInOrder`, `MongoOnce`, `MirrorTrue` and `MongoRefinement`, for any number of calls and stores
in progress: both backends implement `SessionQueue`.

**SensorForwarderProofs.** `FInv` is the types, and: Cowrie rotates once the files before the last one are sealed
(`FeedIsSealed`), what a poll has read leads from the checkpoint to the next one and is in the spool before that is
committed (`BatchLeadsOn`), the records it sent are refused or with their ingest thread, then stored or shelved
(`SentIsAnswered`), a torn record is visible (`TornIsSeen`), and every line before the checkpoint is held somewhere
or leaves evidence (`LossIsSeen`). From it `NoLineIsLost` and
`CheckpointMovesOn`, with torn appends and early seals, both under the assumption that no rotation falls between `stat`
and `open`, which run `forwarder_rotation_race` shows to be needed.

`LinesAreStoredInOrder` (`StoredInOrder`, under the same assumption) needs more: `OInv` adds that the feed is numbered
from file to file, that what is shelved was refused, and, while no append is torn, that the store has no gap and nothing
on its way can open one (`NoGap`): record for record, the spool and what *every* ingest thread still has to handle
continue what is stored, and what a poll has just read continues what lies before the checkpoint. The threads of requests that timed out
are what makes this necessary: they go on storing while the retry runs beside them.

`ForwarderTypeCorrect` (`TypeOK`) assumes nothing of rotations. Its `KInv` keeps offsets inside their files; that an
offset is at most `Lines` then follows by counting, from the numbering of the lines. That the quarantine
holds no record twice rests on a count, too: numbering the newly refused positions by how many lie before them reaches
each of them once.

**SessionWorkerProofs.** `UsesTheQueue`: every step of workers and heartbeats is a step of `EventStore` or
leaves it alone, so every theorem about the queue holds of the composition (`OneWorkerAtATime`). `WIInv` adds
`WorkInProgress` (a part of `WorkerTypeOK`: inside the `try` block a process has a claimed event and a token) and `CloseInProgress` (past the
announcement of a closing event its session is announced); from it `WorkerTypeCorrect` and `CloseAnnounced`.
These hold with stalls and crashes: `MayStall` is not assumed.

What the sessions contain is proved under `NoStall`: no process outlives its claim (`MayStall` is false and an answer
of the database takes less than the lease). The code means it so: the busy timeout is 30 s (`backend.py:487`) and the
lease 60 s (`event_lease_seconds`, `production/utils/config.py:404`), renewed by the heartbeat. Run
`session_worker_overwrite` shows what a stall does. `SInv` adds to `WIInv` and to the queue's `IInv`: events arrive in
their order; every saved or remembered state has its events once each and in order (`RowsAreGood`, `StatesAreGood`); a process at work has a
live claim for as long as its step can last, unless it has seen that it lost it (`ClaimOutlivesWork`, `HeldUnlessLost`);
a memory, and the copy kept for the undo, has what the durable row has of succeeded events (`MemoryFits`, `BeforeFits`); and
what a process is about to save contains what was saved (`WorkKept`). From it `AppliedOnce` and `MemoryCurrent`. `TInv` adds
that nobody at work holds an open copy of a closed session (`ClosedIsFinal`), `SucceededIsKept` and
`AnalysisSeesClosedRow`; from it `SucceededKept`, `AnalysisAfterClose` and the action property `ClosedForGood`. These
three also assume `ClosingIsLast`: the closing event has the largest number of its session, as Cowrie writes it. What a later
event does is the first of the hazards without a property (section 4). With `MayStall = TRUE` TLC finds all five violated.

`WorkerRefinement` (`WorkerSpec => ImplementsSessionLog`, under the same conditions as `ClosedForGood`) puts these together. A
save is a `Write` when the row did not end with the event yet, and a stutter when it did (the second save of a close, or the
next attempt of an event that was saved); `Announce`, completion (`Succeed`), arrival and dead letters map to the actions of
that name, and claims, leases, heartbeats and memories to stutters. That a `Write` is allowed needs most of `TInv`: the row is
open (`ClosedIsFinal`), the event is next (`SessionsAreServedInOrder`), what it is appended to is the row or the row without
a dead letter at its end (`BeforeIsKept`, from `MemoryFits` and the order of arrival), and a row's events are all settled but the last one
(`RowIsSettled`).

**AnalysisQueueProofs.** `AInv` is `JobTypeOK`, `OneReport`, `SummaryIsNotAhead` and `VerdictsAreTrue` (a worker
past its claim has a session; a worker about to write "skipped" has a job that is skipped), which is needed because
`Patch` is a transaction of its own. The proof rests on one fact about every action: a job that succeeded or was
skipped keeps its status (`FinalStays`). From it `QueueTypeCorrect`, `OneReportFiled`, `SummaryTrue` and `LedgerRefinement`.

**WebhookProofs.** `HInv` is `HookTypeOK`, `WorkIsClaimed` (a dispatcher at an alert claimed it with a token no newer
than the row's), `TokensDiffer` and `RowsAreTrue`; then two counts: the posts of an alert and the dispatchers that still may
post it do not exceed its attempts (`Budget`), and accepted copies and posters whose lease expired do not exceed the
doubts by more than one (`Copies`). From it `SettledDeliveriesStay`, `PostsAreBounded`, `CopiesHaveAReason` and, in place of
an invariant in the run, `HookTypeCorrect`. `OutboxRefinement` (`HookSpec => ImplementsOutbox`) adds `RowsAreStored`
(dispatchers read only stored alerts): a claim is `Begin` or, when it sweeps a row whose attempts are used up, `GiveUp`; a POST is
`Send`, because `Budget` leaves an attempt for whoever may still post; a completion is `Deliver`, `GiveUp` or, for a retry and for
a dispatcher that was taken over, nothing.

**RetentionProofs.** `RInv` has ten parts: types; a process owns the name of its archive and,
from the first receipt on, its run (`NamesAreOwn`); receipts appear in order (`DirsAreInOrder`); a run's frozen set is
that of its one process and nothing is done before the reconciliation (`StepsAreInOrder`); the two copies of an
archive were made alike (`CopiesAgree`); what is in an archive was there (`ArchivedWasThere`); what was compared is the same
(`ComparedIsSame`); what is purged is archived (`PurgedIsArchived`); and the catalog (`CatalogIsOfRuns`,
`CatalogIsTrue`). From it five of the listed theorems, for purging and archive-only cycles together. `Restorable` assumes a finite
set of archives and at most one damaged copy: with two, both copies of an archive could be damaged.

`StuckIsUnfit` (`OnlyUnfitRunsAreStuck`) is about cycles that race while nobody dies, writes or damages a copy. `QInv` adds to
`RInv`, for such behaviours: documents have their first version (`FirstVersions`); a run was planned when at least today's
documents were there (`PlansAreOld`); what a process listed is still there, or its run is overtaken, that is, so many documents are gone
that no cycle will plan this run again (`ListsAreGood`); a run with a receipt and without an end has its process, is overtaken, or cannot be
reconciled (`OpenIsManned`); and a process that deleted something has overtaken its own run (`Unhindered`). The theorem
assumes nothing of the sizes or the orders of cycles: the third case is the one that the shipped configuration runs into
(the observation on retention in section 3: 5000 documents a cycle are configured, 463 accepted), and the theorem says that there is no other.

**ThreatIntelProofs.** `TInv` is the types, `EventsAreKept` (an acknowledged event is stored and published),
`JobsAreAnswered`, `KeysBoundJobs` and `RequestsAreCounted` (in this
minute's calls, but for one of each loop that reserved it earlier). From it
`TiTypeCorrect`, `QuotaHolds` and `NothingIsAckedEarly`.

**BackupProofs.** `AInv` is the types, `DayIsOpen` (the manifest of the day a process archives says "running", and
nobody else changes it), `DoneIsStored`, `OwnerIsOnTrack` (the owner of a run that met no failure
has done what the run owes, but for the days still on its list) and `OwedIsKnown`. The step to the next day takes the least day left, which exists by well-founded induction. From it
`BackupTypeCorrect`, `SuccessIsTrue`, `ArchiveStays` and `SuccessStays`. `BackupRefinement` (`BackupSpec =>
ImplementsBackupBook`) adds `CopyIsReal` (what is about to be uploaded is no more than the day has): uploads, also those of a
day that then fails, are `Put` on a day that is not entered (`DayIsOpen`); `RecordDay` is `Enter`, with or without its answer (`AnswerIsLost`); a claim of a run is `Begin`, and the end
of one is `Fail`, `Succeed` (by `OwnerIsOnTrack`) or, when the run was taken over, nothing.

The inductive invariants `SInv`, `OInv`, `KInv` and `QInv` were checked by TLC on small instances before they were proved.

*Only model-checked*: all liveness (`EveryLineArrivesUnlessFull`, `EveryJobSettles`, `EveryAlertSettles`,
`EveryDayIsArchived`, `EveryRequestSettles`), which, like ENABLED, is beyond this prover. Every invariant and every action property
of the passing runs is proved, and so is every refinement. No module uses recursive operators.

## 6. Not modelled

Listed in `PROJECT.json` with the reason. Most of the repository's lines are reports, dashboards, classifiers,
reproduction and evaluation code, installers and their tests: functions of one input or readers of the storage,
without state that two steps could disagree about. The models cover a small share of the lines, and that share is where
processes meet.

Left out inside the modelled parts:

- forwarder and ingest: the TLS client, configuration, authentication, rate limits and redaction;
- event queue: `mark_event_processed`, which no production code calls;
- MongoDB: the other queues and documents, migrations, epochs, shadow reads; one event claimed per call, as the
  session worker does. `SessionWorker` is composed with the SQLite queue;
- session worker: the timeout of joining the heartbeat thread, two threads *inside* `_ensure_leadership` at once
  (it has no lock; here it is one step), the bound on recovered sessions, and the content of sessions.
  `save_session` keeps the analysis fields of the existing row, which `AnalysisQueue` relies on (`CloseEnds`);
- analysis jobs: the skip decided at the close, and the AI advisory job enqueued after a report, outside the
  transaction and best effort;
- webhook: the deliveries of reports in the same table, targets other than one, signing, payloads;
- retention: several collections in one cycle, capacity gates, the separate pilot purge and restore tools;
- threat intelligence: normalisation, projections, the second provider, the budget of the day (which works like that
  of the minute), invalid jobs, expiry of events; no liveness is checked, because the stream is trimmed;
- backup: `BACKUP_FORCE`, several targets in one run, status and storage snapshots. The collections drop documents
  after 30 days (`processor-agent/retention.go:9`, 11) and the window reaches 30 days back (`hardware-backup/config.go:14`), so that its
  oldest day loses documents while it is looked at and read. A run that gets to that day only then archives what is left, or finds the
  day empty, and is a success all the same. The models leave that day out: what they say of the days a run owes holds of the younger ones.

## 7. Plan

Done: `SessionQueue`, `EventStore` and `MongoEventStore`; `SensorForwarder`; `SessionLog` and `SessionWorker`;
`AnalysisLedger` and `AnalysisQueue`; `Outbox` and `Webhook`; `Retention`; `ThreatIntel`; `BackupBook` and `Backup`; proofs about all of
them, refinements included.

Left, in this order:

1. the session worker's leadership on MongoDB: `SessionWorker` composed with `MongoEventStore`;
2. `JobQueue` for enrichment, threat hunts and AI advisory: completion outside the claim's transaction,
   reconciliation of lost AI jobs; a refinement of `AnalysisLedger` generalised to a queue;
3. proofs: every safety invariant and action property that a run checks is proved; what comes with the modules of 1 and
   2 is to be proved with them.
