--------------------------- MODULE SensorForwarder ---------------------------
(***************************************************************************)
(* The path of a log line from Cowrie's JSON feed into the event store:    *)
(* Cowrie's daily rotation, the forwarder's poll (tail, spool, checkpoint, *)
(* POST, quarantine, shorten the spool) and the threads of the ingest API. *)
(*                                                                         *)
(* Lines are numbered in the order Cowrie writes them, and a line counts   *)
(* as written when its newline is on disk: the tailer leaves an unfinished *)
(* one for its next poll.  A malformed or oversized line travels as a      *)
(* parse-error record, which the ingest API rejects like an invalid event. *)
(* Files are numbered in the order of rotation: the number stands for      *)
(* device and inode, a count of lines for the byte offset.                 *)
(*                                                                         *)
(* Every failure of the forwarder, an error return, a raised exception or  *)
(* a crash, ends its poll; the next one starts from the disk alone.        *)
(***************************************************************************)
EXTENDS Naturals, FiniteSets, SequencesExt

CONSTANTS
    Lines,          \* how many lines Cowrie writes
    Rejected,       \* the lines the ingest API rejects for good
    MaxFiles,       \* bound of the model: files Cowrie opens
    BatchSize,      \* forwarder_batch_size
    MaxSpool,       \* forwarder_max_spool_bytes, in records
    MaxQuarantine,  \* forwarder_max_quarantine_events
    MaxThreads,     \* bound of the model: ingest threads busy with this sensor
    Faults          \* what the environment may do beyond crashes and lost answers:
                    \* a behaviour has some of them

ASSUME ForwarderAssumption ==
    /\ Lines \in Nat
    /\ Rejected \subseteq 1..Lines
    /\ MaxFiles \in Nat \ {0}
    /\ BatchSize \in Nat \ {0}
    /\ MaxSpool \in Nat \ {0}
    /\ MaxQuarantine \in Nat \ {0}
    /\ MaxThreads \in Nat \ {0}
    /\ Faults \subseteq {"torn_append", "rotation_while_opening", "early_seal"}

VARIABLES
    log,         \* log[f]: the lines of file f
    cur,         \* the file Cowrie writes
    present,     \* log_path exists (not between rename and reopen)
    sealed,      \* rotated files with mode 0600, unreadable to the forwarder
    checkpoint,  \* the fsynced offset file
    spool,       \* the records of the spool file
    torn,        \* its last record lacks its newline
    quarantine,  \* the records of the quarantine file
    pc,          \* the forwarder's next step
    poll,        \* the local variables of its poll
    todo,        \* todo[h]: records ingest thread h has still to handle
    stored,      \* lines in the event store
    shelved,     \* records that ever reached the quarantine
    faults       \* the faults of this behaviour

cowrieVars == <<log, cur, present, sealed>>
diskVars   == <<checkpoint, spool, torn, quarantine, shelved>>
ingestVars == <<todo, stored>>
vars       == <<cowrieVars, diskVars, ingestVars, pc, poll>>

Files == 1..MaxFiles
Threads == 1..MaxThreads

\* A record that no longer parses (spool_parse_error).
Junk == 0
Records == 0..Lines

Positions == [file : Files, off : 0..Lines]
Start == [file |-> 1, off |-> 0]

\* src, target: the file to read and the one current_stat saw; batch, next: the
\* events read and the checkpoint to commit after them; sent, thread: how many
\* spool records the POST carries and the ingest thread that serves it.
NoPoll == [src |-> 1, target |-> 1, batch |-> <<>>, next |-> Start,
           sent |-> 0, thread |-> 1]

Refused(r) == r = Junk \/ r \in Rejected

TypeOK ==
    /\ log \in [Files -> Seq(1..Lines)]
    /\ cur \in Files /\ present \in BOOLEAN /\ sealed \subseteq Files
    /\ checkpoint \in Positions
    /\ spool \in Seq(Records) /\ torn \in BOOLEAN
    /\ quarantine \in Seq(Records) /\ Len(quarantine) <= MaxQuarantine
    /\ IsInjective(quarantine)
    /\ shelved \subseteq Records
    /\ pc \in {"idle", "open", "append", "commit", "load", "wait", "shelve", "shorten"}
    /\ poll \in [src : Files, target : Files, batch : Seq(1..Lines),
                next : Positions, sent : 0..BatchSize, thread : Threads]
    /\ todo \in [Threads -> Seq(Records)]
    /\ stored \subseteq 1..Lines
    /\ faults \subseteq Faults

\* A forwarder that has polled an empty feed once.
Init ==
    /\ log = [f \in Files |-> <<>>]
    /\ faults \in SUBSET Faults
    /\ cur = 1 /\ present = TRUE /\ sealed = {}
    /\ checkpoint = Start
    /\ spool = <<>> /\ torn = FALSE
    /\ quarantine = <<>> /\ shelved = {}
    /\ pc = "idle" /\ poll = NoPoll
    /\ todo = [h \in Threads |-> <<>>]
    /\ stored = {}

Written == UNION {Range(log[f]) : f \in Files}

-----------------------------------------------------------------------------
(* Cowrie. *)

WriteLine ==
    /\ present
    /\ Cardinality(Written) < Lines
    /\ log' = [log EXCEPT ![cur] = Append(@, Cardinality(Written) + 1)]
    /\ UNCHANGED <<cur, present, sealed, diskVars, ingestVars, pc, poll>>

\* rotate(): rename; a day has passed since the previous one was sealed.
RenameLog ==
    /\ present
    /\ cur < MaxFiles
    /\ 1..(cur - 1) \subseteq sealed
    /\ "rotation_while_opening" \in faults \/ pc # "open"
    /\ present' = FALSE
    /\ UNCHANGED <<log, cur, sealed, diskVars, ingestVars, pc, poll>>

\* rotate(): open the new file under the old name.
ReopenLog ==
    /\ ~present
    /\ present' = TRUE
    /\ cur' = cur + 1
    /\ UNCHANGED <<log, sealed, diskVars, ingestVars, pc, poll>>

\* The callback fires 15 seconds after the rotation; without an early seal the
\* forwarder has drained the file by then.
SealRotatedFeed(f) ==
    /\ f < cur
    /\ f \notin sealed
    /\ "early_seal" \in faults \/ (checkpoint.file > f /\ pc # "open")
    /\ sealed' = sealed \cup {f}
    /\ UNCHANGED <<log, cur, present, diskVars, ingestVars, pc, poll>>

-----------------------------------------------------------------------------
(* The forwarder: one poll of _forward_once_unlocked. *)

PollEnds == pc' = "idle" /\ poll' = NoPoll

\* prepare_new_events up to the choice of the file: the one the checkpoint
\* names if it was renamed, or else whatever log_path names when it is opened.
StatLog ==
    /\ pc = "idle"
    /\ IF present
       THEN pc' = "open" /\ poll' = [NoPoll EXCEPT !.src = checkpoint.file, !.target = cur]
       ELSE pc' = "load" /\ UNCHANGED poll
    /\ UNCHANGED <<cowrieVars, diskVars, ingestVars>>

Recovering == poll.src # poll.target

\* open() raises: the renamed file is sealed, or log_path is being rotated.
CannotOpen == IF Recovering THEN poll.src \in sealed ELSE ~present

\* Bug: one record more than the limit.
SliceOffByOne(s, n) ==
    SubSeq(s, n + 1, IF n + BatchSize < Len(s) THEN n + BatchSize + 1 ELSE Len(s))

\* At most BatchSize elements of s, from the one after n on.
Slice(s, n) == SubSeq(s, n + 1, IF n + BatchSize < Len(s) THEN n + BatchSize ELSE Len(s))

\* Bug: the renamed file is given up after one batch.
NextCheckpointTooEarly(file, end) ==
    IF Recovering THEN [file |-> poll.target, off |-> 0] ELSE [file |-> file, off |-> end]

\* Bug: the new file is entered at the offset reached in the old one.
NextCheckpointWithOldOffset(file, end) ==
    [file |-> IF Recovering /\ end >= Len(log[file]) THEN poll.target ELSE file,
     off  |-> end]

\* A renamed file that is read to its end hands over to the file that replaced it.
NextCheckpoint(file, end) ==
    IF Recovering /\ end >= Len(log[file])
    THEN [file |-> poll.target, off |-> 0]
    ELSE [file |-> file, off |-> end]

\* prepare_new_events from open() on.
ReadLog ==
    /\ pc = "open"
    /\ ~CannotOpen
    /\ LET file  == IF Recovering THEN poll.src ELSE cur
           start == IF checkpoint.file = file THEN checkpoint.off ELSE 0
           lines == Slice(log[file], start)
           next  == NextCheckpoint(file, start + Len(lines))
       IN  /\ poll' = [NoPoll EXCEPT !.batch = lines, !.next = next]
           /\ pc' = IF lines # <<>> THEN "append"
                    ELSE IF next # checkpoint THEN "commit" ELSE "load"
    /\ UNCHANGED <<cowrieVars, diskVars, ingestVars>>

\* Bytes appended after an unfinished record continue that record.
Glued(records) ==
    spool \o (IF torn /\ records # <<>> THEN Tail(records) ELSE records)

Fits == Len(spool) + Len(poll.batch) <= MaxSpool

\* append_many: write and fsync.
AppendSpool ==
    /\ pc = "append"
    /\ Fits
    /\ spool' = Glued(poll.batch)
    /\ torn' = FALSE
    /\ pc' = "commit"
    /\ UNCHANGED <<cowrieVars, checkpoint, quarantine, shelved, poll, ingestVars>>

\* append_many: SpoolCapacityError, which ends the poll.
SpoolIsFull ==
    /\ pc = "append"
    /\ ~Fits
    /\ PollEnds
    /\ UNCHANGED <<cowrieVars, diskVars, ingestVars>>

\* append_many: only the first k records and a part of the next reach the disk,
\* because the disk is full or the power fails.
TornAppend ==
    /\ "torn_append" \in faults
    /\ pc = "append"
    /\ Fits
    /\ \E k \in 0..(Len(poll.batch) - 1) :
          spool' = IF torn /\ k = 0 THEN spool
                   ELSE Append(Glued(SubSeq(poll.batch, 1, k)), Junk)
    /\ torn' = TRUE
    /\ PollEnds
    /\ UNCHANGED <<cowrieVars, checkpoint, quarantine, shelved, ingestVars>>

\* commit: atomic replacement of the offset file.
CommitCheckpoint ==
    /\ pc = "commit"
    /\ checkpoint' = poll.next
    /\ pc' = "load"
    /\ poll' = NoPoll
    /\ UNCHANGED <<cowrieVars, spool, torn, quarantine, shelved, ingestVars>>

\* load_batch; the request of post_events reaches an ingest thread.
PostBatch ==
    /\ pc = "load"
    /\ spool # <<>>
    /\ \E h \in Threads :
          /\ todo[h] = <<>> /\ \A g \in 1..(h - 1) : todo[g] # <<>>
          /\ todo' = [todo EXCEPT ![h] = Slice(spool, 0)]
          /\ poll' = [NoPoll EXCEPT !.sent = Len(Slice(spool, 0)), !.thread = h]
    /\ pc' = "wait"
    /\ UNCHANGED <<cowrieVars, diskVars, stored>>

NothingToPost ==
    /\ pc = "load"
    /\ spool = <<>>
    /\ PollEnds
    /\ UNCHANGED <<cowrieVars, diskVars, ingestVars>>

\* The records of the POST that the ingest API refuses.
RefusedRecords == {r \in Range(SubSeq(spool, 1, poll.sent)) : Refused(r)}

\* Where they stand in the batch for the first time, unless the quarantine holds them.
NewlyRefusedAt ==
    {i \in 1..poll.sent : /\ Refused(spool[i])
                          /\ ~Contains(quarantine, spool[i])
                          /\ \A j \in 1..(i - 1) : spool[j] # spool[i]}

\* The records to add to the quarantine, in their order.
NewlyRefused ==
    LET nth(n) == CHOOSE i \in NewlyRefusedAt :
                     Cardinality({j \in NewlyRefusedAt : j <= i}) = n
    IN  [n \in 1..Cardinality(NewlyRefusedAt) |-> spool[nth(n)]]

\* Bug: a request that timed out counts as acknowledged.
AssumeAck ==
    /\ pc = "wait"
    /\ pc' = IF RefusedRecords # {} THEN "shelve" ELSE "shorten"
    /\ UNCHANGED <<cowrieVars, diskVars, poll, ingestVars>>

\* The answer accounts for every record of the batch.
ReceiveAck ==
    /\ pc = "wait"
    /\ todo[poll.thread] = <<>>
    /\ pc' = IF RefusedRecords # {} THEN "shelve" ELSE "shorten"
    /\ UNCHANGED <<cowrieVars, diskVars, poll, ingestVars>>

\* Bug: a full quarantine refuses new records instead of evicting old ones.
ShelveIfRoom ==
    /\ pc = "shelve"
    /\ Len(quarantine \o NewlyRefused) <= MaxQuarantine
    /\ quarantine' = quarantine \o NewlyRefused
    /\ shelved' = shelved \cup RefusedRecords
    /\ pc' = "shorten"
    /\ UNCHANGED <<cowrieVars, checkpoint, spool, torn, poll, ingestVars>>

\* append_rejected: skip those already there, evict the oldest.
ShelveRejected ==
    /\ pc = "shelve"
    /\ LET all  == quarantine \o NewlyRefused
           over == IF Len(all) > MaxQuarantine THEN Len(all) - MaxQuarantine ELSE 0
       IN  quarantine' = SubSeq(all, over + 1, Len(all))
    /\ shelved' = shelved \cup RefusedRecords
    /\ pc' = "shorten"
    /\ UNCHANGED <<cowrieVars, checkpoint, spool, torn, poll, ingestVars>>

\* replace_remaining: what is left is rewritten, every record with its newline.
ShortenSpool ==
    /\ pc = "shorten"
    /\ spool' = SubSeq(spool, poll.sent + 1, Len(spool))
    /\ torn' = FALSE
    /\ PollEnds
    /\ UNCHANGED <<cowrieVars, checkpoint, quarantine, shelved, ingestVars>>

\* An error return (a failed commit, an unreachable ingest, a timeout, a 500, an
\* answer that does not add up, a full quarantine), an exception or a crash.
EndPoll ==
    /\ pc # "idle"
    /\ PollEnds
    /\ UNCHANGED <<cowrieVars, diskVars, ingestVars>>

-----------------------------------------------------------------------------
(* The ingest API: a thread per request, which runs on when its client has   *)
(* given up.                                                                 *)

\* One turn of the loop of do_POST.
IngestEvent(h) ==
    /\ todo[h] # <<>>
    /\ LET r == Head(todo[h])
       IN  stored' = IF Refused(r) THEN stored ELSE stored \cup {r}
    /\ todo' = [todo EXCEPT ![h] = Tail(@)]
    /\ UNCHANGED <<cowrieVars, diskVars, pc, poll>>

\* The event store is unavailable: status 500 and the rest is left undone.
IngestAborts(h) ==
    /\ todo[h] # <<>>
    /\ todo' = [todo EXCEPT ![h] = <<>>]
    /\ IF pc = "wait" /\ poll.thread = h THEN PollEnds ELSE UNCHANGED <<pc, poll>>
    /\ UNCHANGED <<cowrieVars, diskVars, stored>>

-----------------------------------------------------------------------------
Cowrie ==
    \/ WriteLine
    \/ RenameLog
    \/ ReopenLog
    \/ \E f \in Files : SealRotatedFeed(f)

Forwarder ==
    \/ StatLog
    \/ ReadLog
    \/ AppendSpool
    \/ SpoolIsFull
    \/ TornAppend
    \/ CommitCheckpoint
    \/ PostBatch
    \/ NothingToPost
    \/ ReceiveAck
    \/ ShelveRejected
    \/ ShortenSpool
    \/ EndPoll

Ingest == \E h \in Threads : IngestEvent(h) \/ IngestAborts(h)

Next == (Cowrie \/ Forwarder \/ Ingest) /\ UNCHANGED faults

Spec == Init /\ [][Next]_<<vars, faults>>

\* The ingest API handles a record while the forwarder still waits.
IngestInTime(h, n) ==
    IngestEvent(h) /\ Len(todo[h]) = n /\ pc = "wait" /\ poll.thread = h

\* The service polls for ever (systemd restarts it), Cowrie finishes a rotation,
\* and what is tried again and again works in the end: no step of the forwarder
\* and no request fails every time.
Fairness ==
    /\ WF_vars(ReopenLog)
    /\ WF_vars(Forwarder)
    /\ SF_vars(StatLog) /\ SF_vars(ReadLog) /\ SF_vars(AppendSpool)
    /\ SF_vars(CommitCheckpoint) /\ SF_vars(PostBatch) /\ SF_vars(ReceiveAck)
    /\ SF_vars(ShelveRejected) /\ SF_vars(ShortenSpool)
    /\ \A h \in Threads :
          /\ WF_vars(IngestEvent(h))
          /\ \A n \in 1..BatchSize : SF_vars(IngestInTime(h, n))

FairSpec == Spec /\ Fairness

-----------------------------------------------------------------------------
(* Properties. *)

\* The lines the committed checkpoint has left behind.
Passed ==
    (UNION {Range(log[f]) : f \in 1..(checkpoint.file - 1)})
       \cup {log[checkpoint.file][i] : i \in 1..checkpoint.off}

\* What the tailer will not read again is in the spool, stored or was shelved.
Kept == Passed \subseteq Range(spool) \cup stored \cup shelved

\* A line the tailer will not read again is in the spool, in the event store or
\* was shelved, whatever crashes, rotations, lost answers and retries come between
\* fsync, commit, POST and the rewrite of the spool.  A line can only be lost where
\* a later append continued the unfinished record of a torn one, and then an
\* unreadable record stays in the spool, or reaches the quarantine, as evidence.
NothingIsLost ==
    Kept \/ ("torn_append" \in faults /\ Junk \in Range(spool) \cup shelved)

\* The event store receives the lines in the order they were written, also when
\* threads of abandoned requests run on beside the retry: an earlier line never
\* arrives after a later one, unless an append was torn: the line whose record was
\* glued to the torn one may be read again and come behind those that followed it.
\* The queue's order within a session rests on it.
StoredInOrder ==
    [][\A r \in stored' \ stored : \A q \in stored :
          "torn_append" \in faults \/ q < r]_stored

\* The committed position only moves forward, from file to file in the order of
\* rotation, and never past the end of the file it is in.
Advances ==
    /\ \/ checkpoint'.file > checkpoint.file
       \/ checkpoint'.file = checkpoint.file /\ checkpoint'.off >= checkpoint.off
    /\ checkpoint'.off <= Len(log'[checkpoint'.file])

CheckpointAdvances == [][Advances]_vars

\* The event store and the quarantine catch up with Cowrie again and again.
EveryLineArrives == []<>(Written \subseteq stored \cup shelved)

\* The same of a spool that does not stay too full for one more batch: crashes,
\* rejected lines, a full quarantine and rotations never stop the flow for good.
EveryLineArrivesUnlessFull ==
    []<>(Len(spool) + BatchSize <= MaxSpool) => EveryLineArrives
=============================================================================
