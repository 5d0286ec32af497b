----------------------------- MODULE BackupProofs -----------------------------
(* Theorems about Backup, for any processes, dates, documents, requests and  *)
(* faults.                                                                   *)
EXTENDS Backup, WellFoundedInduction, TLAPS

Locals == [at : {"idle", "select", "lock", "day", "read", "upload", "record", "finish"},
           for : {"none", "run", "request"}, key : Nat, days : SUBSET Dates,
           copy : 0..MaxDocs, failed : BOOLEAN]

\* Steps under the lock, and those of them on a day that is not archived yet.
Holding == {"day", "read", "upload", "record"}
Archiving == {"read", "upload", "record"}

Typed ==
    /\ BackupTypeOK
    /\ runner \in [Runners -> Locals]
    /\ \A w \in Runners :
          /\ runner[w].for = "request" => runner[w].key \in Requests
          /\ runner[w].at = "select" => runner[w].for = "request"

\* Nobody but the holder of the lock changes the manifest of the day it is at.
DayIsOpen ==
    \A w \in Runners :
        runner[w].at \in Archiving =>
            /\ Day(w) \in Dates
            /\ manifest[Day(w)].status = "running"
            /\ runner[w].at = "record" => object[Day(w)] = runner[w].copy

Done(d) == manifest[d].status = "success" /\ manifest[d].count > 0

\* A day that is done is in the bucket.
DoneIsStored == \A d \in Dates : Done(d) => object[d] = manifest[d].count

Owns(w, t) ==
    /\ runner[w].for = "run" /\ runner[w].key = t
    /\ run[t].status = "running" /\ run[t].owner = w

\* The owner of a run that has met no failure has done every day it owes, but those
\* still on its list.
OwnerIsOnTrack ==
    \A w \in Runners, t \in Dates :
        Owns(w, t) /\ ~runner[w].failed =>
            /\ \A d \in run[t].owed : d \in runner[w].days \/ Done(d)
            /\ runner[w].at = "finish" => runner[w].days = {}

\* What a run owes has documents, and is done when the run succeeded.
OwedIsKnown ==
    \A t \in Dates : \A d \in run[t].owed :
        docs[d] > 0 /\ (run[t].status = "success" => Done(d))

AInv == Typed /\ DayIsOpen /\ DoneIsStored /\ OwnerIsOnTrack /\ OwedIsKnown

-----------------------------------------------------------------------------
(* Facts about the state. *)

LEMMA Constants ==
    /\ today \in Dates => today \in Nat /\ Window(today) \subseteq Dates
    /\ 0 \in 0..MaxDocs /\ MaxDocs \in Nat /\ MaxDate \in Nat
  BY BackupAssumption DEF Dates, Window

LEMMA AtEaseTyped ==
    /\ AtEase \in Locals /\ AtEase.at = "idle" /\ AtEase.for = "none" /\ AtEase.days = {}
    /\ AtEase.key = 0 /\ AtEase.copy = 0 /\ AtEase.failed = FALSE
  BY BackupAssumption DEF AtEase, Locals

LEMMA AskedTyped ==
    ASSUME NEW f \in [Requests -> Asked], NEW q \in Requests, NEW b \in BOOLEAN
    PROVE  /\ [f EXCEPT ![q].stale = b] \in [Requests -> Asked]
           /\ \A s \in {"failed", "success"} :
                 [f EXCEPT ![q].status = s, ![q].stale = b] \in [Requests -> Asked]
  <1>1. f[q] \in Asked
    OBVIOUS
  <1>2. [f[q] EXCEPT !.stale = b] \in Asked
    BY <1>1 DEF Asked
  <1>3. ASSUME NEW s \in {"failed", "success"}
        PROVE  [f[q] EXCEPT !.status = s, !.stale = b] \in Asked
    BY <1>1, <1>3 DEF Asked
  <1> QED
    BY <1>2, <1>3

LEMMA SameDay ==
    ASSUME NEW w, runner'[w].days = runner[w].days
    PROVE  Day(w)' = Day(w)
  BY DEF Day

\* Every set of natural numbers but the empty one has a least element.
LEMMA Least ==
    ASSUME NEW T \in SUBSET Nat, T # {}
    PROVE  \E x \in T : \A y \in T : x <= y
  <1> DEFINE R == OpToRel(<, Nat)
  <1>1. IsWellFoundedOn(R, Nat)
    BY NatLessThanWellFounded
  <1>2. \A x, y \in Nat : y < x => <<y, x>> \in R
    BY DEF OpToRel
  <1> HIDE DEF R
  <1>3. PICK x \in T : \A y \in T : ~ (<<y, x>> \in R)
    BY <1>1, WFMin
  <1>4. ASSUME NEW y \in T
        PROVE  x <= y
    <2>1. x \in Nat /\ y \in Nat
      OBVIOUS
    <2>2. ~(y < x)
      BY <1>2, <1>3, <2>1
    <2> QED
      BY <2>1, <2>2
  <1> QED
    BY <1>4

LEMMA DayIsListed ==
    ASSUME NEW w, runner[w].days \in SUBSET Dates, runner[w].days # {}
    PROVE  Day(w) \in runner[w].days
  <1>1. runner[w].days \in SUBSET Nat
    BY BackupAssumption DEF Dates
  <1>2. \E d \in runner[w].days : \A e \in runner[w].days : d <= e
    BY <1>1, Least
  <1> QED
    BY <1>2 DEF Day

LEMMA OneHolder ==
    ASSUME Typed, NEW v \in Runners, NEW w \in Runners,
           runner[v].at \in Holding, runner[w].at \in Holding
    PROVE  v = w
  BY DEF Typed, BackupTypeOK, Holding

LEMMA BackupInitial ==
    ASSUME BackupInit
    PROVE  AInv
  <1>1. today \in Dates /\ today = 1
    BY BackupAssumption DEF BackupInit, Dates
  <1>2. \A w \in Runners : runner[w] = AtEase
    BY DEF BackupInit
  <1>3. Typed
    <2>1. runner \in [Runners -> Locals]
      BY AtEaseTyped DEF BackupInit
    <2>2. /\ docs \in [Dates -> 0..MaxDocs] /\ object \in [Dates -> 0..MaxDocs]
          /\ manifest \in [Dates -> [status : {"none", "running", "failed", "success"},
                                     count : 0..MaxDocs]]
      BY Constants DEF BackupInit
    <2>3. run \in [Dates -> Runs] /\ request \in [Requests -> Asked]
      BY DEF BackupInit, Runs, Asked
    <2>4. \A w \in Runners :
             /\ runner[w].at \in {"idle", "select", "lock", "day", "read", "upload",
                                  "record", "finish"}
             /\ runner[w].days \subseteq 1..today
             /\ runner[w].at \in {"day", "read", "upload", "record"} <=> lock = w
             /\ runner[w].at \in {"upload", "record"} => runner[w].copy \in 1..MaxDocs
      BY <1>2, AtEaseTyped, BackupAssumption DEF BackupInit, Runners
    <2>5. lock \in Runners \cup {NoRunner} /\ faults \in 0..MaxFaults
      BY BackupAssumption DEF BackupInit
    <2>7. due \in BOOLEAN
      BY DEF BackupInit
    <2>6. BackupTypeOK
      BY <1>1, <2>2, <2>3, <2>4, <2>5, <2>7 DEF BackupTypeOK
    <2> QED
      BY <1>2, <2>1, <2>6, AtEaseTyped DEF Typed
  <1>4. DayIsOpen /\ OwnerIsOnTrack
    BY <1>2, AtEaseTyped DEF DayIsOpen, OwnerIsOnTrack, Archiving, Owns
  <1>5. DoneIsStored /\ OwedIsKnown
    BY DEF BackupInit, DoneIsStored, OwedIsKnown, Done
  <1> QED
    BY <1>3, <1>4, <1>5 DEF AInv

LEMMA BackupStutter ==
    ASSUME AInv, UNCHANGED backupVars
    PROVE  AInv'
  <1>1. \A w : Day(w)' = Day(w)
    BY DEF Day, backupVars
  <1> QED
    BY <1>1 DEF AInv, Typed, BackupTypeOK, DayIsOpen, DoneIsStored, OwnerIsOnTrack, OwedIsKnown,
       Done, Owns, backupVars

\* Time, documents and requests disturb nothing.
LEMMA WorldKeeps ==
    ASSUME AInv,
           UNCHANGED <<manifest, object, lock, runner>>,
           today' \in Dates, today <= today', due' \in BOOLEAN,
           docs' \in [Dates -> 0..MaxDocs], \A d \in Dates : docs[d] <= docs'[d],
           run' \in [Dates -> Runs],
           \A t \in Dates : /\ run'[t].status = run[t].status /\ run'[t].owner = run[t].owner
                            /\ run'[t].owed = run[t].owed,
           request' \in [Requests -> Asked], faults' \in 0..MaxFaults
    PROVE  AInv'
  <1>0. today \in Nat /\ today' \in Nat
    BY BackupAssumption DEF AInv, Typed, BackupTypeOK, Dates
  <1>1. \A w : Day(w)' = Day(w)
    BY DEF Day
  <1>2. \A w \in Runners : runner'[w].days \subseteq 1..today'
    BY <1>0 DEF AInv, Typed, BackupTypeOK
  <1>3. BackupTypeOK'
    BY <1>2 DEF AInv, Typed, BackupTypeOK
  <1>4. Typed'
    BY <1>3 DEF AInv, Typed
  <1>5. DayIsOpen'
    BY <1>1 DEF AInv, DayIsOpen
  <1>6. DoneIsStored'
    BY DEF AInv, DoneIsStored, Done
  <1>7. OwnerIsOnTrack'
    BY DEF AInv, OwnerIsOnTrack, Owns, Done
  <1>8. OwedIsKnown'
    <2>1. \A t \in Dates : run[t].owed \subseteq Dates
      BY DEF AInv, Typed, BackupTypeOK, Runs
    <2>2. \A d \in Dates : docs[d] \in Nat /\ docs'[d] \in Nat
      BY BackupAssumption DEF AInv, Typed, BackupTypeOK
    <2> QED
      BY <2>1, <2>2 DEF AInv, OwedIsKnown, Done
  <1> QED
    BY <1>4, <1>5, <1>6, <1>7, <1>8 DEF AInv

LEMMA WorldStep ==
    ASSUME AInv,
           \/ TimeComes \/ NextDate
           \/ \E d \in Dates : WriteDocument(d) \/ RunGoesStale(d) \/ RetryIsDue(d)
           \/ \E q \in Requests :
                (\E action \in {"run_missing", "retry_failed"} : Ask(q, action))
                    \/ RequestGoesStale(q)
    PROVE  AInv'
  <1>0. /\ today \in Dates /\ today \in Nat /\ due \in BOOLEAN /\ faults \in 0..MaxFaults
        /\ docs \in [Dates -> 0..MaxDocs]
        /\ run \in [Dates -> Runs] /\ request \in [Requests -> Asked]
    BY BackupAssumption DEF AInv, Typed, BackupTypeOK, Dates
  <1>1. CASE TimeComes
    BY <1>0, <1>1, WorldKeeps DEF TimeComes
  <1>2. CASE NextDate
    <2>1. today' \in Dates /\ today <= today'
      BY <1>0, <1>2, BackupAssumption DEF NextDate, Dates
    <2>2. due' \in BOOLEAN
      BY <1>2 DEF NextDate
    <2> QED
      BY <1>0, <1>2, <2>1, <2>2, WorldKeeps DEF NextDate
  <1>3. ASSUME NEW d \in Dates, WriteDocument(d)
        PROVE  AInv'
    <2>1. /\ docs' \in [Dates -> 0..MaxDocs]
          /\ \A e \in Dates : docs[e] <= docs'[e]
      BY <1>0, <1>3, BackupAssumption DEF WriteDocument
    <2> QED
      BY <1>0, <1>3, <2>1, WorldKeeps DEF WriteDocument
  <1>4. ASSUME NEW d \in Dates, RunGoesStale(d) \/ RetryIsDue(d)
        PROVE  AInv'
    <2>1. /\ run' \in [Dates -> Runs]
          /\ \A t \in Dates : /\ run'[t].status = run[t].status /\ run'[t].owner = run[t].owner
                              /\ run'[t].owed = run[t].owed
      <3>1. CASE RunGoesStale(d)
        BY <1>0, <3>1 DEF RunGoesStale, Runs
      <3>2. CASE RetryIsDue(d)
        BY <1>0, <3>2 DEF RetryIsDue, Runs
      <3> QED
        BY <1>4, <3>1, <3>2
    <2>2. faults' \in 0..MaxFaults
      BY <1>0, <1>4, BackupAssumption DEF RunGoesStale, RetryIsDue, Fault
    <2> QED
      BY <1>0, <1>4, <2>1, <2>2, WorldKeeps DEF RunGoesStale, RetryIsDue
  <1>5. ASSUME NEW q \in Requests, NEW action \in {"run_missing", "retry_failed"}, Ask(q, action)
        PROVE  AInv'
    <2>1. request' \in [Requests -> Asked]
      BY <1>0, <1>5 DEF Ask, Asked
    <2> QED
      BY <1>0, <1>5, <2>1, WorldKeeps DEF Ask
  <1>6. ASSUME NEW q \in Requests, RequestGoesStale(q)
        PROVE  AInv'
    <2>1. request' \in [Requests -> Asked]
      BY <1>0, <1>6, AskedTyped DEF RequestGoesStale
    <2>2. faults' \in 0..MaxFaults
      BY <1>0, <1>6, BackupAssumption DEF RequestGoesStale, Fault
    <2> QED
      BY <1>0, <1>6, <2>1, <2>2, WorldKeeps DEF RequestGoesStale
  <1> QED
    BY <1>1, <1>2, <1>3, <1>4, <1>5, <1>6

-----------------------------------------------------------------------------
(* A process takes a step: its locals become l. *)

LEMMA MoveTyped ==
    ASSUME AInv, NEW w \in Runners, NEW l \in Locals,
           runner' = [runner EXCEPT ![w] = l], UNCHANGED <<today, due, docs>>,
           l.days \subseteq 1..today,
           l.at \in {"upload", "record"} => l.copy \in 1..MaxDocs,
           l.for = "request" => l.key \in Requests,
           l.at = "select" => l.for = "request",
           \/ lock' = lock /\ (l.at \in Holding <=> runner[w].at \in Holding)
           \/ lock = NoRunner /\ lock' = w /\ l.at \in Holding
           \/ lock = w /\ lock' = NoRunner /\ l.at \notin Holding,
           manifest' \in [Dates -> [status : {"none", "running", "failed", "success"},
                                    count : 0..MaxDocs]],
           object' \in [Dates -> 0..MaxDocs], run' \in [Dates -> Runs],
           request' \in [Requests -> Asked], faults' \in 0..MaxFaults
    PROVE  /\ Typed' /\ runner'[w] = l
           /\ \A v \in Runners \ {w} : runner'[v] = runner[v] /\ Day(v)' = Day(v)
  <1>1. /\ runner' \in [Runners -> Locals] /\ runner'[w] = l
        /\ \A v \in Runners \ {w} : runner'[v] = runner[v]
    BY DEF AInv, Typed
  <1>2. \A v \in Runners \ {w} : Day(v)' = Day(v)
    BY <1>1 DEF Day
  <1>3. lock' \in Runners \cup {NoRunner}
    BY DEF AInv, Typed, BackupTypeOK
  <1>4. ASSUME NEW v \in Runners
        PROVE  /\ runner'[v].at \in {"idle", "select", "lock", "day", "read", "upload",
                                     "record", "finish"}
               /\ runner'[v].days \subseteq 1..today'
               /\ runner'[v].at \in Holding <=> lock' = v
               /\ runner'[v].at \in {"upload", "record"} => runner'[v].copy \in 1..MaxDocs
               /\ runner'[v].for = "request" => runner'[v].key \in Requests
               /\ runner'[v].at = "select" => runner'[v].for = "request"
    <2>0. /\ \A u \in Runners : runner[u].at \in Holding <=> lock = u
          /\ NoRunner \notin Runners
      BY BackupAssumption DEF AInv, Typed, BackupTypeOK, Holding, Runners
    <2>1. CASE v = w
      <3>1. l.at \in Holding <=> lock' = w
        BY <2>0
      <3> QED
        BY <1>1, <2>1, <3>1 DEF Locals
    <2>2. CASE v # w
      <3>1. runner'[v] = runner[v] /\ (lock' = v <=> lock = v)
        BY <1>1, <2>0, <2>2
      <3> QED
        BY <2>0, <2>2, <3>1 DEF AInv, Typed, BackupTypeOK
    <2> QED
      BY <2>1, <2>2
  <1>5. BackupTypeOK'
    <2>1. today' \in Dates /\ due' \in BOOLEAN /\ docs' \in [Dates -> 0..MaxDocs]
      BY DEF AInv, Typed, BackupTypeOK
    <2> QED
      BY <1>3, <1>4, <2>1 DEF BackupTypeOK, Holding
  <1>6. Typed'
    BY <1>1, <1>4, <1>5 DEF Typed
  <1> QED
    BY <1>1, <1>2, <1>6

\* What the step does to the archive.
LEMMA MoveArchive ==
    ASSUME AInv, Typed', NEW w \in Runners,
           \A v \in Runners \ {w} : runner'[v] = runner[v] /\ Day(v)' = Day(v),
           \/ UNCHANGED <<manifest, object>>
           \/ runner[w].at \in Holding,
           \A d \in Dates : Done(d) => manifest'[d] = manifest[d] /\ object'[d] = object[d],
           \A d \in Dates : Done(d)' => Done(d) \/ object'[d] = manifest'[d].count,
           runner'[w].at \in Archiving =>
               /\ Day(w)' \in Dates
               /\ manifest'[Day(w)'].status = "running"
               /\ runner'[w].at = "record" => object'[Day(w)'] = runner'[w].copy
    PROVE  DayIsOpen' /\ DoneIsStored'
  <1>1. DoneIsStored'
    BY DEF AInv, DoneIsStored
  <1>2. DayIsOpen'
    <2> SUFFICES ASSUME NEW v \in Runners, runner'[v].at \in Archiving
                 PROVE  /\ Day(v)' \in Dates
                        /\ manifest'[Day(v)'].status = "running"
                        /\ runner'[v].at = "record" => object'[Day(v)'] = runner'[v].copy
      BY DEF DayIsOpen
    <2>1. CASE v = w
      BY <2>1
    <2>2. CASE v # w
      <3>1. runner'[v] = runner[v] /\ Day(v)' = Day(v)
        BY <2>2
      <3>2. UNCHANGED <<manifest, object>>
        BY <2>2, <3>1, OneHolder DEF AInv, Holding, Archiving
      <3> QED
        BY <3>1, <3>2 DEF AInv, DayIsOpen
    <2> QED
      BY <2>1, <2>2
  <1> QED
    BY <1>1, <1>2

\* What the step does to the runs.
LEMMA MoveRuns ==
    ASSUME AInv, NEW w \in Runners, UNCHANGED docs,
           \A v \in Runners \ {w} : runner'[v] = runner[v],
           \A d \in Dates : Done(d) => Done(d)',
           run' \in [Dates -> Runs],
           \A v \in Runners \ {w}, t \in Dates :
               Owns(v, t)' => Owns(v, t) /\ run'[t].owed = run[t].owed,
           \A t \in Dates :
               Owns(w, t)' /\ ~runner'[w].failed =>
                   /\ \A d \in run'[t].owed : d \in runner'[w].days \/ Done(d)'
                   /\ runner'[w].at = "finish" => runner'[w].days = {},
           \A t \in Dates : \A d \in run'[t].owed :
               docs[d] > 0 /\ (run'[t].status = "success" => Done(d)')
    PROVE  OwnerIsOnTrack' /\ OwedIsKnown'
  <1>0. \A t \in Dates : run'[t].owed \subseteq Dates
    BY DEF Runs
  <1>1. OwedIsKnown'
    BY DEF OwedIsKnown
  <1>2. OwnerIsOnTrack'
    <2> SUFFICES ASSUME NEW v \in Runners, NEW t \in Dates, Owns(v, t)', ~runner'[v].failed
                 PROVE  /\ \A d \in run'[t].owed : d \in runner'[v].days \/ Done(d)'
                        /\ runner'[v].at = "finish" => runner'[v].days = {}
      BY DEF OwnerIsOnTrack
    <2>1. CASE v = w
      BY <2>1
    <2>2. CASE v # w
      BY <1>0, <2>2 DEF AInv, OwnerIsOnTrack
    <2> QED
      BY <2>1, <2>2
  <1> QED
    BY <1>1, <1>2

\* A step that leaves the rows of the runs alone.
LEMMA WorkRuns ==
    ASSUME AInv, NEW w \in Runners, UNCHANGED <<docs, run>>,
           \A v \in Runners \ {w} : runner'[v] = runner[v],
           \A d \in Dates : Done(d) => Done(d)',
           runner'[w].for = "run" /\ ~runner'[w].failed =>
               /\ runner[w].for = "run" /\ runner'[w].key = runner[w].key
               /\ ~runner[w].failed
               /\ \A d \in Dates : d \in runner[w].days =>
                      d \in runner'[w].days \/ Done(d)' \/ docs[d] = 0
               /\ runner'[w].at = "finish" => runner'[w].days = {}
    PROVE  OwnerIsOnTrack' /\ OwedIsKnown'
  <1>0. /\ run' \in [Dates -> Runs] /\ \A t \in Dates : run[t].owed \subseteq Dates
        /\ \A d \in Dates : docs[d] \in Nat
    BY BackupAssumption DEF AInv, Typed, BackupTypeOK, Runs
  <1>1. \A v \in Runners \ {w}, t \in Dates : Owns(v, t)' => Owns(v, t)
    BY DEF Owns
  <1>2. ASSUME NEW t \in Dates, Owns(w, t)', ~runner'[w].failed
        PROVE  /\ \A d \in run'[t].owed : d \in runner'[w].days \/ Done(d)'
               /\ runner'[w].at = "finish" => runner'[w].days = {}
    <2>1. Owns(w, t) /\ ~runner[w].failed
      BY <1>2 DEF Owns
    <2>2. \A d \in run[t].owed : (d \in runner[w].days \/ Done(d)) /\ docs[d] > 0
      BY <2>1 DEF AInv, OwnerIsOnTrack, OwedIsKnown
    <2> QED
      BY <1>0, <1>2, <2>2 DEF Owns
  <1>3. \A t \in Dates : \A d \in run'[t].owed :
           docs[d] > 0 /\ (run'[t].status = "success" => Done(d)')
    BY <1>0 DEF AInv, OwedIsKnown
  <1> QED
    BY <1>0, <1>1, <1>2, <1>3, MoveRuns

LEMMA Facts ==
    ASSUME AInv, NEW w \in Runners
    PROVE  /\ runner[w] \in Locals
           /\ today \in Dates /\ today \in Nat /\ Window(today) \subseteq Dates
           /\ runner[w].days \subseteq 1..today
           /\ docs \in [Dates -> 0..MaxDocs] /\ object \in [Dates -> 0..MaxDocs]
           /\ manifest \in [Dates -> [status : {"none", "running", "failed", "success"},
                                      count : 0..MaxDocs]]
           /\ run \in [Dates -> Runs] /\ request \in [Requests -> Asked]
           /\ faults \in 0..MaxFaults /\ (Fault => faults' \in 0..MaxFaults)
           /\ runner[w].at \in Holding <=> lock = w
           /\ runner[w].at \in {"upload", "record"} => runner[w].copy \in 1..MaxDocs
           /\ runner[w].for = "request" => runner[w].key \in Requests
           /\ runner[w].at = "select" => runner[w].for = "request"
           /\ w # NoRunner
  <1>1. w # NoRunner
    BY BackupAssumption DEF Runners
  <1>2. today \in Dates /\ today \in Nat
    BY BackupAssumption DEF AInv, Typed, BackupTypeOK, Dates
  <1>3. faults \in 0..MaxFaults /\ (Fault => faults' \in 0..MaxFaults)
    BY BackupAssumption DEF AInv, Typed, BackupTypeOK, Fault
  <1> QED
    BY <1>1, <1>2, <1>3, Constants DEF AInv, Typed, BackupTypeOK, Holding

\* A step that touches neither the archive nor the runs.
LEMMA QuietMove ==
    ASSUME AInv, NEW w \in Runners, NEW l \in Locals,
           runner' = [runner EXCEPT ![w] = l],
           UNCHANGED <<today, due, docs, manifest, object, run>>,
           request' \in [Requests -> Asked], faults' \in 0..MaxFaults,
           l.days \subseteq 1..today, l.at \notin Archiving,
           l.for = "request" => l.key \in Requests,
           l.at = "select" => l.for = "request",
           \/ lock' = lock /\ (l.at \in Holding <=> runner[w].at \in Holding)
           \/ lock = NoRunner /\ lock' = w /\ l.at \in Holding
           \/ lock = w /\ lock' = NoRunner /\ l.at \notin Holding,
           l.for = "run" /\ ~l.failed =>
               /\ runner[w].for = "run" /\ l.key = runner[w].key /\ ~runner[w].failed
               /\ l.days = runner[w].days
               /\ l.at = "finish" => l.days = {}
    PROVE  AInv'
  <1>1. l.at \notin {"upload", "record"}
    BY DEF Archiving
  <1>2. /\ Typed' /\ runner'[w] = l
        /\ \A v \in Runners \ {w} : runner'[v] = runner[v] /\ Day(v)' = Day(v)
    BY <1>1, Facts, MoveTyped
  <1>3. \A d \in Dates : Done(d)' <=> Done(d)
    BY DEF Done
  <1>4. DayIsOpen' /\ DoneIsStored'
    BY <1>2, <1>3, MoveArchive
  <1>5. OwnerIsOnTrack' /\ OwedIsKnown'
    BY <1>2, <1>3, WorkRuns
  <1> QED
    BY <1>2, <1>4, <1>5 DEF AInv

LEMMA ClaimRequestKeeps ==
    ASSUME AInv, NEW w \in Runners, NEW q \in Requests, ClaimRequest(w, q)
    PROVE  AInv'
  <1> DEFINE l == [AtEase EXCEPT !.at = "select", !.for = "request", !.key = q]
  <1>1. /\ l \in Locals /\ l.at = "select" /\ l.for = "request" /\ l.key = q /\ l.days = {}
    <2>1. q \in Nat
      BY BackupAssumption DEF Requests
    <2> QED
      BY <2>1, AtEaseTyped DEF Locals
  <1>2. request' \in [Requests -> Asked] /\ faults' \in 0..MaxFaults
    BY Facts DEF ClaimRequest, Asked
  <1>3. runner' = [runner EXCEPT ![w] = l] /\ lock' = lock /\ runner[w].at = "idle"
        /\ UNCHANGED <<today, due, docs, manifest, object, run>>
    BY DEF ClaimRequest
  <1> HIDE DEF l
  <1> QED
    BY <1>1, <1>2, <1>3, Facts, QuietMove DEF Holding, Archiving

\* A process ends what it did, or does not find anything to do.
LEMMA RestKeeps ==
    ASSUME AInv, NEW w \in Runners, runner' = [runner EXCEPT ![w] = AtEase],
           UNCHANGED <<today, due, docs, manifest, object, run>>,
           lock' = IF lock = w THEN NoRunner ELSE lock,
           request' \in [Requests -> Asked], faults' \in 0..MaxFaults
    PROVE  AInv'
  <1>1. \/ lock' = lock /\ runner[w].at \notin Holding
        \/ lock = w /\ lock' = NoRunner
    BY Facts
  <1> QED
    BY <1>1, AtEaseTyped, QuietMove DEF Holding, Archiving

LEMMA SelectKeeps ==
    ASSUME AInv, NEW w \in Runners, SelectDays(w)
    PROVE  AInv'
  <1> DEFINE q == runner[w].key
  <1>0. /\ runner[w].at = "select" /\ runner[w].for = "request" /\ q \in Requests
        /\ UNCHANGED <<today, due, docs, manifest, object, run, lock, faults>>
        /\ lock # w
    BY Facts DEF SelectDays, Holding
  <1>1. CASE Chosen(q) = {}
    <2>1. request' = [request EXCEPT ![q].status = "success"]
          /\ runner' = [runner EXCEPT ![w] = AtEase]
      BY <1>1 DEF SelectDays
    <2>2. request' \in [Requests -> Asked]
      BY <1>0, <2>1, Facts DEF Asked
    <2> QED
      BY <1>0, <2>1, <2>2, Facts, RestKeeps
  <1>2. CASE Chosen(q) # {}
    <2> DEFINE l == [runner[w] EXCEPT !.at = "lock", !.days = Chosen(q)]
    <2>1. request' = [request EXCEPT ![q].stale = @ /\ request[q].status # "running"]
          /\ runner' = [runner EXCEPT ![w].at = "lock", ![w].days = Chosen(q)]
      BY <1>2 DEF SelectDays
    <2>2. Chosen(q) \subseteq Window(today) /\ Chosen(q) \subseteq Dates
      <3>1. Window(LastRunDate) \subseteq Window(today)
        BY Facts DEF Window, LastRunDate
      <3> QED
        BY <3>1, Facts DEF Chosen
    <2>3. request' \in [Requests -> Asked]
      <3>1. request' = [request EXCEPT ![q] =
                          [request[q] EXCEPT !.stale = request'[q].stale]]
        BY <1>0, <2>1, Facts DEF Asked
      <3>2. request'[q].stale \in BOOLEAN
        BY <1>0, <2>1, Facts DEF Asked
      <3> QED
        BY <1>0, <3>1, <3>2, Facts DEF Asked
    <2>4. runner' = [runner EXCEPT ![w] = l]
      BY <2>1, Facts DEF AInv, Typed, Locals
    <2>5. l \in Locals /\ l.at = "lock" /\ l.days = Chosen(q) /\ l.for = "request" /\ l.key = q
      BY <1>0, <2>2, Facts DEF Locals
    <2> HIDE DEF l
    <2> QED
      BY <1>0, <2>2, <2>3, <2>4, <2>5, Facts, QuietMove DEF Holding, Archiving, Window
  <1> QED
    BY <1>1, <1>2

LEMMA RunByHandKeeps ==
    ASSUME AInv, NEW w \in Runners, RunByHand(w)
    PROVE  AInv'
  <1> DEFINE l == [AtEase EXCEPT !.at = "lock", !.days = Window(today)]
  <1>1. l \in Locals /\ l.at = "lock" /\ l.for = "none" /\ l.days = Window(today)
    BY AtEaseTyped, Facts DEF Locals
  <1>2. runner' = [runner EXCEPT ![w] = l] /\ runner[w].at = "idle"
        /\ UNCHANGED <<today, due, docs, manifest, object, run, request, lock, faults>>
    BY DEF RunByHand
  <1> HIDE DEF l
  <1> QED
    BY <1>1, <1>2, Facts, QuietMove DEF Holding, Archiving, Window

LEMMA LockKeeps ==
    ASSUME AInv, NEW w \in Runners, TakeLock(w) \/ ReleaseLock(w)
    PROVE  AInv'
  <1>1. CASE TakeLock(w)
    <2> DEFINE l == [runner[w] EXCEPT !.at = "day"]
    <2>1. /\ l \in Locals /\ l.at = "day" /\ l.for = runner[w].for /\ l.key = runner[w].key
          /\ l.days = runner[w].days /\ l.failed = runner[w].failed
      BY Facts DEF Locals
    <2>2. runner' = [runner EXCEPT ![w] = l] /\ lock = NoRunner /\ lock' = w
          /\ runner[w].at = "lock"
          /\ UNCHANGED <<today, due, docs, manifest, object, run, request, faults>>
      BY <1>1 DEF TakeLock
    <2> HIDE DEF l
    <2> QED
      BY <2>1, <2>2, Facts, QuietMove DEF Holding, Archiving
  <1>2. CASE ReleaseLock(w)
    <2> DEFINE l == [runner[w] EXCEPT !.at = "finish"]
    <2>1. /\ l \in Locals /\ l.at = "finish" /\ l.for = runner[w].for /\ l.key = runner[w].key
          /\ l.days = runner[w].days /\ l.failed = runner[w].failed
      BY Facts DEF Locals
    <2>2. runner' = [runner EXCEPT ![w] = l] /\ lock' = NoRunner
          /\ runner[w].at = "day" /\ runner[w].days = {}
          /\ UNCHANGED <<today, due, docs, manifest, object, run, request, faults>>
      BY <1>2 DEF ReleaseLock
    <2>3. lock = w
      BY <2>2, Facts DEF Holding
    <2> HIDE DEF l
    <2> QED
      BY <2>1, <2>2, <2>3, Facts, QuietMove DEF Holding, Archiving
  <1> QED
    BY <1>1, <1>2

LEMMA GiveUpKeeps ==
    ASSUME AInv, NEW w \in Runners, GiveUp(w)
    PROVE  AInv'
  <1> DEFINE l == [runner[w] EXCEPT !.at = "finish", !.days = {}, !.failed = TRUE]
  <1>1. /\ l \in Locals /\ l.at = "finish" /\ l.for = runner[w].for /\ l.key = runner[w].key
        /\ l.days = {} /\ l.failed = TRUE
    BY Facts DEF Locals
  <1>2. runner' = [runner EXCEPT ![w] = l] /\ faults' \in 0..MaxFaults
        /\ UNCHANGED <<today, due, docs, manifest, object, run, request>>
        /\ lock' = IF lock = w THEN NoRunner ELSE lock
    <2>1. faults' \in 0..MaxFaults
      BY Facts DEF GiveUp
    <2>2. runner' = [runner EXCEPT ![w] = l]
      BY DEF GiveUp
    <2> QED
      BY <2>1, <2>2 DEF GiveUp
  <1> HIDE DEF l
  <1>3. \/ lock' = lock /\ runner[w].at \notin Holding
        \/ lock = w /\ lock' = NoRunner
    BY <1>2, Facts
  <1> QED
    BY <1>1, <1>2, <1>3, Facts, QuietMove DEF Holding, Archiving

LEMMA FinishOthersKeeps ==
    ASSUME AInv, NEW w \in Runners, FinishRequest(w) \/ FinishByHand(w)
    PROVE  AInv'
  <1>1. /\ runner' = [runner EXCEPT ![w] = AtEase] /\ runner[w].at = "finish"
        /\ UNCHANGED <<today, due, docs, manifest, object, run, lock, faults>>
    BY DEF FinishRequest, FinishByHand
  <1>2. lock # w
    BY <1>1, Facts DEF Holding
  <1>3. request' \in [Requests -> Asked]
    <2>1. CASE FinishByHand(w)
      BY <2>1, Facts DEF FinishByHand
    <2>2. CASE FinishRequest(w)
      <3>1. runner[w].key \in Requests
        BY <2>2, Facts DEF FinishRequest
      <3>2. Verdict(w) \in {"failed", "success"}
        BY DEF Verdict
      <3>3. request' = [request EXCEPT ![runner[w].key].status = Verdict(w),
                                       ![runner[w].key].stale = FALSE]
        BY <2>2 DEF FinishRequest
      <3>4. request \in [Requests -> Asked]
        BY Facts
      <3> QED
        BY <3>1, <3>2, <3>3, <3>4, AskedTyped
    <2> QED
      BY <2>1, <2>2
  <1> QED
    BY <1>1, <1>2, <1>3, Facts, RestKeeps

-----------------------------------------------------------------------------
(* Work on a day. *)

\* What is done is not touched again.
DoneStays ==
    \A d \in Dates : Done(d) => manifest'[d] = manifest[d] /\ object'[d] = object[d]

\* The holder of the lock works on one day: others see the archive change only there,
\* and only while the day is not done.
LEMMA DayMove ==
    ASSUME AInv, NEW w \in Runners, NEW l \in Locals,
           runner[w].at \in Holding, l.at \in Holding,
           runner' = [runner EXCEPT ![w] = l],
           UNCHANGED <<today, due, docs, run, lock>>,
           request' \in [Requests -> Asked], faults' \in 0..MaxFaults,
           l.days \subseteq runner[w].days,
           l.at \in {"upload", "record"} => l.copy \in 1..MaxDocs,
           l.for = runner[w].for, l.key = runner[w].key,
           manifest' \in [Dates -> [status : {"none", "running", "failed", "success"},
                                    count : 0..MaxDocs]],
           object' \in [Dates -> 0..MaxDocs],
           \A d \in Dates : Done(d) => manifest'[d] = manifest[d] /\ object'[d] = object[d],
           \A d \in Dates : Done(d)' => Done(d) \/ object'[d] = manifest'[d].count,
           l.at \in Archiving =>
               /\ Day(w)' \in Dates
               /\ manifest'[Day(w)'].status = "running"
               /\ l.at = "record" => object'[Day(w)'] = l.copy,
           ~l.failed =>
               /\ ~runner[w].failed
               /\ \A d \in Dates : d \in runner[w].days => d \in l.days \/ Done(d)' \/ docs[d] = 0
    PROVE  AInv' /\ DoneStays
  <1>1. l.days \subseteq 1..today /\ l.at \notin {"select", "finish"}
    BY Facts DEF Holding
  <1>2. l.for = "request" => l.key \in Requests
    BY Facts
  <1>3. /\ Typed' /\ runner'[w] = l
        /\ \A v \in Runners \ {w} : runner'[v] = runner[v] /\ Day(v)' = Day(v)
    BY <1>1, <1>2, Facts, MoveTyped
  <1>4. \A d \in Dates : Done(d) => Done(d)'
    BY DEF Done
  <1>5. DayIsOpen' /\ DoneIsStored'
    BY <1>3, MoveArchive
  <1>6. OwnerIsOnTrack' /\ OwedIsKnown'
    BY <1>1, <1>3, <1>4, WorkRuns
  <1> QED
    BY <1>3, <1>5, <1>6 DEF AInv, DoneStays

\* The list gets shorter by the day.
LEMMA NextDayTyped ==
    ASSUME AInv, NEW w \in Runners
    PROVE  /\ NextDay(w) \in Locals /\ NextDay(w).at = "day"
           /\ NextDay(w).days = runner[w].days \ {Day(w)}
           /\ NextDay(w).for = runner[w].for /\ NextDay(w).key = runner[w].key
           /\ NextDay(w).failed = runner[w].failed
  BY Facts, Constants DEF NextDay, Locals

LEMMA RenewedTyped ==
    ASSUME AInv, NEW w \in Runners
    PROVE  Renewed(w) \in [Requests -> Asked]
  <1>1. \A q \in Requests : [request[q] EXCEPT !.stale = FALSE] \in Asked /\ request[q] \in Asked
    BY Facts DEF Asked
  <1> QED
    BY <1>1 DEF Renewed

LEMMA StartDayKeeps ==
    ASSUME AInv, NEW w \in Runners, StartDay(w)
    PROVE  AInv' /\ DoneStays
  <1>0. /\ runner[w].at = "day" /\ request' \in [Requests -> Asked]
        /\ UNCHANGED <<today, due, docs, object, run, lock, faults>>
        /\ Day(w) \in Dates
    BY RenewedTyped, DayIsListed, Facts DEF StartDay, Locals
  <1>1. CASE IsArchived(Day(w))
    <2> DEFINE l == [runner[w] EXCEPT !.days = runner[w].days \ {Day(w)}]
    <2>1. /\ l \in Locals /\ l.at = "day" /\ l.for = runner[w].for /\ l.key = runner[w].key
          /\ l.days = runner[w].days \ {Day(w)} /\ l.failed = runner[w].failed
      BY <1>0, Facts DEF Locals
    <2>2. runner' = [runner EXCEPT ![w] = l] /\ manifest' = manifest
      BY <1>1 DEF StartDay
    <2>3. \A d \in Dates : d = Day(w) => Done(d)' \/ docs[d] = 0
      BY <1>0, <1>1, <2>2 DEF IsArchived, Done
    <2>4. \A d \in Dates : Done(d)' <=> Done(d)
      BY <1>0, <2>2 DEF Done
    <2> HIDE DEF l
    <2> QED
      BY <1>0, <2>1, <2>2, <2>3, <2>4, Facts, DayMove DEF Holding, Archiving
  <1>2. CASE ~IsArchived(Day(w))
    <2> DEFINE l == [runner[w] EXCEPT !.at = "read"]
    <2>1. /\ l \in Locals /\ l.at = "read" /\ l.for = runner[w].for /\ l.key = runner[w].key
          /\ l.days = runner[w].days /\ l.failed = runner[w].failed
      BY <1>0, Facts DEF Locals
    <2>2. /\ runner' = [runner EXCEPT ![w] = l]
          /\ manifest' = [manifest EXCEPT ![Day(w)].status = "running"]
      BY <1>2 DEF StartDay
    <2>3. Day(w)' = Day(w)
      BY <2>1, <2>2, SameDay DEF AInv, Typed
    <2>4. /\ manifest' \in [Dates -> [status : {"none", "running", "failed", "success"},
                                      count : 0..MaxDocs]]
          /\ \A d \in Dates \ {Day(w)} : manifest'[d] = manifest[d]
          /\ Day(w) \in Dates => manifest'[Day(w)].status = "running"
      <3> HIDE DEF l
      <3> QED
        BY <2>2, Facts
    <2>5. \A d \in Dates : d = Day(w) => ~Done(d) /\ ~Done(d)'
      BY <1>2, <2>3, <2>4 DEF IsArchived, Done
    <2>6. \A d \in Dates : d # Day(w) => (Done(d)' <=> Done(d))
      BY <1>0, <2>4 DEF Done
    <2> HIDE DEF l
    <2>7. /\ \A d \in Dates : Done(d) => manifest'[d] = manifest[d] /\ object'[d] = object[d]
          /\ \A d \in Dates : Done(d)' => Done(d) \/ object'[d] = manifest'[d].count
          /\ \A d \in Dates : d \in runner[w].days => d \in l.days \/ Done(d)' \/ docs[d] = 0
      BY <1>0, <2>1, <2>4, <2>5, <2>6
    <2>8. l.at \in Archiving =>
             /\ Day(w)' \in Dates
             /\ manifest'[Day(w)'].status = "running"
             /\ l.at = "record" => object'[Day(w)'] = l.copy
      BY <1>0, <2>1, <2>3, <2>4
    <2>9. object' \in [Dates -> 0..MaxDocs] /\ faults' \in 0..MaxFaults
      BY <1>0, Facts
    <2> QED
      BY <1>0, <2>1, <2>2, <2>4, <2>7, <2>8, <2>9, DayMove DEF Holding
  <1> QED
    BY <1>1, <1>2

LEMMA ReadDayKeeps ==
    ASSUME AInv, NEW w \in Runners, ReadDay(w)
    PROVE  AInv' /\ DoneStays
  <1>0. /\ runner[w].at = "read"
        /\ UNCHANGED <<today, due, docs, object, run, request, lock, faults>>
        /\ object' \in [Dates -> 0..MaxDocs] /\ faults' \in 0..MaxFaults
        /\ request' \in [Requests -> Asked]
    BY Facts DEF ReadDay
  <1>1. Day(w) \in Dates /\ manifest[Day(w)].status = "running"
    BY <1>0 DEF AInv, DayIsOpen, Archiving
  <1>2. CASE docs[Day(w)] = 0
    <2> DEFINE l == NextDay(w)
    <2>1. /\ runner' = [runner EXCEPT ![w] = l]
          /\ manifest' = [manifest EXCEPT ![Day(w)] = [status |-> "success", count |-> 0]]
      BY <1>2 DEF ReadDay
    <2>2. /\ manifest' \in [Dates -> [status : {"none", "running", "failed", "success"},
                                      count : 0..MaxDocs]]
          /\ \A d \in Dates \ {Day(w)} : manifest'[d] = manifest[d]
          /\ Day(w) \in Dates => manifest'[Day(w)].count = 0
      <3>1. [status |-> "success", count |-> 0] \in
               [status : {"none", "running", "failed", "success"}, count : 0..MaxDocs]
        BY Constants
      <3> QED
        BY <2>1, <3>1, Facts
    <2>3. \A d \in Dates : d = Day(w) => ~Done(d) /\ ~Done(d)' /\ docs[d] = 0
      BY <1>1, <1>2, <2>2 DEF Done
    <2>4. \A d \in Dates : d # Day(w) => (Done(d)' <=> Done(d))
      BY <1>0, <2>2 DEF Done
    <2>5. /\ l \in Locals /\ l.at = "day" /\ l.days = runner[w].days \ {Day(w)}
          /\ l.for = runner[w].for /\ l.key = runner[w].key /\ l.failed = runner[w].failed
      BY NextDayTyped
    <2> HIDE DEF l
    <2>6. DoneIsStored
      BY DEF AInv
    <2>7. /\ \A d \in Dates : Done(d) => manifest'[d] = manifest[d] /\ object'[d] = object[d]
          /\ \A d \in Dates : Done(d)' => Done(d) \/ object'[d] = manifest'[d].count
          /\ \A d \in Dates : d \in runner[w].days => d \in l.days \/ Done(d)' \/ docs[d] = 0
      BY <1>0, <2>2, <2>3, <2>4, <2>5
    <2> QED
      BY <1>0, <2>1, <2>2, <2>5, <2>7, DayMove DEF Holding, Archiving
  <1>3. CASE docs[Day(w)] # 0
    <2> DEFINE n == docs[Day(w)]
               l == [runner[w] EXCEPT !.at = "upload", !.copy = n]
    <2>1. /\ runner' = [runner EXCEPT ![w].at = "upload", ![w].copy = n]
          /\ manifest' = manifest
      BY <1>3 DEF ReadDay
    <2>2. runner' = [runner EXCEPT ![w] = l]
      BY <2>1, Facts DEF AInv, Typed, Locals
    <2>3. n \in 1..MaxDocs /\ n \in 0..MaxDocs
      BY <1>1, <1>3, Facts, BackupAssumption
    <2> HIDE DEF n
    <2>4. /\ l \in Locals /\ l.at = "upload" /\ l.for = runner[w].for /\ l.key = runner[w].key
          /\ l.days = runner[w].days /\ l.failed = runner[w].failed /\ l.copy = n
      <3>1. runner[w] \in Locals
        BY Facts
      <3> QED
        BY <2>3, <3>1 DEF Locals
    <2> HIDE DEF l
    <2>5. Day(w)' = Day(w)
      BY <2>2, <2>4, SameDay DEF AInv, Typed
    <2>6. \A d \in Dates : Done(d)' <=> Done(d)
      BY <2>1 DEF Done
    <2>7. manifest' \in [Dates -> [status : {"none", "running", "failed", "success"},
                                   count : 0..MaxDocs]]
      BY <2>1, Facts
    <2>8. /\ \A d \in Dates : Done(d) => manifest'[d] = manifest[d] /\ object'[d] = object[d]
          /\ \A d \in Dates : Done(d)' => Done(d) \/ object'[d] = manifest'[d].count
      BY <1>0, <2>1, <2>6
    <2>9. Day(w)' \in Dates /\ manifest'[Day(w)'].status = "running"
      BY <1>1, <2>1, <2>5
    <2> QED
      BY <1>0, <2>2, <2>3, <2>4, <2>7, <2>8, <2>9, DayMove DEF Holding
  <1> QED
    BY <1>2, <1>3

LEMMA UploadKeeps ==
    ASSUME AInv, NEW w \in Runners, Upload(w)
    PROVE  AInv' /\ DoneStays
  <1> DEFINE l == [runner[w] EXCEPT !.at = "record"]
  <1>0. /\ runner[w].at = "upload"
        /\ UNCHANGED <<today, due, docs, manifest, run, request, lock, faults>>
        /\ request' \in [Requests -> Asked] /\ faults' \in 0..MaxFaults
        /\ manifest' \in [Dates -> [status : {"none", "running", "failed", "success"},
                                    count : 0..MaxDocs]]
    BY Facts DEF Upload
  <1>1. Day(w) \in Dates /\ manifest[Day(w)].status = "running"
    BY <1>0 DEF AInv, DayIsOpen, Archiving
  <1>2. runner[w].copy \in 1..MaxDocs /\ runner[w].copy \in 0..MaxDocs
    BY <1>0, Facts, BackupAssumption
  <1>3. /\ runner' = [runner EXCEPT ![w] = l]
        /\ object' = [object EXCEPT ![Day(w)] = runner[w].copy]
    BY DEF Upload
  <1>4. /\ l \in Locals /\ l.at = "record" /\ l.for = runner[w].for /\ l.key = runner[w].key
        /\ l.days = runner[w].days /\ l.failed = runner[w].failed /\ l.copy = runner[w].copy
    BY Facts DEF Locals
  <1> HIDE DEF l
  <1>5. Day(w)' = Day(w)
    BY <1>3, <1>4, SameDay DEF AInv, Typed
  <1>6. /\ object' \in [Dates -> 0..MaxDocs] /\ object'[Day(w)] = runner[w].copy
        /\ \A d \in Dates \ {Day(w)} : object'[d] = object[d]
    BY <1>1, <1>2, <1>3, Facts
  <1>7. \A d \in Dates : (Done(d)' <=> Done(d)) /\ (Done(d) => d # Day(w))
    BY <1>0, <1>1 DEF Done
  <1>8. /\ \A d \in Dates : Done(d) => manifest'[d] = manifest[d] /\ object'[d] = object[d]
        /\ \A d \in Dates : Done(d)' => Done(d) \/ object'[d] = manifest'[d].count
    BY <1>0, <1>6, <1>7
  <1> QED
    BY <1>0, <1>1, <1>2, <1>3, <1>4, <1>5, <1>6, <1>8, DayMove DEF Holding

LEMMA RecordDayKeeps ==
    ASSUME AInv, NEW w \in Runners, RecordDay(w)
    PROVE  AInv' /\ DoneStays
  <1> DEFINE l == NextDay(w)
             n == runner[w].copy
  <1>0. /\ runner[w].at = "record"
        /\ UNCHANGED <<today, due, docs, object, run, request, lock, faults>>
        /\ object' \in [Dates -> 0..MaxDocs] /\ faults' \in 0..MaxFaults
        /\ request' \in [Requests -> Asked]
    BY Facts DEF RecordDay
  <1>1. Day(w) \in Dates /\ manifest[Day(w)].status = "running" /\ object[Day(w)] = n
    BY <1>0 DEF AInv, DayIsOpen, Archiving
  <1>2. n \in 1..MaxDocs /\ n \in 0..MaxDocs
    BY <1>0, Facts, BackupAssumption
  <1>3. /\ runner' = [runner EXCEPT ![w] = l]
        /\ manifest' = [manifest EXCEPT ![Day(w)] = [status |-> "success", count |-> n]]
    BY DEF RecordDay
  <1>4. /\ l \in Locals /\ l.at = "day" /\ l.days = runner[w].days \ {Day(w)}
        /\ l.for = runner[w].for /\ l.key = runner[w].key /\ l.failed = runner[w].failed
    BY NextDayTyped
  <1> HIDE DEF l, n
  <1>5. /\ manifest' \in [Dates -> [status : {"none", "running", "failed", "success"},
                                    count : 0..MaxDocs]]
        /\ \A d \in Dates \ {Day(w)} : manifest'[d] = manifest[d]
        /\ manifest'[Day(w)].count = n /\ manifest'[Day(w)].status = "success"
    <2>1. [status |-> "success", count |-> n] \in
             [status : {"none", "running", "failed", "success"}, count : 0..MaxDocs]
      BY <1>2
    <2> QED
      BY <1>1, <1>3, <2>1, Facts
  <1>6. /\ \A d \in Dates : d = Day(w) => ~Done(d) /\ Done(d)' /\ object'[d] = manifest'[d].count
        /\ \A d \in Dates : d # Day(w) => (Done(d)' <=> Done(d))
    BY <1>0, <1>1, <1>2, <1>5 DEF Done
  <1>7. /\ \A d \in Dates : Done(d) => manifest'[d] = manifest[d] /\ object'[d] = object[d]
        /\ \A d \in Dates : Done(d)' => Done(d) \/ object'[d] = manifest'[d].count
        /\ \A d \in Dates : d \in runner[w].days => d \in l.days \/ Done(d)' \/ docs[d] = 0
    BY <1>0, <1>4, <1>5, <1>6
  <1> QED
    BY <1>0, <1>3, <1>4, <1>5, <1>7, DayMove DEF Holding, Archiving

LEMMA DayFailsKeeps ==
    ASSUME AInv, NEW w \in Runners, DayFails(w)
    PROVE  AInv' /\ DoneStays
  <1> DEFINE l == [NextDay(w) EXCEPT !.failed = TRUE]
  <1>0. /\ runner[w].at \in Holding /\ Day(w) \in Dates
        /\ UNCHANGED <<today, due, docs, run, request, lock>>
        /\ request' \in [Requests -> Asked] /\ faults' \in 0..MaxFaults
    BY Facts, DayIsListed DEF DayFails, Holding, Locals
  <1>1. PICK marked \in BOOLEAN, arrived \in BOOLEAN :
           /\ marked => runner[w].at \in {"read", "upload"}
           /\ arrived => runner[w].at = "upload"
           /\ manifest' = IF marked THEN [manifest EXCEPT ![Day(w)].status = "failed"] ELSE manifest
           /\ object' = IF arrived THEN [object EXCEPT ![Day(w)] = runner[w].copy] ELSE object
    BY DEF DayFails
  <1>2. marked \/ arrived => manifest[Day(w)].status = "running"
    BY <1>1 DEF AInv, DayIsOpen, Archiving
  <1>3. runner' = [runner EXCEPT ![w] = l]
    BY DEF DayFails
  <1>4. /\ l \in Locals /\ l.at = "day" /\ l.days = runner[w].days \ {Day(w)}
        /\ l.for = runner[w].for /\ l.key = runner[w].key /\ l.failed = TRUE
    BY NextDayTyped DEF Locals
  <1> HIDE DEF l
  <1>5. /\ manifest' \in [Dates -> [status : {"none", "running", "failed", "success"},
                                    count : 0..MaxDocs]]
        /\ \A d \in Dates \ {Day(w)} : manifest'[d] = manifest[d]
        /\ \/ manifest'[Day(w)] = manifest[Day(w)]
           \/ marked /\ manifest'[Day(w)].status = "failed"
    BY <1>0, <1>1, Facts
  <1>6. /\ object' \in [Dates -> 0..MaxDocs]
        /\ \A d \in Dates \ {Day(w)} : object'[d] = object[d]
        /\ arrived \/ object'[Day(w)] = object[Day(w)]
    <2>1. arrived => runner[w].copy \in 0..MaxDocs
      BY <1>1, Facts DEF Locals
    <2> QED
      BY <1>0, <1>1, <2>1, Facts
  <1>7. \A d \in Dates : Done(d) => manifest'[d] = manifest[d] /\ object'[d] = object[d]
    BY <1>2, <1>5, <1>6 DEF Done
  <1>8. \A d \in Dates : Done(d)' => Done(d)
    BY <1>5 DEF Done
  <1> QED
    BY <1>0, <1>3, <1>4, <1>5, <1>6, <1>7, <1>8, DayMove DEF Holding, Archiving

LEMMA AnswerIsLostKeeps ==
    ASSUME AInv, NEW w \in Runners, AnswerIsLost(w)
    PROVE  AInv' /\ DoneStays
  <1> DEFINE l == [NextDay(w) EXCEPT !.failed = TRUE]
             n == IF runner[w].at = "record" THEN runner[w].copy ELSE 0
  <1>0. /\ runner[w].at \in {"read", "record"}
        /\ UNCHANGED <<today, due, docs, object, run, request, lock>>
        /\ object' \in [Dates -> 0..MaxDocs] /\ faults' \in 0..MaxFaults
        /\ request' \in [Requests -> Asked]
    BY Facts DEF AnswerIsLost
  <1>1. /\ Day(w) \in Dates /\ manifest[Day(w)].status = "running"
        /\ n = 0 \/ object[Day(w)] = n
    BY <1>0 DEF AInv, DayIsOpen, Archiving
  <1>2. n \in 0..MaxDocs
    BY <1>0, Facts, BackupAssumption
  <1>3. /\ runner' = [runner EXCEPT ![w] = l]
        /\ manifest' = [manifest EXCEPT ![Day(w)] = [status |-> "success", count |-> n]]
    BY DEF AnswerIsLost
  <1>4. /\ l \in Locals /\ l.at = "day" /\ l.days = runner[w].days \ {Day(w)}
        /\ l.for = runner[w].for /\ l.key = runner[w].key /\ l.failed = TRUE
    BY NextDayTyped DEF Locals
  <1> HIDE DEF l, n
  <1>5. /\ manifest' \in [Dates -> [status : {"none", "running", "failed", "success"},
                                    count : 0..MaxDocs]]
        /\ \A d \in Dates \ {Day(w)} : manifest'[d] = manifest[d]
        /\ manifest'[Day(w)].count = n
    <2>1. [status |-> "success", count |-> n] \in
             [status : {"none", "running", "failed", "success"}, count : 0..MaxDocs]
      BY <1>2
    <2> QED
      BY <1>1, <1>3, <2>1, Facts
  <1>6. /\ \A d \in Dates : d = Day(w) => ~Done(d) /\ (Done(d)' => object'[d] = manifest'[d].count)
        /\ \A d \in Dates : d # Day(w) => (Done(d)' <=> Done(d))
    BY <1>0, <1>1, <1>2, <1>5 DEF Done
  <1>7. /\ \A d \in Dates : Done(d) => manifest'[d] = manifest[d] /\ object'[d] = object[d]
        /\ \A d \in Dates : Done(d)' => Done(d) \/ object'[d] = manifest'[d].count
    BY <1>0, <1>5, <1>6
  <1> QED
    BY <1>0, <1>3, <1>4, <1>5, <1>7, DayMove DEF Holding, Archiving

-----------------------------------------------------------------------------
(* Runs. *)

\* A step outside the lock that changes one run, or the owners.
LEMMA RunMove ==
    ASSUME AInv, NEW w \in Runners, NEW l \in Locals,
           runner' = [runner EXCEPT ![w] = l],
           UNCHANGED <<today, due, docs, manifest, object>>,
           request' \in [Requests -> Asked], faults' \in 0..MaxFaults,
           l.days \subseteq 1..today, l.at \in {"idle", "lock"}, l.for # "request",
           lock' = IF lock = w THEN NoRunner ELSE lock,
           run' \in [Dates -> Runs],
           \A v \in Runners \ {w}, t \in Dates :
               run'[t].status = "running" /\ run'[t].owner = v =>
                   /\ run[t].status = "running" /\ run[t].owner = v
                   /\ run'[t].owed = run[t].owed,
           \A t \in Dates : Owns(w, t)' => run'[t].owed \subseteq l.days,
           \A t \in Dates : \A d \in run'[t].owed :
               docs[d] > 0 /\ (run'[t].status = "success" => Done(d))
    PROVE  AInv'
  <1>1. \/ lock' = lock /\ runner[w].at \notin Holding
        \/ lock = w /\ lock' = NoRunner
    BY Facts
  <1>2. l.at \notin Holding /\ l.at \notin Archiving /\ l.at \notin {"select", "finish"}
        /\ l.at \notin {"upload", "record"}
    BY DEF Holding, Archiving
  <1>3. /\ manifest' \in [Dates -> [status : {"none", "running", "failed", "success"},
                                    count : 0..MaxDocs]]
        /\ object' \in [Dates -> 0..MaxDocs]
    BY Facts
  <1>4. /\ Typed' /\ runner'[w] = l
        /\ \A v \in Runners \ {w} : runner'[v] = runner[v] /\ Day(v)' = Day(v)
    BY <1>1, <1>2, <1>3, MoveTyped
  <1>5. \A d \in Dates : Done(d)' <=> Done(d)
    BY DEF Done
  <1>6. DayIsOpen' /\ DoneIsStored'
    BY <1>2, <1>4, <1>5, MoveArchive
  <1>7. \A v \in Runners \ {w}, t \in Dates :
           Owns(v, t)' => Owns(v, t) /\ run'[t].owed = run[t].owed
    BY <1>4 DEF Owns
  <1>8. \A t \in Dates : run'[t].owed \subseteq Dates
    BY DEF Runs
  <1>9. OwnerIsOnTrack' /\ OwedIsKnown'
    BY <1>2, <1>4, <1>5, <1>7, <1>8, MoveRuns
  <1> QED
    BY <1>4, <1>6, <1>9 DEF AInv

LEMMA ClaimRunKeeps ==
    ASSUME AInv, NEW w \in Controls, ClaimRun(w)
    PROVE  AInv'
  <1> DEFINE l == [AtEase EXCEPT !.at = "lock", !.for = "run", !.key = today,
                                 !.days = Window(today)]
             owed == {d \in Window(today) : docs[d] > 0}
             row == [status |-> "running", owner |-> w, stale |-> FALSE, due |-> FALSE,
                     owed |-> owed]
  <1>0. /\ w \in Runners /\ runner[w].at = "idle" /\ today \in Dates
        /\ UNCHANGED <<today, due, docs, manifest, object, request, lock, faults>>
    BY Facts DEF ClaimRun, Runners
  <1>1. /\ l \in Locals /\ l.at = "lock" /\ l.for = "run" /\ l.days = Window(today)
        /\ l.key = today
    BY <1>0, AtEaseTyped, Facts DEF Locals
  <1>2. runner' = [runner EXCEPT ![w] = l] /\ run' = [run EXCEPT ![today] = row]
    BY DEF ClaimRun
  <1>3. owed \subseteq Window(today) /\ owed \subseteq Dates
    BY <1>0, Facts
  <1>4. row \in Runs /\ row.status = "running" /\ row.owner = w /\ row.owed = owed
    BY <1>3 DEF Runs
  <1>5. \A d \in owed : docs[d] > 0
    OBVIOUS
  <1> HIDE DEF l, owed, row
  <1>6. /\ run' \in [Dates -> Runs] /\ run'[today] = row
        /\ \A t \in Dates \ {today} : run'[t] = run[t]
    BY <1>0, <1>2, <1>4, Facts
  <1>7. \A v \in Runners \ {w}, t \in Dates :
           run'[t].status = "running" /\ run'[t].owner = v =>
               /\ run[t].status = "running" /\ run[t].owner = v
               /\ run'[t].owed = run[t].owed
    BY <1>4, <1>6
  <1>8. \A t \in Dates : Owns(w, t)' => run'[t].owed \subseteq l.days
    <2>1. runner'[w] = l
      BY <1>0, <1>2 DEF AInv, Typed
    <2> QED
      BY <1>1, <1>3, <1>4, <1>6, <2>1 DEF Owns
  <1>9. \A t \in Dates : \A d \in run'[t].owed :
           docs[d] > 0 /\ (run'[t].status = "success" => Done(d))
    BY <1>4, <1>5, <1>6 DEF AInv, OwedIsKnown
  <1>10. lock' = IF lock = w THEN NoRunner ELSE lock
    BY <1>0, Facts DEF Holding
  <1>11. request' \in [Requests -> Asked] /\ faults' \in 0..MaxFaults
    BY <1>0, Facts
  <1>12. l.days \subseteq 1..today
    BY <1>1 DEF Window
  <1> QED
    <2>1. l.at \in {"idle", "lock"} /\ l.for # "request"
      BY <1>1
    <2>2. l \in Locals /\ run' \in [Dates -> Runs]
      BY <1>1, <1>6
    <2>3. w \in Runners /\ UNCHANGED <<today, due, docs, manifest, object>>
      BY <1>0
    <2> QED
      BY <1>2, <1>7, <1>8, <1>9, <1>10, <1>11, <1>12, <2>1, <2>2, <2>3, RunMove

LEMMA FinishRunKeeps ==
    ASSUME AInv, NEW w \in Runners, FinishRun(w)
    PROVE  AInv'
  <1> DEFINE t0 == runner[w].key
  <1>0. /\ runner[w].at = "finish" /\ runner[w].for = "run" /\ lock # w
        /\ runner' = [runner EXCEPT ![w] = AtEase]
        /\ UNCHANGED <<today, due, docs, manifest, object, request, lock, faults>>
        /\ request' \in [Requests -> Asked] /\ faults' \in 0..MaxFaults
    BY Facts DEF FinishRun, Holding
  <1>1. run' = IF run[t0].status = "running" /\ run[t0].owner = w
               THEN [run EXCEPT ![t0].status = Verdict(w), ![t0].stale = FALSE] ELSE run
    BY DEF FinishRun
  <1>2. Verdict(w) \in {"failed", "success"} /\ (Verdict(w) = "success" => ~runner[w].failed)
    BY Facts DEF Verdict, Locals
  <1>3. /\ run' \in [Dates -> Runs]
        /\ \A t \in Dates :
              /\ run'[t].owner = run[t].owner /\ run'[t].owed = run[t].owed
              /\ \/ run'[t].status = run[t].status
                 \/ Owns(w, t) /\ run'[t].status = Verdict(w)
    <2>1. CASE t0 \in Dates /\ run[t0].status = "running" /\ run[t0].owner = w
      <3> DEFINE row == [run[t0] EXCEPT !.status = Verdict(w), !.stale = FALSE]
      <3>1. /\ row \in Runs /\ row.status = Verdict(w)
            /\ row.owner = run[t0].owner /\ row.owed = run[t0].owed
        <4>1. run[t0] \in Runs
          BY <2>1, Facts
        <4> QED
          BY <1>2, <4>1 DEF Runs
      <3>2. run' = [run EXCEPT ![t0] = row]
        BY <1>1, <2>1, Facts DEF Runs
      <3>3. Owns(w, t0)
        BY <1>0, <2>1 DEF Owns
      <3> HIDE DEF row
      <3> QED
        BY <2>1, <3>1, <3>2, <3>3, Facts
    <2>2. CASE ~(t0 \in Dates /\ run[t0].status = "running" /\ run[t0].owner = w)
      BY <1>1, <2>2, Facts
    <2> QED
      BY <2>1, <2>2
  <1>4. \A t \in Dates : Owns(w, t) /\ ~runner[w].failed => \A d \in run[t].owed : Done(d)
    BY <1>0 DEF AInv, OwnerIsOnTrack
  <1>5. \A t \in Dates : \A d \in run'[t].owed :
           docs[d] > 0 /\ (run'[t].status = "success" => Done(d))
    BY <1>2, <1>3, <1>4 DEF AInv, OwedIsKnown
  <1>6. \A t \in Dates : ~Owns(w, t)'
    <2>1. runner'[w] = AtEase
      BY <1>0 DEF AInv, Typed
    <2> QED
      BY <2>1, AtEaseTyped DEF Owns
  <1>7. \A v \in Runners \ {w}, t \in Dates :
           run'[t].status = "running" /\ run'[t].owner = v =>
               /\ run[t].status = "running" /\ run[t].owner = v
               /\ run'[t].owed = run[t].owed
    BY <1>2, <1>3
  <1> QED
    BY <1>0, <1>3, <1>5, <1>6, <1>7, AtEaseTyped, RunMove

LEMMA VanishKeeps ==
    ASSUME AInv, NEW w \in Runners, Vanish(w)
    PROVE  AInv'
  <1>0. /\ runner' = [runner EXCEPT ![w] = AtEase]
        /\ UNCHANGED <<today, due, docs, manifest, object, request>>
        /\ request' \in [Requests -> Asked] /\ faults' \in 0..MaxFaults
        /\ lock' = IF lock = w THEN NoRunner ELSE lock
    BY Facts DEF Vanish
  <1>1. run' = [t \in Dates |-> IF run[t].owner = w THEN [run[t] EXCEPT !.owner = NoRunner]
                                                    ELSE run[t]]
    BY DEF Vanish
  <1>2. ASSUME NEW t \in Dates
        PROVE  /\ run[t] \in Runs /\ [run[t] EXCEPT !.owner = NoRunner] \in Runs
               /\ [run[t] EXCEPT !.owner = NoRunner].owner = NoRunner
               /\ [run[t] EXCEPT !.owner = NoRunner].status = run[t].status
               /\ [run[t] EXCEPT !.owner = NoRunner].owed = run[t].owed
    <2>1. run[t] \in Runs
      BY Facts
    <2> QED
      BY <2>1 DEF Runs
  <1>3. /\ run' \in [Dates -> Runs]
        /\ \A t \in Dates : /\ run'[t].status = run[t].status /\ run'[t].owed = run[t].owed
                            /\ run'[t].owner \in {run[t].owner, NoRunner}
    BY <1>1, <1>2
  <1>4. \A v \in Runners : v # NoRunner
    BY Facts
  <1>5. \A t \in Dates : ~Owns(w, t)'
    <2>1. runner'[w] = AtEase
      BY <1>0 DEF AInv, Typed
    <2> QED
      BY <2>1, AtEaseTyped DEF Owns
  <1>6. \A t \in Dates : \A d \in run'[t].owed :
           docs[d] > 0 /\ (run'[t].status = "success" => Done(d))
    BY <1>3 DEF AInv, OwedIsKnown
  <1>7. \A v \in Runners \ {w}, t \in Dates :
           run'[t].status = "running" /\ run'[t].owner = v =>
               /\ run[t].status = "running" /\ run[t].owner = v
               /\ run'[t].owed = run[t].owed
    BY <1>3, <1>4
  <1> QED
    BY <1>0, <1>3, <1>5, <1>6, <1>7, AtEaseTyped, RunMove

LEMMA BackingKeeps ==
    ASSUME AInv, NEW w \in Runners, Backing(w)
    PROVE  AInv'
  BY LockKeeps, StartDayKeeps, ReadDayKeeps, UploadKeeps, RecordDayKeeps, FinishRunKeeps,
     FinishOthersKeeps DEF Backing

LEMMA BackupInductive ==
    ASSUME AInv, [BackupNext]_backupVars
    PROVE  AInv'
  <1>1. Controls \subseteq Runners /\ Operators \subseteq Runners
    BY DEF Runners
  <1>2. ASSUME NEW w \in Controls, Controlling(w)
        PROVE  AInv'
    BY <1>1, <1>2, ClaimRunKeeps, ClaimRequestKeeps, SelectKeeps, BackingKeeps DEF Controlling
  <1>3. ASSUME NEW w \in Operators, RunByHand(w) \/ Backing(w)
        PROVE  AInv'
    BY <1>1, <1>3, RunByHandKeeps, BackingKeeps
  <1>4. ASSUME NEW w \in Runners, DayFails(w) \/ AnswerIsLost(w) \/ GiveUp(w) \/ Vanish(w)
        PROVE  AInv'
    BY <1>4, DayFailsKeeps, AnswerIsLostKeeps, GiveUpKeeps, VanishKeeps
  <1> QED
    BY <1>2, <1>3, <1>4, WorldStep, BackupStutter DEF BackupNext

LEMMA BackupInvariant == BackupSpec => []AInv
  BY BackupInitial, BackupInductive, PTL DEF BackupSpec

\* The processes, rows and lock of the backup are well typed in every state.
THEOREM BackupTypeCorrect == BackupSpec => []BackupTypeOK
  <1>1. AInv => BackupTypeOK
    BY DEF AInv, Typed
  <1> QED
    BY <1>1, BackupInvariant, PTL

\* What the database calls a success is in the bucket, for any number of processes
\* that die, fail, lose their runs or are started by hand.
THEOREM SuccessIsTrue == BackupSpec => []SuccessIsInTheBucket
  <1>1. AInv => SuccessIsInTheBucket
    <2> SUFFICES ASSUME AInv PROVE SuccessIsInTheBucket
      OBVIOUS
    <2>1. ASSUME NEW d \in Dates, manifest[d].status = "success", manifest[d].count > 0
          PROVE  object[d] = manifest[d].count
      BY <2>1 DEF AInv, DoneIsStored, Done
    <2>2. ASSUME NEW t \in Dates, run[t].status = "success", NEW d \in run[t].owed
          PROVE  manifest[d].status = "success" /\ object[d] > 0
      <3>1. d \in Dates
        BY <2>2 DEF AInv, Typed, BackupTypeOK, Runs
      <3>2. Done(d) /\ object[d] = manifest[d].count
        BY <2>2, <3>1 DEF AInv, OwedIsKnown, DoneIsStored
      <3> QED
        BY <3>2 DEF Done
    <2> QED
      BY <2>1, <2>2 DEF SuccessIsInTheBucket
  <1> QED
    BY <1>1, BackupInvariant, PTL

LEMMA DoneStep ==
    ASSUME AInv, [BackupNext]_backupVars
    PROVE  DoneStays
  <1>1. CASE UNCHANGED <<manifest, object>>
    BY <1>1 DEF DoneStays
  <1>2. ASSUME NEW w \in Runners, Backing(w)
        PROVE  DoneStays
    <2>1. CASE StartDay(w) \/ ReadDay(w) \/ Upload(w) \/ RecordDay(w)
      BY <2>1, StartDayKeeps, ReadDayKeeps, UploadKeeps, RecordDayKeeps
    <2>2. CASE TakeLock(w) \/ ReleaseLock(w) \/ FinishRun(w) \/ FinishRequest(w) \/ FinishByHand(w)
      BY <1>1, <2>2 DEF TakeLock, ReleaseLock, FinishRun, FinishRequest, FinishByHand
    <2> QED
      BY <1>2, <2>1, <2>2 DEF Backing
  <1>3. ASSUME NEW w \in Controls, Controlling(w)
        PROVE  DoneStays
    <2>1. CASE ClaimRun(w) \/ (\E q \in Requests : ClaimRequest(w, q)) \/ SelectDays(w)
      BY <1>1, <2>1 DEF ClaimRun, ClaimRequest, SelectDays
    <2> QED
      BY <1>2, <1>3, <2>1 DEF Controlling, Runners
  <1>4. ASSUME NEW w \in Operators, RunByHand(w) \/ Backing(w)
        PROVE  DoneStays
    BY <1>1, <1>2, <1>4 DEF RunByHand, Runners
  <1>5. ASSUME NEW w \in Runners, DayFails(w) \/ AnswerIsLost(w) \/ GiveUp(w) \/ Vanish(w)
        PROVE  DoneStays
    BY <1>1, <1>5, DayFailsKeeps, AnswerIsLostKeeps DEF GiveUp, Vanish
  <1>6. ASSUME \/ TimeComes \/ NextDate
               \/ \E d \in Dates : WriteDocument(d) \/ RunGoesStale(d) \/ RetryIsDue(d)
               \/ \E q \in Requests :
                    (\E action \in {"run_missing", "retry_failed"} : Ask(q, action))
                        \/ RequestGoesStale(q)
        PROVE  DoneStays
    BY <1>1, <1>6 DEF TimeComes, NextDate, WriteDocument, RunGoesStale, RetryIsDue, Ask,
       RequestGoesStale
  <1> QED
    BY <1>1, <1>3, <1>4, <1>5, <1>6 DEF BackupNext, backupVars

\* A day archived with documents is never archived again, whatever runs, requests and
\* processes started by hand overlap.
THEOREM ArchiveStays == BackupSpec => ArchivedIsFinal
  <1>1. AInv /\ [BackupNext]_backupVars =>
          [\A d \in Dates :
             manifest[d].status = "success" /\ manifest[d].count > 0
                 => manifest'[d] = manifest[d] /\ object'[d] = object[d]]_backupVars
    BY DoneStep DEF DoneStays, Done
  <1> QED
    BY <1>1, BackupInvariant, PTL DEF BackupSpec, ArchivedIsFinal

LEMMA SucceededStep ==
    ASSUME AInv, [BackupNext]_backupVars, NEW t \in Dates, run[t].status = "success"
    PROVE  run'[t].status = "success"
  <1>0. run \in [Dates -> Runs] /\ run[t] \in Runs /\ today \in Dates
    BY DEF AInv, Typed, BackupTypeOK
  <1>1. CASE UNCHANGED run
    BY <1>1
  <1>2. ASSUME NEW d \in Dates, RunGoesStale(d) \/ RetryIsDue(d)
        PROVE  run'[t].status = "success"
    BY <1>0, <1>2 DEF RunGoesStale, RetryIsDue, Runs
  <1>3. ASSUME NEW w \in Controls, ClaimRun(w)
        PROVE  run'[t].status = "success"
    <2>1. today # t
      BY <1>3 DEF ClaimRun, RunIsDue, MayRun
    <2> QED
      BY <1>0, <1>3, <2>1 DEF ClaimRun
  <1>4. ASSUME NEW w \in Runners, FinishRun(w)
        PROVE  run'[t].status = "success"
    <2>1. CASE runner[w].key = t
      BY <1>1, <1>4, <2>1 DEF FinishRun
    <2>2. CASE runner[w].key # t
      BY <1>0, <1>4, <2>2 DEF FinishRun
    <2> QED
      BY <2>1, <2>2
  <1>5. ASSUME NEW w \in Runners, Vanish(w)
        PROVE  run'[t].status = "success"
    BY <1>0, <1>5 DEF Vanish, Runs
  <1>6. ASSUME NEW w \in Runners, Backing(w)
        PROVE  run'[t].status = "success"
    BY <1>1, <1>4, <1>6 DEF Backing, TakeLock, StartDay, ReadDay, Upload, RecordDay, ReleaseLock,
       FinishRequest, FinishByHand
  <1>7. ASSUME NEW w \in Controls, Controlling(w)
        PROVE  run'[t].status = "success"
    BY <1>1, <1>3, <1>6, <1>7 DEF Controlling, ClaimRequest, SelectDays, Runners
  <1>8. ASSUME NEW w \in Operators, RunByHand(w) \/ Backing(w)
        PROVE  run'[t].status = "success"
    BY <1>1, <1>6, <1>8 DEF RunByHand, Runners
  <1>9. ASSUME \/ TimeComes \/ NextDate \/ \E d \in Dates : WriteDocument(d)
               \/ \E q \in Requests :
                    (\E action \in {"run_missing", "retry_failed"} : Ask(q, action))
                        \/ RequestGoesStale(q)
               \/ \E w \in Runners : DayFails(w) \/ AnswerIsLost(w) \/ GiveUp(w)
        PROVE  run'[t].status = "success"
    BY <1>1, <1>9 DEF TimeComes, NextDate, WriteDocument, Ask, RequestGoesStale, DayFails,
       AnswerIsLost, GiveUp
  <1> QED
    BY <1>1, <1>2, <1>5, <1>7, <1>8, <1>9 DEF BackupNext, backupVars

\* No process that lost a run undoes its success, and nobody starts it again.
THEOREM SuccessStays == BackupSpec => SucceededRunStays
  <1>1. AInv /\ [BackupNext]_backupVars =>
          [\A t \in Dates : run[t].status = "success" => run'[t].status = "success"]_backupVars
    BY SucceededStep
  <1> QED
    BY <1>1, BackupInvariant, PTL DEF BackupSpec, SucceededRunStays

-----------------------------------------------------------------------------
(* Database and bucket implement BackupBook. *)

\* No process uploads more documents than the day has.
CopyIsReal ==
    \A w \in Runners : runner[w].at = "upload" => runner[w].copy <= docs[Day(w)]

LEMMA CopyMove ==
    ASSUME CopyIsReal, NEW w \in Runners, UNCHANGED docs,
           \A v \in Runners \ {w} : runner'[v] = runner[v],
           runner'[w].at = "upload" => runner'[w].copy <= docs[Day(w)']
    PROVE  CopyIsReal'
  <1>1. \A v \in Runners \ {w} : Day(v)' = Day(v)
    BY DEF Day
  <1> QED
    BY <1>1 DEF CopyIsReal

LEMMA CopyWorld ==
    ASSUME AInv, CopyIsReal, runner' = runner,
           UNCHANGED docs \/ \E d \in Dates : WriteDocument(d)
    PROVE  CopyIsReal'
  <1>1. \A w : Day(w)' = Day(w)
    BY DEF Day
  <1>2. \A d \in Dates : docs[d] \in Nat /\ docs[d] <= docs'[d]
    BY BackupAssumption DEF AInv, Typed, BackupTypeOK, WriteDocument
  <1>3. ASSUME NEW w \in Runners, runner'[w].at = "upload"
        PROVE  runner'[w].copy <= docs'[Day(w)']
    <2>1. Day(w) \in Dates
      BY <1>3 DEF AInv, DayIsOpen, Archiving
    <2>2. runner[w].copy \in Nat
      BY <1>3, Facts
    <2>3. runner[w].copy <= docs[Day(w)]
      BY <1>3 DEF CopyIsReal
    <2>4. docs'[Day(w)] \in Nat
      BY <2>1, BackupAssumption DEF AInv, Typed, BackupTypeOK, WriteDocument
    <2> QED
      BY <1>1, <1>2, <2>1, <2>2, <2>3, <2>4
  <1> QED
    BY <1>3 DEF CopyIsReal

LEMMA CopyBacking ==
    ASSUME AInv, CopyIsReal, NEW w \in Runners, Backing(w)
    PROVE  CopyIsReal'
  <1>0. runner \in [Runners -> Locals] /\ runner[w] \in Locals
    BY DEF AInv, Typed
  <1>1. UNCHANGED docs /\ \A v \in Runners \ {w} : runner'[v] = runner[v]
    BY <1>0 DEF Backing, TakeLock, StartDay, ReadDay, Upload, RecordDay, ReleaseLock, FinishRun,
       FinishRequest, FinishByHand
  <1>2. CASE ReadDay(w)
    <2>1. CASE docs[Day(w)] = 0
      BY <1>0, <1>1, <1>2, <2>1, NextDayTyped, CopyMove DEF ReadDay
    <2>2. CASE docs[Day(w)] # 0
      <3>1. runner'[w].copy = docs[Day(w)] /\ runner'[w].days = runner[w].days
        BY <1>0, <1>2, <2>2 DEF ReadDay, Locals
      <3>2. Day(w)' = Day(w)
        BY <3>1, SameDay
      <3>3. docs[Day(w)] \in Nat
        <4>1. Day(w) \in Dates
          BY <1>2 DEF ReadDay, AInv, DayIsOpen, Archiving
        <4> QED
          BY <4>1, Facts
      <3> QED
        BY <1>1, <3>1, <3>2, <3>3, CopyMove
    <2> QED
      BY <2>1, <2>2
  <1>3. CASE TakeLock(w) \/ StartDay(w) \/ Upload(w) \/ ReleaseLock(w)
    <2>1. runner'[w].at # "upload"
      BY <1>0, <1>3 DEF TakeLock, StartDay, Upload, ReleaseLock, Locals
    <2> QED
      BY <1>1, <2>1, CopyMove
  <1>4. CASE RecordDay(w)
    BY <1>0, <1>1, <1>4, NextDayTyped, CopyMove DEF RecordDay
  <1>5. CASE FinishRun(w) \/ FinishRequest(w) \/ FinishByHand(w)
    <2>1. runner'[w].at # "upload"
      BY <1>0, <1>5, AtEaseTyped DEF FinishRun, FinishRequest, FinishByHand
    <2> QED
      BY <1>1, <2>1, CopyMove
  <1> QED
    BY <1>2, <1>3, <1>4, <1>5 DEF Backing

LEMMA CopyStep ==
    ASSUME AInv, CopyIsReal, [BackupNext]_backupVars
    PROVE  CopyIsReal'
  <1>0. runner \in [Runners -> Locals]
    BY DEF AInv, Typed
  <1>1. ASSUME \/ TimeComes \/ NextDate \/ UNCHANGED backupVars
               \/ \E d \in Dates : WriteDocument(d) \/ RunGoesStale(d) \/ RetryIsDue(d)
               \/ \E q \in Requests :
                    (\E action \in {"run_missing", "retry_failed"} : Ask(q, action))
                        \/ RequestGoesStale(q)
        PROVE  CopyIsReal'
    <2>1. runner' = runner /\ (UNCHANGED docs \/ \E d \in Dates : WriteDocument(d))
      BY <1>1 DEF TimeComes, NextDate, backupVars, WriteDocument, RunGoesStale, RetryIsDue, Ask,
         RequestGoesStale
    <2> QED
      BY <2>1, CopyWorld
  <1>2. ASSUME NEW w \in Controls, ClaimRun(w) \/ \E q \in Requests : ClaimRequest(w, q)
        PROVE  CopyIsReal'
    <2>1. /\ w \in Runners /\ UNCHANGED docs /\ runner'[w].at # "upload"
          /\ \A v \in Runners \ {w} : runner'[v] = runner[v]
      <3>1. CASE ClaimRun(w)
        BY <1>0, <3>1 DEF ClaimRun, Runners, AtEase
      <3>2. ASSUME NEW q \in Requests, ClaimRequest(w, q)
            PROVE  /\ w \in Runners /\ UNCHANGED docs /\ runner'[w].at # "upload"
                   /\ \A v \in Runners \ {w} : runner'[v] = runner[v]
        BY <1>0, <3>2 DEF ClaimRequest, Runners, AtEase
      <3> QED
        BY <1>2, <3>1, <3>2
    <2> QED
      BY <2>1, CopyMove
  <1>3. ASSUME NEW w \in Controls, SelectDays(w)
        PROVE  CopyIsReal'
    <2>1. /\ w \in Runners /\ UNCHANGED docs /\ runner'[w].at # "upload"
          /\ \A v \in Runners \ {w} : runner'[v] = runner[v]
      BY <1>0, <1>3, AtEaseTyped DEF SelectDays, Runners, Locals
    <2> QED
      BY <2>1, CopyMove
  <1>4. ASSUME NEW w \in Operators, RunByHand(w)
        PROVE  CopyIsReal'
    <2>1. /\ w \in Runners /\ UNCHANGED docs /\ runner'[w].at # "upload"
          /\ \A v \in Runners \ {w} : runner'[v] = runner[v]
      BY <1>0, <1>4 DEF RunByHand, Runners, AtEase
    <2> QED
      BY <2>1, CopyMove
  <1>5. ASSUME NEW w \in Runners, DayFails(w) \/ AnswerIsLost(w) \/ GiveUp(w) \/ Vanish(w)
        PROVE  CopyIsReal'
    <2>1. /\ UNCHANGED docs /\ \A v \in Runners \ {w} : runner'[v] = runner[v]
      BY <1>0, <1>5 DEF DayFails, AnswerIsLost, GiveUp, Vanish
    <2>2. runner'[w].at # "upload"
      <3>1. CASE DayFails(w)
        BY <1>0, <3>1, NextDayTyped DEF DayFails, Locals
      <3>2. CASE AnswerIsLost(w)
        BY <1>0, <3>2, NextDayTyped DEF AnswerIsLost, Locals
      <3>3. CASE GiveUp(w)
        BY <1>0, <3>3 DEF GiveUp, Locals
      <3>4. CASE Vanish(w)
        BY <1>0, <3>4, AtEaseTyped DEF Vanish
      <3> QED
        BY <1>5, <3>1, <3>2, <3>3, <3>4
    <2> QED
      BY <2>1, <2>2, CopyMove
  <1>6. ASSUME NEW w \in Controls, Controlling(w)
        PROVE  CopyIsReal'
    BY <1>2, <1>3, <1>6, CopyBacking DEF Controlling, Runners
  <1>7. ASSUME NEW w \in Operators, RunByHand(w) \/ Backing(w)
        PROVE  CopyIsReal'
    BY <1>4, <1>7, CopyBacking DEF Runners
  <1> QED
    BY <1>1, <1>5, <1>6, <1>7 DEF BackupNext

LEMMA BookStutter ==
    ASSUME UNCHANGED <<docs, object>>, Recorded' = Recorded,
           \A t \in Dates : run'[t].status = run[t].status /\ run'[t].owed = run[t].owed
    PROVE  UNCHANGED Book!bookVars
  BY DEF Book!bookVars

\* A step that leaves runs and documents alone and works at one day that is not
\* recorded puts a copy, enters it or does nothing.
LEMMA BookDay ==
    ASSUME AInv, NEW d \in Dates, Recorded[d] = 0, UNCHANGED <<docs, run>>,
           \A e \in Dates \ {d} : manifest'[e] = manifest[e],
           \/ object' = object
           \/ \E n \in 1..docs[d] : object' = [object EXCEPT ![d] = n],
           \/ Recorded'[d] = 0
           \/ object' = object /\ object[d] > 0 /\ Recorded'[d] = object[d]
    PROVE  [Book!BookNext]_(Book!bookVars)
  <1>1. \A e \in Dates \ {d} : Recorded'[e] = Recorded[e]
    BY DEF Recorded
  <1>2. Recorded' = [Recorded EXCEPT ![d] = Recorded'[d]]
    BY <1>1 DEF Recorded
  <1>3. CASE Recorded'[d] = 0
    <2>1. Recorded' = Recorded
      BY <1>1, <1>3 DEF Recorded
    <2>2. CASE object' = object
      BY <2>1, <2>2, BookStutter
    <2>3. CASE \E n \in 1..docs[d] : object' = [object EXCEPT ![d] = n]
      <3>1. Book!Put(d)
        BY <2>1, <2>3 DEF Book!Put
      <3> QED
        BY <3>1 DEF Book!BookNext
    <2> QED
      BY <2>2, <2>3
  <1>4. CASE object' = object /\ object[d] > 0 /\ Recorded'[d] = object[d]
    <2>1. Book!Enter(d)
      BY <1>2, <1>4 DEF Book!Enter
    <2> QED
      BY <2>1 DEF Book!BookNext
  <1> QED
    BY <1>3, <1>4

\* A day under work is not recorded.
LEMMA OpenDay ==
    ASSUME AInv, NEW w \in Runners, runner[w].at \in Archiving
    PROVE  Day(w) \in Dates /\ Recorded[Day(w)] = 0
  BY DEF AInv, DayIsOpen, Recorded

LEMMA StartDayMaps ==
    ASSUME AInv, NEW w \in Runners, StartDay(w)
    PROVE  [Book!BookNext]_(Book!bookVars)
  <1>1. Day(w) \in Dates /\ UNCHANGED <<docs, run, object>>
    BY DayIsListed, Facts DEF StartDay, Locals
  <1>2. CASE IsArchived(Day(w))
    <2>1. manifest' = manifest
      BY <1>2 DEF StartDay
    <2> QED
      BY <1>1, <2>1, BookStutter DEF Recorded
  <1>3. CASE ~IsArchived(Day(w))
    <2>1. manifest' = [manifest EXCEPT ![Day(w)].status = "running"]
      BY <1>3 DEF StartDay
    <2>2. /\ \A e \in Dates \ {Day(w)} : manifest'[e] = manifest[e]
          /\ manifest'[Day(w)].status = "running"
      BY <1>1, <2>1, Facts
    <2>3. manifest[Day(w)].count \in Nat
      BY <1>1, Facts
    <2>4. Recorded[Day(w)] = 0 /\ Recorded'[Day(w)] = 0
      BY <1>1, <1>3, <2>2, <2>3 DEF IsArchived, Recorded
    <2> HIDE DEF Recorded
    <2> DEFINE d == Day(w)
    <2>5. d \in Dates /\ Recorded[d] = 0 /\ Recorded'[d] = 0
      BY <1>1, <2>4
    <2>6. \A e \in Dates \ {d} : manifest'[e] = manifest[e]
      BY <2>2
    <2> HIDE DEF d
    <2> QED
      BY <1>1, <2>5, <2>6, BookDay
  <1> QED
    BY <1>2, <1>3

LEMMA ReadDayMaps ==
    ASSUME AInv, NEW w \in Runners, ReadDay(w)
    PROVE  [Book!BookNext]_(Book!bookVars)
  <1> DEFINE d == Day(w)
  <1>1. d \in Dates /\ Recorded[d] = 0 /\ UNCHANGED <<docs, run, object>>
    BY OpenDay DEF ReadDay, Archiving
  <1>2. \/ manifest' = manifest
        \/ manifest' = [manifest EXCEPT ![d] = [status |-> "success", count |-> 0]]
    BY DEF ReadDay
  <1> HIDE DEF d
  <1>3. Recorded'[d] = 0 /\ \A e \in Dates \ {d} : manifest'[e] = manifest[e]
    BY <1>1, <1>2, Facts DEF Recorded
  <1> QED
    BY <1>1, <1>3, BookDay

LEMMA UploadMaps ==
    ASSUME AInv, CopyIsReal, NEW w \in Runners, Upload(w)
    PROVE  [Book!BookNext]_(Book!bookVars)
  <1> DEFINE d == Day(w)
             n == runner[w].copy
  <1>1. /\ d \in Dates /\ Recorded[d] = 0 /\ UNCHANGED <<docs, run, manifest>>
        /\ object' = [object EXCEPT ![d] = n]
    BY OpenDay DEF Upload, Archiving
  <1>2. n \in 1..MaxDocs /\ n <= docs[d]
    BY Facts DEF Upload, CopyIsReal
  <1> HIDE DEF d, n
  <1>3. n \in 1..docs[d]
    BY <1>1, <1>2, Facts, BackupAssumption
  <1>4. Recorded'[d] = 0
    BY <1>1 DEF Recorded
  <1> QED
    BY <1>1, <1>3, <1>4, BookDay

LEMMA RecordDayMaps ==
    ASSUME AInv, NEW w \in Runners, RecordDay(w)
    PROVE  [Book!BookNext]_(Book!bookVars)
  <1> DEFINE d == Day(w)
             n == runner[w].copy
  <1>1. /\ d \in Dates /\ Recorded[d] = 0 /\ UNCHANGED <<docs, run, object>>
        /\ manifest' = [manifest EXCEPT ![d] = [status |-> "success", count |-> n]]
    BY OpenDay DEF RecordDay, Archiving
  <1>2. n \in 1..MaxDocs /\ object[d] = n
    BY Facts DEF RecordDay, AInv, DayIsOpen, Archiving
  <1> HIDE DEF d, n
  <1>3. Recorded'[d] = n /\ \A e \in Dates \ {d} : manifest'[e] = manifest[e]
    BY <1>1, Facts DEF Recorded
  <1>4. object[d] > 0
    BY <1>2, BackupAssumption
  <1> QED
    BY <1>1, <1>2, <1>3, <1>4, BookDay

LEMMA DayFailsMaps ==
    ASSUME AInv, CopyIsReal, NEW w \in Runners, DayFails(w)
    PROVE  [Book!BookNext]_(Book!bookVars)
  <1> DEFINE d == Day(w)
             n == runner[w].copy
  <1>1. PICK marked \in BOOLEAN, arrived \in BOOLEAN :
           /\ marked => runner[w].at \in {"read", "upload"}
           /\ arrived => runner[w].at = "upload"
           /\ manifest' = IF marked THEN [manifest EXCEPT ![d].status = "failed"] ELSE manifest
           /\ object' = IF arrived THEN [object EXCEPT ![d] = n] ELSE object
    BY DEF DayFails
  <1>2. UNCHANGED <<docs, run>>
    BY DEF DayFails
  <1>3. CASE ~marked /\ ~arrived
    BY <1>1, <1>2, <1>3, BookStutter DEF Recorded
  <1>4. CASE marked \/ arrived
    <2>1. d \in Dates /\ Recorded[d] = 0 /\ manifest[d].status = "running"
      BY <1>1, <1>4, OpenDay DEF Archiving, AInv, DayIsOpen
    <2>2. arrived => n \in 1..MaxDocs /\ n <= docs[d]
      BY <1>1, Facts DEF CopyIsReal
    <2> HIDE DEF d, n
    <2>3. arrived => n \in 1..docs[d]
      BY <2>1, <2>2, Facts, BackupAssumption
    <2>4. Recorded'[d] = 0 /\ \A e \in Dates \ {d} : manifest'[e] = manifest[e]
      BY <1>1, <2>1, Facts DEF Recorded
    <2> QED
      BY <1>1, <1>2, <2>1, <2>3, <2>4, BookDay
  <1> QED
    BY <1>3, <1>4

LEMMA AnswerIsLostMaps ==
    ASSUME AInv, NEW w \in Runners, AnswerIsLost(w)
    PROVE  [Book!BookNext]_(Book!bookVars)
  <1> DEFINE d == Day(w)
             n == IF runner[w].at = "record" THEN runner[w].copy ELSE 0
  <1>1. /\ d \in Dates /\ Recorded[d] = 0 /\ UNCHANGED <<docs, run, object>>
        /\ manifest' = [manifest EXCEPT ![d] = [status |-> "success", count |-> n]]
    BY OpenDay DEF AnswerIsLost, Archiving
  <1>2. n = 0 \/ (n \in 1..MaxDocs /\ object[d] = n)
    BY Facts DEF AnswerIsLost, AInv, DayIsOpen, Archiving
  <1> HIDE DEF d, n
  <1>3. Recorded'[d] = n /\ \A e \in Dates \ {d} : manifest'[e] = manifest[e]
    BY <1>1, Facts DEF Recorded
  <1>4. n = 0 \/ object[d] > 0
    BY <1>2, BackupAssumption
  <1> QED
    BY <1>1, <1>2, <1>3, <1>4, BookDay

LEMMA ClaimRunMaps ==
    ASSUME AInv, NEW w \in Controls, ClaimRun(w)
    PROVE  [Book!BookNext]_(Book!bookVars)
  <1>0. today \in Dates /\ run \in [Dates -> Runs]
    BY DEF AInv, Typed, BackupTypeOK
  <1>1. PICK t \in Dates : t = today
    BY <1>0
  <1> DEFINE owed == {d \in 1..t : docs[d] > 0}
  <1>2. run' = [run EXCEPT ![t] =
                  [status |-> "running", owner |-> w, stale |-> FALSE, due |-> FALSE,
                   owed |-> owed]]
    BY <1>1 DEF ClaimRun, Window
  <1>3. UNCHANGED <<docs, object, manifest>> /\ run[t].status # "success"
    BY <1>1 DEF ClaimRun, RunIsDue, MayRun
  <1> HIDE DEF owed
  <1>4. /\ [s \in Dates |-> run'[s].status]
             = [[s \in Dates |-> run[s].status] EXCEPT ![t] = "running"]
        /\ [s \in Dates |-> run'[s].owed] = [[s \in Dates |-> run[s].owed] EXCEPT ![t] = owed]
    BY <1>0, <1>2
  <1>5. Recorded' = Recorded /\ [s \in Dates |-> run[s].status][t] # "success"
    BY <1>3 DEF Recorded
  <1>6. Book!Begin(t)
    BY <1>3, <1>4, <1>5 DEF Book!Begin, owed
  <1> QED
    BY <1>6 DEF Book!BookNext

LEMMA FinishRunMaps ==
    ASSUME AInv, NEW w \in Runners, FinishRun(w)
    PROVE  [Book!BookNext]_(Book!bookVars)
  <1>0. /\ runner[w].at = "finish" /\ runner[w].for = "run" /\ run \in [Dates -> Runs]
        /\ UNCHANGED <<docs, object, manifest>>
    BY Facts DEF FinishRun
  <1>1. Recorded' = Recorded
    BY <1>0 DEF Recorded
  <1>2. ASSUME NEW t \in Dates, t = runner[w].key, run[t].status = "running", run[t].owner = w
        PROVE  Book!Fail(t) \/ Book!Succeed(t)
    <2> DEFINE v == Verdict(w)
    <2>1. run' = [run EXCEPT ![t].status = v, ![t].stale = FALSE]
      BY <1>2 DEF FinishRun
    <2> HIDE DEF v
    <2>2. /\ run'[t].status = v /\ run'[t].owed = run[t].owed
          /\ \A s \in Dates \ {t} : run'[s] = run[s]
      BY <1>0, <2>1 DEF Runs
    <2>3. /\ [s \in Dates |-> run'[s].status]
               = [[s \in Dates |-> run[s].status] EXCEPT ![t] = v]
          /\ [s \in Dates |-> run'[s].owed] = [s \in Dates |-> run[s].owed]
          /\ [s \in Dates |-> run[s].status][t] = "running"
      BY <1>2, <2>2
    <2>4. CASE runner[w].failed
      <3>1. v = "failed"
        BY <2>4 DEF v, Verdict
      <3> QED
        BY <1>0, <1>1, <2>3, <3>1 DEF Book!Fail
    <2>5. CASE ~runner[w].failed
      <3>1. v = "success" /\ Owns(w, t)
        BY <1>0, <1>2, <2>5 DEF v, Verdict, Owns
      <3>2. \A d \in run[t].owed : d \in Dates /\ Done(d)
        BY <1>0, <2>5, <3>1 DEF AInv, OwnerIsOnTrack, Runs
      <3>3. \A d \in [s \in Dates |-> run[s].owed][t] : Recorded[d] > 0
        BY <3>2 DEF Done, Recorded
      <3> QED
        BY <1>0, <1>1, <2>3, <3>1, <3>3 DEF Book!Succeed
    <2> QED
      BY <2>4, <2>5
  <1>3. CASE \E t \in Dates : t = runner[w].key /\ run[t].status = "running" /\ run[t].owner = w
    BY <1>2, <1>3 DEF Book!BookNext
  <1>4. CASE ~\E t \in Dates : t = runner[w].key /\ run[t].status = "running" /\ run[t].owner = w
    <2>1. run' = run
      BY <1>0, <1>4 DEF FinishRun
    <2> QED
      BY <1>0, <2>1, BookStutter DEF Recorded
  <1> QED
    BY <1>3, <1>4

LEMMA WriteDocumentMaps ==
    ASSUME AInv, NEW d \in Dates, WriteDocument(d)
    PROVE  [Book!BookNext]_(Book!bookVars)
  <1>1. Book!Arrive(d)
    BY DEF WriteDocument, Book!Arrive, Recorded
  <1> QED
    BY <1>1 DEF Book!BookNext

\* Time, leases, requests, locks and deaths are of no concern to the book.
LEMMA OtherStepMaps ==
    ASSUME AInv, UNCHANGED <<docs, object, manifest>>,
           \/ run' = run
           \/ \E d \in Dates : RunGoesStale(d) \/ RetryIsDue(d)
           \/ \E w \in Runners : Vanish(w)
    PROVE  UNCHANGED Book!bookVars
  <1>0. run \in [Dates -> Runs]
    BY DEF AInv, Typed, BackupTypeOK
  <1>1. \A t \in Dates : run'[t].status = run[t].status /\ run'[t].owed = run[t].owed
    <2>1. CASE run' = run
      BY <2>1
    <2>2. ASSUME NEW d \in Dates, RunGoesStale(d) \/ RetryIsDue(d)
          PROVE  \A t \in Dates : run'[t].status = run[t].status /\ run'[t].owed = run[t].owed
      BY <1>0, <2>2 DEF RunGoesStale, RetryIsDue, Runs
    <2>3. ASSUME NEW w \in Runners, Vanish(w)
          PROVE  \A t \in Dates : run'[t].status = run[t].status /\ run'[t].owed = run[t].owed
      BY <1>0, <2>3 DEF Vanish, Runs
    <2> QED
      BY <2>1, <2>2, <2>3
  <1> QED
    BY <1>1, BookStutter DEF Recorded

LEMMA BackingMaps ==
    ASSUME AInv, CopyIsReal, NEW w \in Runners, Backing(w)
    PROVE  [Book!BookNext]_(Book!bookVars)
  <1>1. CASE TakeLock(w) \/ ReleaseLock(w) \/ FinishRequest(w) \/ FinishByHand(w)
    BY <1>1, OtherStepMaps DEF TakeLock, ReleaseLock, FinishRequest, FinishByHand
  <1> QED
    BY <1>1, StartDayMaps, ReadDayMaps, UploadMaps, RecordDayMaps, FinishRunMaps DEF Backing

LEMMA BookStepMaps ==
    ASSUME AInv, CopyIsReal, [BackupNext]_backupVars
    PROVE  [Book!BookNext]_(Book!bookVars)
  <1>1. CASE UNCHANGED backupVars
    BY <1>1, OtherStepMaps DEF backupVars
  <1>2. CASE TimeComes \/ NextDate
    BY <1>2, OtherStepMaps DEF TimeComes, NextDate
  <1>3. ASSUME NEW d \in Dates, WriteDocument(d) \/ RunGoesStale(d) \/ RetryIsDue(d)
        PROVE  [Book!BookNext]_(Book!bookVars)
    <2>1. CASE RunGoesStale(d) \/ RetryIsDue(d)
      BY <2>1, OtherStepMaps DEF RunGoesStale, RetryIsDue
    <2> QED
      BY <1>3, <2>1, WriteDocumentMaps
  <1>4. ASSUME NEW q \in Requests,
               (\E action \in {"run_missing", "retry_failed"} : Ask(q, action))
                   \/ RequestGoesStale(q)
        PROVE  [Book!BookNext]_(Book!bookVars)
    BY <1>4, OtherStepMaps DEF Ask, RequestGoesStale
  <1>5. ASSUME NEW w \in Controls, Controlling(w)
        PROVE  [Book!BookNext]_(Book!bookVars)
    <2>1. CASE SelectDays(w)
      BY <2>1, OtherStepMaps DEF SelectDays
    <2>2. ASSUME NEW q \in Requests, ClaimRequest(w, q)
          PROVE  [Book!BookNext]_(Book!bookVars)
      BY <2>2, OtherStepMaps DEF ClaimRequest
    <2> QED
      BY <1>5, <2>1, <2>2, ClaimRunMaps, BackingMaps DEF Controlling, Runners
  <1>6. ASSUME NEW w \in Operators, RunByHand(w) \/ Backing(w)
        PROVE  [Book!BookNext]_(Book!bookVars)
    <2>1. CASE RunByHand(w)
      BY <2>1, OtherStepMaps DEF RunByHand
    <2> QED
      BY <1>6, <2>1, BackingMaps DEF Runners
  <1>7. ASSUME NEW w \in Runners, DayFails(w) \/ AnswerIsLost(w) \/ GiveUp(w) \/ Vanish(w)
        PROVE  [Book!BookNext]_(Book!bookVars)
    <2>1. CASE GiveUp(w) \/ Vanish(w)
      BY <2>1, OtherStepMaps DEF GiveUp, Vanish
    <2> QED
      BY <1>7, <2>1, DayFailsMaps, AnswerIsLostMaps
  <1> QED
    BY <1>1, <1>2, <1>3, <1>4, <1>5, <1>6, <1>7 DEF BackupNext

\* Control processes, operators and requests, with their lock, leases, failures and
\* deaths, are together what BackupBook describes: no copy holds more than the day has
\* or replaces one that is recorded, and a run that succeeds owes nothing.
THEOREM BackupRefinement == BackupSpec => ImplementsBackupBook
  <1>1. BackupInit => CopyIsReal
    BY AtEaseTyped DEF BackupInit, CopyIsReal
  <1>2. BackupInit => Book!BookInit
    <2> SUFFICES ASSUME BackupInit PROVE Book!BookInit
      OBVIOUS
    <2>1. Recorded = [d \in Dates |-> 0]
      BY DEF BackupInit, Recorded
    <2>2. /\ [t \in Dates |-> run[t].status] = [t \in Dates |-> "none"]
          /\ [t \in Dates |-> run[t].owed] = [t \in Dates |-> {}]
      BY DEF BackupInit
    <2>3. docs = [d \in Dates |-> 0] /\ object = [d \in Dates |-> 0]
      BY DEF BackupInit
    <2> QED
      BY <2>1, <2>2, <2>3 DEF Book!BookInit
  <1>3. BackupSpec => []CopyIsReal
    <2>1. AInv /\ CopyIsReal /\ [BackupNext]_backupVars => CopyIsReal'
      BY CopyStep
    <2> QED
      BY <1>1, <2>1, BackupInvariant, PTL DEF BackupSpec
  <1>4. AInv /\ CopyIsReal /\ [BackupNext]_backupVars => [Book!BookNext]_(Book!bookVars)
    BY BookStepMaps
  <1> QED
    BY <1>2, <1>3, <1>4, BackupInvariant, PTL DEF BackupSpec, ImplementsBackupBook, Book!BookSpec
=============================================================================
