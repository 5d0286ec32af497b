------------------------------ MODULE Retention ------------------------------
(***************************************************************************)
(* Retention of MongoDB documents: a cycle of                              *)
(* archive/retention_orchestrator.py plans a bounded selection, exports it *)
(* to an archive, copies the archive to a secondary store, freezes the     *)
(* exact identities and deletes them batch by batch, while the services go *)
(* on writing, another cycle may run beside it (the timer and an operator; *)
(* there is no lock) and a process may die between any two steps.          *)
(*                                                                         *)
(* One collection.  A document is a number, its place in time order; its   *)
(* content is a version; documents have the same size.  An archive is      *)
(* named after the cutoff of its cycle, hence never the same name twice:   *)
(* an archive that no receipt names is left behind and its number is used  *)
(* again here.                                                             *)
(***************************************************************************)
EXTENDS Naturals, FiniteSets

CONSTANTS
    Docs,           \* documents, by time
    IdRank,         \* place of a document in the order of canonical ids
    Processes,      \* retention processes
    Archives,       \* archive ids
    NoArchive,      \* no archive
    NoRun,          \* no run
    Modes,          \* is execute_purge set
    High,           \* documents at which the state is HIGH
    Target,         \* documents at the recovery target
    MaxDocuments,   \* max_documents_per_cycle
    BatchSize,      \* batch_size_documents
    PilotMax,       \* PILOT_AUTHORIZED_MAX
    MaxWrites,      \* bound: writes of the services
    MaxCrashes,     \* bound: processes that die
    MaxDamages      \* bound: archive copies damaged on disk

ASSUME RetentionAssumption ==
    /\ Docs \subseteq Nat /\ IsFiniteSet(Docs)
    /\ IdRank \in [Docs -> Nat]
    /\ NoArchive \notin Archives
    /\ Modes \subseteq BOOLEAN
    /\ High \in Nat /\ Target \in Nat /\ Target < High
    /\ MaxDocuments \in Nat \ {0} /\ BatchSize \in Nat \ {0} /\ PilotMax \in Nat
    /\ MaxWrites \in Nat /\ MaxCrashes \in Nat /\ MaxDamages \in Nat

VARIABLES
    source,      \* the collection: version of a document, 0: not there
    ripe,        \* documents past their hot window and in a terminal state
    primary,     \* archives on the Pi
    secondary,   \* their copies in the secondary store
    dirs,        \* run directories: the immutable receipts and the progress
    catalog,     \* PURGED events of the retention catalog
    proc,        \* processes: step, and locals of run
    crashes,     \* processes that died so far
    writes,      \* writes of the services so far
    purged       \* history: version of a document when it was deleted

vars == <<source, ripe, primary, secondary, dirs, catalog, proc, crashes, writes, purged>>

NoFile == [has |-> [d \in Docs |-> 0], ok |-> FALSE]

\* A run directory without receipts.
NewDir == [receipt |-> NoArchive, frozen |-> NoArchive, done |-> {}, stopped |-> FALSE,
           executed |-> FALSE, final |-> FALSE]

Idle == [at |-> "idle", run |-> NoRun, archive |-> NoArchive, seen |-> [d \in Docs |-> 0],
         matching |-> 0, batch |-> 0, short |-> FALSE, late |-> {}]

Steps == {"idle", "copy", "export", "replicate", "receipt", "freeze", "reconcile",
          "count", "delete", "verify", "catalog", "final"}

Files == [has : [Docs -> Nat], ok : BOOLEAN]

RunIds == [purge : BOOLEAN, need : Nat, chosen : SUBSET Docs]

RunDirs == [receipt : Archives \cup {NoArchive}, frozen : Archives \cup {NoArchive},
            done : SUBSET Nat, stopped : BOOLEAN, executed : BOOLEAN, final : BOOLEAN]

Locals == [at : Steps, run : RunIds \cup {NoRun}, archive : Archives \cup {NoArchive},
           seen : [Docs -> Nat], matching : Nat, batch : Nat, short : BOOLEAN,
           late : SUBSET Docs]

RetentionTypeOK ==
    /\ source \in [Docs -> Nat]
    /\ ripe \subseteq Docs
    /\ primary \in [Archives -> Files]
    /\ secondary \in [Archives -> Files]
    /\ DOMAIN dirs \subseteq RunIds /\ dirs \in [DOMAIN dirs -> RunDirs]
    /\ catalog \subseteq RunIds \X Archives
    /\ proc \in [Processes -> Locals]
    /\ \A p \in Processes : proc[p].at # "idle" =>
          proc[p].run \in DOMAIN dirs /\ proc[p].archive \in Archives
    /\ crashes \in Nat /\ writes \in Nat
    /\ purged \in [Docs -> Nat]

Init ==
    /\ source \in [Docs -> {0, 1}]
    /\ ripe \in SUBSET {d \in Docs : source[d] # 0}
    /\ primary = [a \in Archives |-> NoFile]
    /\ secondary = [a \in Archives |-> NoFile]
    /\ dirs = <<>>
    /\ catalog = {}
    /\ proc = [p \in Processes |-> Idle]
    /\ crashes = 0 /\ writes = 0
    /\ purged = [d \in Docs |-> 0]

-----------------------------------------------------------------------------
(* The collection and the archives. *)

Present == {d \in Docs : source[d] # 0}

\* The first n documents of S by time.
First(n, S) == {d \in S : Cardinality({e \in S : e < d}) < n}

\* The content of the documents S.
Content(S) == [d \in Docs |-> IF d \in S THEN source[d] ELSE 0]

\* required_reclaim_bytes, in documents.
Required == IF Cardinality(Present) >= High THEN Cardinality(Present) - Target ELSE 0

Limit(n) == IF n < MaxDocuments THEN n ELSE MaxDocuments

\* Bug: only the first batch of identities is read back from the archive.
FirstBatchOnly(a) == First(BatchSize, {d \in Docs : primary[a].has[d] # 0})

\* The documents of an archive, and its batches of identities in id order.
Members(a) == {d \in Docs : primary[a].has[d] # 0}

Place(d, S) == Cardinality({e \in S : IdRank[e] < IdRank[d]})

Batch(a, k) ==
    {d \in Members(a) : k * BatchSize <= Place(d, Members(a))
                        /\ Place(d, Members(a)) < (k + 1) * BatchSize}

\* Time order and id order of S agree: only then do the digests of the archive
\* and of the reconciliation run over the documents in the same order.
SameOrder(S) == \A d, e \in S : d < e => IdRank[d] < IdRank[e]

\* An archive that the reconciliation before the first batch can accept.
Fits(a) == Cardinality(Members(a)) <= PilotMax /\ SameOrder(Members(a))

-----------------------------------------------------------------------------
(* One cycle, RetentionOrchestrator.run. *)

Goes(p, from, to) ==
    /\ proc[p].at = from
    /\ proc' = [proc EXCEPT ![p].at = to]

\* An exception ends the process.
Raises(p) == proc' = [proc EXCEPT ![p] = Idle]

\* The name is free: no run directory and no process uses it.
Fresh(a) ==
    /\ \A r \in DOMAIN dirs : dirs[r].receipt # a
    /\ \A q \in Processes : proc[q].archive # a

\* Bug: the run directory is not there before the first receipt needs it.
NoDirYet(run) == dirs

MakeDir(run) ==
    [r \in DOMAIN dirs \cup {run} |-> IF r \in DOMAIN dirs THEN dirs[r] ELSE NewDir]

\* What plan_retention selects, and the run id it hashes from the selection.
NextRun(purge) ==
    [purge |-> purge, need |-> Required, chosen |-> First(Limit(Required), ripe)]

\* plan_retention, the look at the final receipt, and mkdir of the run directory.
Plan(p) ==
    /\ proc[p].at = "idle"
    /\ \E purge \in Modes, a \in Archives :
         LET run == NextRun(purge)
         IN  /\ run.chosen # {}
             /\ run \in DOMAIN dirs => ~dirs[run].final
             /\ Fresh(a)
             /\ dirs' = MakeDir(run)
             /\ proc' = [proc EXCEPT ![p] = [Idle EXCEPT !.at = "copy", !.run = run,
                                                         !.archive = a]]
             /\ primary' = [primary EXCEPT ![a] = NoFile]
             /\ secondary' = [secondary EXCEPT ![a] = NoFile]
    /\ UNCHANGED <<source, ripe, catalog, crashes, writes, purged>>

\* plan_archive: what matches now, not what was planned, as many as were planned.
CopyDocuments(p) ==
    /\ proc[p].at = "copy"
    /\ LET chosen == First(Cardinality(proc[p].run.chosen), ripe)
       IN  IF chosen = {}
           THEN Raises(p)
           ELSE proc' = [proc EXCEPT ![p].at = "export", ![p].seen = Content(chosen),
                                     ![p].matching = Cardinality(ripe)]
    /\ UNCHANGED <<source, ripe, primary, secondary, dirs, catalog, crashes, writes, purged>>

\* The second look of export_archive: as many documents match, and the selection
\* reads the same.
Stable(p) ==
    /\ Cardinality(ripe) = proc[p].matching
    /\ Content(First(Cardinality(proc[p].run.chosen), ripe)) = proc[p].seen

\* export_archive from its second look on: partial file, archive, manifest,
\* receipt and catalog.  Nothing reads an archive without them.
Export(p) ==
    /\ proc[p].at = "export"
    /\ IF Stable(p)
       THEN /\ Goes(p, "export", "replicate")
            /\ primary' = [primary EXCEPT ![proc[p].archive] =
                             [has |-> proc[p].seen, ok |-> TRUE]]
       ELSE Raises(p) /\ UNCHANGED primary
    /\ UNCHANGED <<source, ripe, secondary, dirs, catalog, crashes, writes, purged>>

\* FilesystemSecondaryBackend.replicate; the copy of a damaged archive has the
\* wrong hash.
Replicate(p) ==
    /\ proc[p].at = "replicate"
    /\ IF primary[proc[p].archive].ok
       THEN /\ Goes(p, "replicate", "receipt")
            /\ secondary' = [secondary EXCEPT ![proc[p].archive] = primary[proc[p].archive]]
       ELSE Raises(p) /\ UNCHANGED secondary
    /\ UNCHANGED <<source, ripe, primary, dirs, catalog, crashes, writes, purged>>

\* Bug: the receipt of an earlier attempt is overwritten.
ReplaceReceipt(p) ==
    /\ proc[p].at = "receipt"
    /\ Goes(p, "receipt", IF proc[p].run.purge THEN "freeze" ELSE "catalog")
    /\ dirs' = [dirs EXCEPT ![proc[p].run].receipt = proc[p].archive]
    /\ UNCHANGED <<source, ripe, primary, secondary, catalog, crashes, writes, purged>>

\* write_immutable_json of the secondary receipt: the first archive of a run is
\* its only one.
WriteReceipt(p) ==
    /\ proc[p].at = "receipt"
    /\ IF dirs[proc[p].run].receipt \in {NoArchive, proc[p].archive}
       THEN /\ Goes(p, "receipt", IF proc[p].run.purge THEN "freeze" ELSE "catalog")
            /\ dirs' = [dirs EXCEPT ![proc[p].run].receipt = proc[p].archive]
       ELSE Raises(p) /\ UNCHANGED dirs
    /\ UNCHANGED <<source, ripe, primary, secondary, catalog, crashes, writes, purged>>

\* freeze_retention_purge_set: an existing frozen set of the same archive, or a
\* new one from two copies that verify.
Freeze(p) ==
    /\ proc[p].at = "freeze"
    /\ LET a == proc[p].archive
           dir == dirs[proc[p].run]
       IN  IF dir.frozen = a \/ (dir.frozen = NoArchive /\ primary[a].ok /\ secondary[a].ok)
           THEN /\ Goes(p, "freeze", "reconcile")
                /\ dirs' = [dirs EXCEPT ![proc[p].run].frozen = a]
           ELSE Raises(p) /\ UNCHANGED dirs
    /\ UNCHANGED <<source, ripe, primary, secondary, catalog, crashes, writes, purged>>

\* The documents whose batch has no COMPLETED entry yet.
Remaining(p) ==
    {d \in Members(proc[p].archive) :
        \A k \in dirs[proc[p].run].done : d \notin Batch(proc[p].archive, k)}

\* Bug: the authorized maximum is not authorized.
ReconciledBelowMax(p) ==
    /\ Remaining(p) \subseteq Present
    /\ Cardinality(Remaining(p)) < PilotMax
    /\ dirs[proc[p].run].done = {} =>
          /\ SameOrder(Remaining(p))
          /\ \A d \in Remaining(p) : source[d] = primary[proc[p].archive].has[d]

\* Bug: the reconciliation counts the documents and does not compare them.
PresentOnly(p) ==
    /\ Remaining(p) \subseteq Present
    /\ Cardinality(Remaining(p)) <= PilotMax

\* reconcile_exact_source: all there, and, unless a batch is done, all as archived.
Reconciled(p) ==
    /\ Remaining(p) \subseteq Present
    /\ Cardinality(Remaining(p)) <= PilotMax
    /\ dirs[proc[p].run].done = {} =>
          /\ SameOrder(Remaining(p))
          /\ \A d \in Remaining(p) : source[d] = primary[proc[p].archive].has[d]

\* execute_retention_exact_purge up to its first batch; a purge that is executed
\* only checks that the documents are absent.
Reconcile(p) ==
    /\ proc[p].at = "reconcile"
    /\ LET dir == dirs[proc[p].run]
           absent == Members(proc[p].archive) \ Remaining(p)
       IN  IF dir.executed
           THEN IF Members(proc[p].archive) \cap Present = {}
                THEN Goes(p, "reconcile", "catalog")
                ELSE Raises(p)
           ELSE IF ~dir.stopped /\ absent \cap Present = {} /\ Reconciled(p)
                THEN proc' = [proc EXCEPT ![p].at = "count", ![p].batch = 0, ![p].late = {}]
                ELSE Raises(p)
    /\ UNCHANGED <<source, ripe, primary, secondary, dirs, catalog, crashes, writes, purged>>

ThisBatch(p) == Batch(proc[p].archive, proc[p].batch)

\* The head of the loop over the batches: a batch that is done is skipped, one that
\* is not all there stops the run for good, and behind the last one everything must
\* be absent.
CountBatch(p) ==
    /\ proc[p].at = "count"
    /\ LET run == proc[p].run IN
       IF ThisBatch(p) = {}
       THEN IF Members(proc[p].archive) \cap Present = {}
            THEN /\ Goes(p, "count", "catalog")
                 /\ dirs' = [dirs EXCEPT ![run].executed = TRUE]
            ELSE Raises(p) /\ UNCHANGED dirs
       ELSE IF proc[p].batch \in dirs[run].done
       THEN /\ proc' = [proc EXCEPT ![p].batch = @ + 1]
            /\ UNCHANGED dirs
       ELSE IF ThisBatch(p) \subseteq Present
       THEN Goes(p, "count", "delete") /\ UNCHANGED dirs
       ELSE /\ Raises(p)
            /\ dirs' = [dirs EXCEPT ![run].stopped = TRUE]
    /\ UNCHANGED <<source, ripe, primary, secondary, catalog, crashes, writes, purged>>

\* Bug: the plan is deleted, not what is in the archive.
DeletePlanned(p) ==
    /\ proc[p].at = "delete"
    /\ LET gone == proc[p].run.chosen \cap Present IN
       /\ source' = [d \in Docs |-> IF d \in gone THEN 0 ELSE source[d]]
       /\ purged' = [d \in Docs |-> IF d \in gone THEN source[d] ELSE purged[d]]
       /\ ripe' = ripe \ gone
       /\ proc' = [proc EXCEPT ![p].at = "verify", ![p].short = FALSE]
    /\ UNCHANGED <<primary, secondary, dirs, catalog, crashes, writes>>

\* delete_many of the batch's identities.
DeleteBatch(p) ==
    /\ proc[p].at = "delete"
    /\ LET gone == ThisBatch(p) \cap Present IN
       /\ source' = [d \in Docs |-> IF d \in gone THEN 0 ELSE source[d]]
       /\ purged' = [d \in Docs |-> IF d \in gone THEN source[d] ELSE purged[d]]
       /\ ripe' = ripe \ gone
       /\ proc' = [proc EXCEPT ![p].at = "verify", ![p].short = gone # ThisBatch(p)]
    /\ UNCHANGED <<primary, secondary, dirs, catalog, crashes, writes>>

\* The count after the deletion and the entry in purge_progress.jsonl.
RecordBatch(p) ==
    /\ proc[p].at = "verify"
    /\ LET run == proc[p].run IN
       IF proc[p].short \/ ThisBatch(p) \cap Present # {}
       THEN /\ Raises(p)
            /\ dirs' = [dirs EXCEPT ![run].stopped = TRUE]
       ELSE /\ proc' = [proc EXCEPT ![p].at = "count", ![p].batch = @ + 1]
            /\ dirs' = [dirs EXCEPT ![run].done = @ \cup {proc[p].batch}]
    /\ UNCHANGED <<source, ripe, primary, secondary, catalog, crashes, writes, purged>>

\* The last checks of a collection, and its event in the retention catalog.
Catalogue(p) ==
    /\ proc[p].at = "catalog"
    /\ LET a == proc[p].archive IN
       IF primary[a].ok /\ (proc[p].run.purge => Members(a) \cap Present = {})
       THEN /\ Goes(p, "catalog", "final")
            /\ catalog' = catalog \cup {<<proc[p].run, a>>}
       ELSE Raises(p) /\ UNCHANGED catalog
    /\ UNCHANGED <<source, ripe, primary, secondary, dirs, crashes, writes, purged>>

\* The receipt of the run; the process ends.
Finish(p) ==
    /\ proc[p].at = "final"
    /\ dirs' = [dirs EXCEPT ![proc[p].run].final = TRUE]
    /\ proc' = [proc EXCEPT ![p] = Idle]
    /\ UNCHANGED <<source, ripe, primary, secondary, catalog, crashes, writes, purged>>

Crash(p) ==
    /\ proc[p].at # "idle"
    /\ crashes < MaxCrashes
    /\ crashes' = crashes + 1
    /\ Raises(p)
    /\ UNCHANGED <<source, ripe, primary, secondary, dirs, catalog, writes, purged>>

-----------------------------------------------------------------------------
(* The services and the disks. *)

\* A service inserts or updates a document, one that was purged included.
Write(d) ==
    /\ writes < MaxWrites /\ writes' = writes + 1
    /\ source' = [source EXCEPT ![d] = 1 + (IF @ # 0 THEN @ ELSE purged[d])]
    /\ ripe' \in {ripe \cup {d}, ripe \ {d}}
    /\ proc' = [p \in Processes |-> [proc[p] EXCEPT !.late =
                  IF proc[p].at \in {"count", "delete", "verify"} THEN @ \cup {d} ELSE @]]
    /\ UNCHANGED <<primary, secondary, dirs, catalog, crashes, purged>>

Damaged(file) == {a \in Archives : ~file[a].ok /\ \E d \in Docs : file[a].has[d] # 0}

\* A copy of an archive that a process or a receipt names goes bad.
Damage(a) ==
    /\ ~Fresh(a)
    /\ Cardinality(Damaged(primary)) + Cardinality(Damaged(secondary)) < MaxDamages
    /\ \/ primary[a].ok /\ primary' = [primary EXCEPT ![a].ok = FALSE] /\ UNCHANGED secondary
       \/ secondary[a].ok /\ secondary' = [secondary EXCEPT ![a].ok = FALSE] /\ UNCHANGED primary
    /\ UNCHANGED <<source, ripe, dirs, catalog, proc, crashes, writes, purged>>

-----------------------------------------------------------------------------
Cycle(p) ==
    \/ Plan(p) \/ CopyDocuments(p) \/ Export(p) \/ Replicate(p) \/ WriteReceipt(p)
    \/ Freeze(p) \/ Reconcile(p) \/ CountBatch(p) \/ DeleteBatch(p) \/ RecordBatch(p)
    \/ Catalogue(p) \/ Finish(p)

Next ==
    \/ \E p \in Processes : Cycle(p) \/ Crash(p)
    \/ \E d \in Docs : Write(d)
    \/ \E a \in Archives : Damage(a)

Spec == Init /\ [][Next]_vars

\* The timer or an operator starts the next cycle, and a cycle goes on.
FairSpec == Spec /\ \A p \in Processes : WF_vars(Cycle(p))

-----------------------------------------------------------------------------
(* Properties. *)

Holds(file, a, d) == file[a].ok /\ file[a].has[d] # 0

\* Every document that was ever deleted can be restored: as long as at most one
\* copy went bad, an intact archive holds it, whatever cycles died or raced.
PurgedIsRestorable ==
    \A d \in Docs : purged[d] # 0 =>
        \E a \in Archives : Holds(primary, a, d) \/ Holds(secondary, a, d)

\* The secondary receipt is the lock of a run directory: past it no two processes
\* work on one run, so no batch is deleted or counted twice.
Past == {"freeze", "reconcile", "count", "delete", "verify", "catalog", "final"}

OneProcessPerRun ==
    \A p, q \in Processes :
        proc[p].at \in Past /\ proc[q].at \in Past /\ proc[p].run = proc[q].run => p = q

\* A PURGED event of the catalog is true: every document of the archive it names was
\* deleted, and the archive is the one whose purge the run executed.
CatalogIsTrue ==
    \A c \in catalog : c[1].purge =>
        /\ dirs[c[1]].executed /\ dirs[c[1]].frozen = c[2]
        /\ \A d \in Docs : primary[c[2]].has[d] # 0 => purged[d] # 0

\* Nothing is deleted that differs from its archived copy, unless it was written
\* after the reconciliation before the deletion.
DeletedAsArchived ==
    [][\A d \in Docs :
          purged'[d] # purged[d] =>
            \E p \in Processes :
              /\ proc[p].at = "delete"
              /\ d \in proc[p].late \/ primary[proc[p].archive].has[d] = source[d]]_vars

\* While no process dies, no copy goes bad and no service writes, a half-done run is
\* in the way of the next cycle only when its archive cannot be reconciled, because
\* it has more than PilotMax documents or another order by time than by id.  Such a
\* run stays in the way for good: nothing keeps max_documents_per_cycle (5000 as
\* configured) below PILOT_AUTHORIZED_MAX (463).  Nothing else gets a cycle stuck,
\* the races of cycles included.
Calm == crashes = 0 /\ writes = 0 /\ Damaged(primary) = {} /\ Damaged(secondary) = {}

OnlyUnfitRunsAreStuck ==
    Calm /\ (\A p \in Processes : proc[p].at = "idle") =>
        \A r \in DOMAIN dirs :
            r = NextRun(r.purge) /\ ~dirs[r].final /\ dirs[r].receipt # NoArchive =>
                r.purge /\ ~Fits(dirs[r].receipt)

\* A set that was frozen is purged by this cycle or a later one, whatever died.
IsFrozen(a) == \E r \in DOMAIN dirs : dirs[r].frozen = a
IsPurged(a) == \E r \in DOMAIN dirs : dirs[r].frozen = a /\ dirs[r].executed

FrozenIsPurged == \A a \in Archives : IsFrozen(a) ~> IsPurged(a)
=============================================================================
