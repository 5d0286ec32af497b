--------------------------- MODULE RetentionProofs ---------------------------
(* Theorems about Retention, for any documents, processes, limits, crashes and *)
(* writes of the services; the last one about cycles that nothing disturbs.    *)
EXTENDS Retention, FiniteSetTheorems, TLAPS

\* Where the process compared its archive with the collection, and goes on deleting.
Purging == {"count", "delete", "verify"}

\* A process owns the name of its archive, and from its receipt on its run.
NamesAreOwn ==
    /\ \A p, q \in Processes :
          p # q /\ proc[p].at # "idle" /\ proc[q].at # "idle" => proc[p].archive # proc[q].archive
    /\ \A p \in Processes : proc[p].at = "idle" => proc[p].archive = NoArchive
    /\ \A p \in Processes : proc[p].at \in {"copy", "export", "replicate", "receipt"} =>
          \A r \in DOMAIN dirs : dirs[r].receipt # proc[p].archive
    /\ \A p \in Processes : proc[p].at \in Past =>
          dirs[proc[p].run].receipt = proc[p].archive
    /\ \A r, s \in DOMAIN dirs :
          dirs[r].receipt # NoArchive /\ dirs[r].receipt = dirs[s].receipt => r = s

DirsAreInOrder ==
    \A r \in DOMAIN dirs :
        /\ dirs[r].frozen \in {NoArchive, dirs[r].receipt}
        /\ dirs[r].executed => dirs[r].frozen # NoArchive
        /\ dirs[r].frozen = NoArchive => dirs[r].done = {}

StepsAreInOrder ==
    \A p \in Processes :
        LET dir == dirs[proc[p].run] IN
        /\ proc[p].at = "freeze" => dir.frozen = NoArchive
        /\ proc[p].at = "reconcile" => dir.done = {}
        /\ proc[p].at \in {"reconcile"} \cup Purging => dir.frozen = proc[p].archive
        /\ proc[p].at \in {"catalog", "final"} /\ proc[p].run.purge =>
              dir.frozen = proc[p].archive /\ dir.executed

CopiesAgree ==
    /\ \A r \in DOMAIN dirs : dirs[r].receipt # NoArchive =>
          secondary[dirs[r].receipt].has = primary[dirs[r].receipt].has
    /\ \A p \in Processes : proc[p].at = "receipt" =>
          secondary[proc[p].archive].has = primary[proc[p].archive].has

ArchivedWasThere ==
    \A d \in Docs :
        /\ \A a \in Archives : primary[a].has[d] # 0 => source[d] # 0 \/ purged[d] # 0
        /\ \A p \in Processes : proc[p].seen[d] # 0 => source[d] # 0 \/ purged[d] # 0

ComparedIsSame ==
    \A p \in Processes : proc[p].at \in Purging =>
        \A d \in Members(proc[p].archive) :
            d \in proc[p].late \/ source[d] \in {0, primary[proc[p].archive].has[d]}

PurgedIsArchived ==
    \A d \in Docs : purged[d] # 0 =>
        \E r \in DOMAIN dirs :
            dirs[r].frozen # NoArchive /\ primary[dirs[r].frozen].has[d] # 0

CatalogIsOfRuns == \A c \in catalog : c[1] \in DOMAIN dirs

OneCopyAtMost == Damaged(primary) = {} \/ Damaged(secondary) = {}

RInv ==
    /\ RetentionTypeOK /\ NamesAreOwn /\ DirsAreInOrder /\ StepsAreInOrder /\ CopiesAgree
    /\ ArchivedWasThere /\ ComparedIsSame /\ PurgedIsArchived /\ CatalogIsOfRuns
    /\ CatalogIsTrue

-----------------------------------------------------------------------------
(* Facts about the state. *)

LEMMA Counts ==
    ASSUME NEW S \in SUBSET Docs
    PROVE  Cardinality(S) \in Nat
  BY RetentionAssumption, FS_Subset, FS_CardinalityType

LEMMA RequiredIsNat ==
    Required \in Nat
  BY Counts, RetentionAssumption DEF Required, Present

LEMMA RunIsTyped ==
    ASSUME RetentionTypeOK, NEW purge \in Modes
    PROVE  NextRun(purge) \in RunIds
  <1>1. First(Limit(Required), ripe) \in SUBSET Docs
    BY DEF First, RetentionTypeOK
  <1> QED
    BY <1>1, RequiredIsNat, RetentionAssumption DEF NextRun, RunIds

LEMMA IdleIsTyped ==
    /\ Idle \in Locals /\ Idle.at = "idle" /\ Idle.archive = NoArchive
    /\ Idle.seen = [d \in Docs |-> 0]
  BY DEF Idle, Locals, Steps

LEMMA ContentIsTyped ==
    ASSUME RetentionTypeOK, NEW S
    PROVE  Content(S) \in [Docs -> Nat]
  BY DEF Content, RetentionTypeOK

LEMMA BatchIsArchived ==
    ASSUME NEW p
    PROVE  ThisBatch(p) \subseteq Members(proc[p].archive) /\ ThisBatch(p) \subseteq Docs
  BY DEF ThisBatch, Batch, Members

\* The fields of a process and of its run directory.
LEMMA Working ==
    ASSUME RetentionTypeOK, NEW p \in Processes
    PROVE  /\ proc[p] \in Locals
           /\ proc[p].at # "idle" =>
                 /\ proc[p].run \in DOMAIN dirs /\ proc[p].run \in RunIds
                 /\ proc[p].archive \in Archives /\ dirs[proc[p].run] \in RunDirs
                 /\ proc[p].archive # NoArchive
                 /\ primary[proc[p].archive] \in Files /\ secondary[proc[p].archive] \in Files
  BY RetentionAssumption DEF RetentionTypeOK

LEMMA GoneOn ==
    ASSUME NEW l \in Locals, NEW s \in Steps
    PROVE  [l EXCEPT !.at = s] \in Locals
  BY DEF Locals

LEMMA LaterOn ==
    ASSUME NEW l \in Locals, NEW d \in Docs
    PROVE  [l EXCEPT !.late = @ \cup {d}] \in Locals
  BY DEF Locals

LEMMA Counted ==
    ASSUME NEW l \in Locals
    PROVE  /\ [l EXCEPT !.batch = @ + 1] \in Locals
           /\ [l EXCEPT !.at = "count", !.batch = @ + 1] \in Locals
           /\ [l EXCEPT !.at = "count", !.batch = 0, !.late = {}] \in Locals
  <1>1. l.batch + 1 \in Nat
    BY DEF Locals
  <1>2. [l EXCEPT !.batch = @ + 1] \in Locals
    BY <1>1 DEF Locals
  <1>3. [l EXCEPT !.at = "count", !.batch = @ + 1] \in Locals
    BY <1>1 DEF Locals, Steps
  <1>4. [l EXCEPT !.at = "count", !.batch = 0, !.late = {}] \in Locals
    BY DEF Locals, Steps
  <1> QED
    BY <1>2, <1>3, <1>4

LEMMA Deleted ==
    ASSUME NEW l \in Locals, NEW b \in BOOLEAN
    PROVE  [l EXCEPT !.at = "verify", !.short = b] \in Locals
  BY DEF Locals, Steps

LEMMA Looked ==
    ASSUME NEW l \in Locals, NEW f \in [Docs -> Nat], NEW n \in Nat
    PROVE  [l EXCEPT !.at = "export", !.seen = f, !.matching = n] \in Locals
  BY DEF Locals, Steps

LEMMA Started ==
    ASSUME NEW run \in RunIds, NEW a \in Archives
    PROVE  [Idle EXCEPT !.at = "copy", !.run = run, !.archive = a] \in Locals
  BY DEF Idle, Locals, Steps

-----------------------------------------------------------------------------
(* What a step does to the processes. *)

\* Process p goes on at step s, and only p.
GoesTo(p, s) ==
    /\ proc' = [proc EXCEPT ![p] = proc'[p]]
    /\ proc'[p] \in Locals
    /\ proc'[p].at = s /\ proc'[p].run = proc[p].run /\ proc'[p].archive = proc[p].archive

\* Process p ends.
Ends(p) == proc' = [proc EXCEPT ![p] = Idle] /\ proc'[p] = Idle

LEMMA RaisesEnds ==
    ASSUME RetentionTypeOK, NEW p \in Processes, Raises(p)
    PROVE  Ends(p)
  BY DEF Raises, Ends, RetentionTypeOK

LEMMA GoesOn ==
    ASSUME RetentionTypeOK, NEW p \in Processes, NEW from, NEW s \in Steps, Goes(p, from, s)
    PROVE  /\ GoesTo(p, s)
           /\ proc[p].at = from
           /\ proc'[p].seen = proc[p].seen /\ proc'[p].late = proc[p].late
           /\ proc'[p].batch = proc[p].batch
  <1>1. proc[p] \in Locals /\ proc' = [proc EXCEPT ![p] = [proc[p] EXCEPT !.at = s]]
    BY DEF RetentionTypeOK, Goes
  <1>2. proc'[p] = [proc[p] EXCEPT !.at = s]
    BY <1>1 DEF RetentionTypeOK
  <1>3. proc'[p] \in Locals
    BY <1>1, <1>2, GoneOn
  <1> QED
    BY <1>1, <1>2, <1>3 DEF GoesTo, Goes, Locals

LEMMA CopyStep ==
    ASSUME RetentionTypeOK, NEW p \in Processes, CopyDocuments(p)
    PROVE  /\ proc[p].at = "copy"
           /\ \/ Ends(p)
              \/ /\ GoesTo(p, "export")
                 /\ proc'[p].seen = Content(First(Cardinality(proc[p].run.chosen), ripe))
  <1> DEFINE chosen == First(Cardinality(proc[p].run.chosen), ripe)
  <1>1. CASE chosen = {}
    BY <1>1, RaisesEnds DEF CopyDocuments
  <1>2. CASE chosen # {}
    <2> DEFINE l == [proc[p] EXCEPT !.at = "export", !.seen = Content(chosen),
                                    !.matching = Cardinality(ripe)]
    <2>1. Cardinality(ripe) \in Nat /\ Content(chosen) \in [Docs -> Nat] /\ proc[p] \in Locals
      BY Counts, ContentIsTyped DEF RetentionTypeOK
    <2>2. l \in Locals
      BY <2>1, Looked
    <2>3. proc' = [proc EXCEPT ![p].at = "export", ![p].seen = Content(chosen),
                               ![p].matching = Cardinality(ripe)]
      BY <1>2 DEF CopyDocuments
    <2>4. proc \in [Processes -> Locals]
      BY DEF RetentionTypeOK
    <2> HIDE DEF chosen
    <2>5. proc'[p] = l /\ proc' = [proc EXCEPT ![p] = l]
      BY <2>3, <2>4
    <2> USE DEF chosen
    <2> QED
      BY <2>1, <2>2, <2>5 DEF GoesTo, Locals, CopyDocuments
  <1> QED
    BY <1>1, <1>2 DEF CopyDocuments

LEMMA ExportStep ==
    ASSUME RetentionTypeOK, NEW p \in Processes, Export(p)
    PROVE  /\ proc[p].at = "export"
           /\ \/ Ends(p) /\ UNCHANGED primary
              \/ /\ GoesTo(p, "replicate") /\ proc'[p].seen = proc[p].seen
                 /\ primary' = [primary EXCEPT ![proc[p].archive] =
                                  [has |-> proc[p].seen, ok |-> TRUE]]
  <1>1. CASE Stable(p)
    BY <1>1, GoesOn DEF Export, Steps, Goes
  <1>2. CASE ~Stable(p)
    BY <1>2, RaisesEnds DEF Export
  <1> QED
    BY <1>1, <1>2 DEF Export

LEMMA ReplicateStep ==
    ASSUME RetentionTypeOK, NEW p \in Processes, Replicate(p)
    PROVE  /\ proc[p].at = "replicate"
           /\ \/ Ends(p) /\ UNCHANGED secondary
              \/ /\ GoesTo(p, "receipt") /\ proc'[p].seen = proc[p].seen
                 /\ primary[proc[p].archive].ok
                 /\ secondary' = [secondary EXCEPT ![proc[p].archive] = primary[proc[p].archive]]
  <1>1. CASE primary[proc[p].archive].ok
    BY <1>1, GoesOn DEF Replicate, Steps, Goes
  <1>2. CASE ~primary[proc[p].archive].ok
    BY <1>2, RaisesEnds DEF Replicate
  <1> QED
    BY <1>1, <1>2 DEF Replicate

LEMMA ReceiptStep ==
    ASSUME RetentionTypeOK, NEW p \in Processes, WriteReceipt(p)
    PROVE  /\ proc[p].at = "receipt"
           /\ \/ Ends(p) /\ UNCHANGED dirs
              \/ /\ \/ GoesTo(p, "freeze") /\ proc[p].run.purge
                    \/ GoesTo(p, "catalog") /\ ~proc[p].run.purge
                 /\ proc'[p].seen = proc[p].seen
                 /\ dirs[proc[p].run].receipt \in {NoArchive, proc[p].archive}
                 /\ dirs' = [dirs EXCEPT ![proc[p].run].receipt = proc[p].archive]
  <1>1. CASE dirs[proc[p].run].receipt \in {NoArchive, proc[p].archive}
    <2>1. CASE proc[p].run.purge
      BY <1>1, <2>1, GoesOn DEF WriteReceipt, Steps, Goes
    <2>2. CASE ~proc[p].run.purge
      BY <1>1, <2>2, GoesOn DEF WriteReceipt, Steps, Goes
    <2> QED
      BY <2>1, <2>2
  <1>2. CASE dirs[proc[p].run].receipt \notin {NoArchive, proc[p].archive}
    BY <1>2, RaisesEnds DEF WriteReceipt
  <1> QED
    BY <1>1, <1>2

LEMMA FreezeStep ==
    ASSUME RetentionTypeOK, NEW p \in Processes, Freeze(p)
    PROVE  /\ proc[p].at = "freeze"
           /\ \/ Ends(p) /\ UNCHANGED dirs
              \/ /\ GoesTo(p, "reconcile") /\ proc'[p].seen = proc[p].seen
                 /\ dirs' = [dirs EXCEPT ![proc[p].run].frozen = proc[p].archive]
  <1> DEFINE a == proc[p].archive
             dir == dirs[proc[p].run]
             frozen == dir.frozen = a \/ (dir.frozen = NoArchive /\ primary[a].ok /\ secondary[a].ok)
  <1>1. CASE frozen
    <2>1. Goes(p, "freeze", "reconcile") /\ dirs' = [dirs EXCEPT ![proc[p].run].frozen = a]
      BY <1>1 DEF Freeze
    <2> QED
      BY <2>1, GoesOn DEF Steps
  <1>2. CASE ~frozen
    BY <1>2, RaisesEnds DEF Freeze
  <1> QED
    BY <1>1, <1>2

LEMMA ReconcileStep ==
    ASSUME RetentionTypeOK, NEW p \in Processes, Reconcile(p)
    PROVE  /\ proc[p].at = "reconcile"
           /\ \/ Ends(p)
              \/ /\ GoesTo(p, "catalog") /\ proc'[p].seen = proc[p].seen
                 /\ dirs[proc[p].run].executed
              \/ /\ GoesTo(p, "count") /\ proc'[p].seen = proc[p].seen
                 /\ Reconciled(p)
  <1> DEFINE dir == dirs[proc[p].run]
             absent == Members(proc[p].archive) \ Remaining(p)
             calm == ~dir.stopped /\ absent \cap Present = {} /\ Reconciled(p)
  <1>1. CASE dir.executed /\ Members(proc[p].archive) \cap Present = {}
    <2>1. Goes(p, "reconcile", "catalog")
      BY <1>1 DEF Reconcile
    <2> QED
      BY <1>1, <2>1, GoesOn DEF Steps
  <1>2. CASE dir.executed /\ Members(proc[p].archive) \cap Present # {}
    BY <1>2, RaisesEnds DEF Reconcile
  <1>3. CASE ~dir.executed /\ calm
    <2>1. proc' = [proc EXCEPT ![p].at = "count", ![p].batch = 0, ![p].late = {}]
      BY <1>3 DEF Reconcile
    <2>2. proc \in [Processes -> Locals] /\ proc[p] \in Locals
      BY DEF RetentionTypeOK
    <2>3. proc'[p] = [proc[p] EXCEPT !.at = "count", !.batch = 0, !.late = {}]
      BY <2>1, <2>2
    <2>4. proc' = [proc EXCEPT ![p] = proc'[p]] /\ proc'[p] \in Locals
      BY <2>1, <2>2, <2>3, Counted
    <2> QED
      BY <1>3, <2>2, <2>3, <2>4 DEF GoesTo, Locals, Reconcile
  <1>4. CASE ~dir.executed /\ ~calm
    BY <1>4, RaisesEnds DEF Reconcile
  <1> QED
    BY <1>1, <1>2, <1>3, <1>4

LEMMA CountStep ==
    ASSUME RetentionTypeOK, NEW p \in Processes, CountBatch(p)
    PROVE  /\ proc[p].at = "count"
           /\ \/ Ends(p) /\ UNCHANGED dirs
              \/ Ends(p) /\ dirs' = [dirs EXCEPT ![proc[p].run].stopped = TRUE]
              \/ /\ GoesTo(p, "catalog") /\ proc'[p].seen = proc[p].seen
                 /\ Members(proc[p].archive) \cap Present = {}
                 /\ dirs' = [dirs EXCEPT ![proc[p].run].executed = TRUE]
              \/ /\ GoesTo(p, "count") \/ GoesTo(p, "delete")
                 /\ proc'[p].seen = proc[p].seen /\ proc'[p].late = proc[p].late
                 /\ UNCHANGED dirs
  <1> DEFINE empty == ThisBatch(p) = {}
             purged1 == Members(proc[p].archive) \cap Present = {}
             done1 == proc[p].batch \in dirs[proc[p].run].done
             there == ThisBatch(p) \subseteq Present
  <1>1. CASE empty /\ purged1
    <2>1. Goes(p, "count", "catalog") /\ dirs' = [dirs EXCEPT ![proc[p].run].executed = TRUE]
      BY <1>1 DEF CountBatch
    <2> QED
      BY <1>1, <2>1, GoesOn DEF Steps
  <1>2. CASE empty /\ ~purged1
    BY <1>2, RaisesEnds DEF CountBatch
  <1>3. CASE ~empty /\ done1
    <2>1. proc' = [proc EXCEPT ![p].batch = @ + 1] /\ UNCHANGED dirs /\ proc[p].at = "count"
      BY <1>3 DEF CountBatch
    <2>2. proc \in [Processes -> Locals] /\ proc[p] \in Locals
      BY DEF RetentionTypeOK
    <2>3. proc'[p] = [proc[p] EXCEPT !.batch = @ + 1]
      BY <2>1, <2>2
    <2>4. proc' = [proc EXCEPT ![p] = proc'[p]] /\ proc'[p] \in Locals
      BY <2>1, <2>2, <2>3, Counted
    <2> QED
      BY <2>1, <2>2, <2>3, <2>4 DEF GoesTo, Locals
  <1>4. CASE ~empty /\ ~done1 /\ there
    <2>1. Goes(p, "count", "delete") /\ UNCHANGED dirs
      BY <1>4 DEF CountBatch
    <2> QED
      BY <2>1, GoesOn DEF Steps
  <1>5. CASE ~empty /\ ~done1 /\ ~there
    BY <1>5, RaisesEnds DEF CountBatch
  <1> QED
    BY <1>1, <1>2, <1>3, <1>4, <1>5

LEMMA DeleteStep ==
    ASSUME RetentionTypeOK, NEW p \in Processes, DeleteBatch(p)
    PROVE  /\ proc[p].at = "delete" /\ GoesTo(p, "verify")
           /\ proc'[p].seen = proc[p].seen /\ proc'[p].late = proc[p].late
           /\ \A d \in Docs :
                 IF d \in ThisBatch(p) /\ source[d] # 0
                 THEN source'[d] = 0 /\ purged'[d] = source[d]
                 ELSE source'[d] = source[d] /\ purged'[d] = purged[d]
           /\ source' \in [Docs -> Nat] /\ purged' \in [Docs -> Nat] /\ ripe' \subseteq Docs
  <1> DEFINE gone == ThisBatch(p) \cap Present
             short == gone # ThisBatch(p)
  <1>1. proc' = [proc EXCEPT ![p].at = "verify", ![p].short = short] /\ proc[p].at = "delete"
    BY DEF DeleteBatch
  <1>2. proc \in [Processes -> Locals] /\ proc[p] \in Locals /\ short \in BOOLEAN
    BY DEF RetentionTypeOK
  <1>3. /\ \A d \in Docs : d \in gone <=> d \in ThisBatch(p) /\ source[d] # 0
        /\ source' = [d \in Docs |-> IF d \in gone THEN 0 ELSE source[d]]
        /\ purged' = [d \in Docs |-> IF d \in gone THEN source[d] ELSE purged[d]]
        /\ ripe' = ripe \ gone
    BY DEF DeleteBatch, Present
  <1> HIDE DEF gone, short
  <1>4. proc'[p] = [proc[p] EXCEPT !.at = "verify", !.short = short]
    BY <1>1, <1>2
  <1>5. proc' = [proc EXCEPT ![p] = proc'[p]] /\ proc'[p] \in Locals
    BY <1>1, <1>2, <1>4, Deleted
  <1>6. GoesTo(p, "verify") /\ proc'[p].seen = proc[p].seen /\ proc'[p].late = proc[p].late
    BY <1>2, <1>4, <1>5 DEF GoesTo, Locals
  <1> QED
    BY <1>1, <1>3, <1>6 DEF RetentionTypeOK

LEMMA RecordStep ==
    ASSUME RetentionTypeOK, NEW p \in Processes, RecordBatch(p)
    PROVE  /\ proc[p].at = "verify"
           /\ \/ Ends(p) /\ dirs' = [dirs EXCEPT ![proc[p].run].stopped = TRUE]
              \/ /\ GoesTo(p, "count")
                 /\ proc'[p].seen = proc[p].seen /\ proc'[p].late = proc[p].late
                 /\ dirs' = [dirs EXCEPT ![proc[p].run].done = @ \cup {proc[p].batch}]
  <1> DEFINE bad == proc[p].short \/ ThisBatch(p) \cap Present # {}
  <1>1. CASE bad
    BY <1>1, RaisesEnds DEF RecordBatch
  <1>2. CASE ~bad
    <2>1. /\ proc' = [proc EXCEPT ![p].at = "count", ![p].batch = @ + 1]
          /\ dirs' = [dirs EXCEPT ![proc[p].run].done = @ \cup {proc[p].batch}]
          /\ proc[p].at = "verify"
      BY <1>2 DEF RecordBatch
    <2>2. proc \in [Processes -> Locals] /\ proc[p] \in Locals
      BY DEF RetentionTypeOK
    <2>3. proc'[p] = [proc[p] EXCEPT !.at = "count", !.batch = @ + 1]
      BY <2>1, <2>2
    <2>4. proc' = [proc EXCEPT ![p] = proc'[p]] /\ proc'[p] \in Locals
      BY <2>1, <2>2, <2>3, Counted
    <2> QED
      BY <2>1, <2>2, <2>3, <2>4 DEF GoesTo, Locals
  <1> QED
    BY <1>1, <1>2

LEMMA CatalogueStep ==
    ASSUME RetentionTypeOK, NEW p \in Processes, Catalogue(p)
    PROVE  /\ proc[p].at = "catalog"
           /\ \/ Ends(p) /\ UNCHANGED catalog
              \/ /\ GoesTo(p, "final") /\ proc'[p].seen = proc[p].seen
                 /\ proc[p].run.purge => Members(proc[p].archive) \cap Present = {}
                 /\ catalog' = catalog \cup {<<proc[p].run, proc[p].archive>>}
  <1> DEFINE whole == /\ primary[proc[p].archive].ok
                      /\ proc[p].run.purge => Members(proc[p].archive) \cap Present = {}
  <1>1. CASE whole
    <2>1. Goes(p, "catalog", "final") /\ catalog' = catalog \cup {<<proc[p].run, proc[p].archive>>}
      BY <1>1 DEF Catalogue
    <2> QED
      BY <1>1, <2>1, GoesOn DEF Steps
  <1>2. CASE ~whole
    BY <1>2, RaisesEnds DEF Catalogue
  <1> QED
    BY <1>1, <1>2

LEMMA FinishStep ==
    ASSUME RetentionTypeOK, NEW p \in Processes, Finish(p)
    PROVE  /\ proc[p].at = "final" /\ Ends(p)
           /\ dirs' = [dirs EXCEPT ![proc[p].run].final = TRUE]
  BY DEF Finish, Ends, RetentionTypeOK

LEMMA CrashStep ==
    ASSUME RetentionTypeOK, NEW p \in Processes, Crash(p)
    PROVE  Ends(p)
  BY RaisesEnds DEF Crash

LEMMA WriteStep ==
    ASSUME RetentionTypeOK, NEW d \in Docs, Write(d)
    PROVE  /\ proc' \in [Processes -> Locals]
           /\ \A p \in Processes :
                 /\ proc'[p].at = proc[p].at /\ proc'[p].run = proc[p].run
                 /\ proc'[p].archive = proc[p].archive /\ proc'[p].seen = proc[p].seen
                 /\ proc[p].at \in Purging => proc'[p].late = proc[p].late \cup {d}
           /\ source'[d] # 0 /\ \A e \in Docs : e # d => source'[e] = source[e]
           /\ source' \in [Docs -> Nat] /\ ripe' \subseteq Docs
  <1>1. /\ source'[d] # 0 /\ \A e \in Docs : e # d => source'[e] = source[e]
        /\ source' \in [Docs -> Nat] /\ ripe' \subseteq Docs
    BY DEF Write, RetentionTypeOK
  <1>2. ASSUME NEW p \in Processes
        PROVE  /\ proc'[p] \in Locals
               /\ proc'[p].at = proc[p].at /\ proc'[p].run = proc[p].run
               /\ proc'[p].archive = proc[p].archive /\ proc'[p].seen = proc[p].seen
               /\ proc[p].at \in Purging => proc'[p].late = proc[p].late \cup {d}
    <2>1. proc[p] \in Locals
      BY DEF RetentionTypeOK
    <2>2. CASE proc[p].at \in Purging
      <3>1. proc'[p] = [proc[p] EXCEPT !.late = @ \cup {d}]
        BY <2>2 DEF Write, Purging
      <3> QED
        BY <2>1, <3>1, LaterOn DEF Locals
    <2>3. CASE proc[p].at \notin Purging
      <3>1. proc'[p] = [proc[p] EXCEPT !.late = @]
        BY <2>3 DEF Write, Purging
      <3>2. proc'[p] = proc[p]
        BY <2>1, <3>1 DEF Locals
      <3> QED
        BY <2>1, <2>3, <3>2
    <2> QED
      BY <2>2, <2>3
  <1>3. proc' \in [Processes -> Locals]
    BY <1>2 DEF Write
  <1> QED
    BY <1>1, <1>2, <1>3

LEMMA PlanStep ==
    ASSUME RetentionTypeOK, NEW p \in Processes, Plan(p)
    PROVE  \E run \in RunIds, a \in Archives :
              /\ proc[p].at = "idle" /\ Fresh(a)
              /\ proc' = [proc EXCEPT ![p] = proc'[p]] /\ proc'[p] \in Locals
              /\ proc'[p].at = "copy" /\ proc'[p].run = run /\ proc'[p].archive = a
              /\ proc'[p].seen = [d \in Docs |-> 0]
              /\ primary' = [primary EXCEPT ![a] = NoFile]
              /\ secondary' = [secondary EXCEPT ![a] = NoFile]
              /\ DOMAIN dirs' = DOMAIN dirs \cup {run} /\ dirs' \in [DOMAIN dirs' -> RunDirs]
              /\ \A r \in DOMAIN dirs : dirs'[r] = dirs[r]
              /\ run \notin DOMAIN dirs => dirs'[run] = NewDir
  <1>1. PICK purge \in Modes, a \in Archives :
           /\ Fresh(a)
           /\ dirs' = MakeDir(NextRun(purge))
           /\ proc' = [proc EXCEPT ![p] = [Idle EXCEPT !.at = "copy", !.run = NextRun(purge),
                                                      !.archive = a]]
           /\ primary' = [primary EXCEPT ![a] = NoFile]
           /\ secondary' = [secondary EXCEPT ![a] = NoFile]
    BY DEF Plan
  <1> DEFINE run == NextRun(purge)
             l == [Idle EXCEPT !.at = "copy", !.run = run, !.archive = a]
  <1>2. run \in RunIds
    BY RunIsTyped
  <1> HIDE DEF run
  <1>3. l \in Locals /\ l.at = "copy" /\ l.run = run /\ l.archive = a
        /\ l.seen = [d \in Docs |-> 0]
    BY <1>2, Started DEF Idle
  <1>4. proc' = [proc EXCEPT ![p] = l] /\ proc'[p] = l
    BY <1>1 DEF RetentionTypeOK, run
  <1> HIDE DEF l
  <1>5. NewDir \in RunDirs
    BY DEF NewDir, RunDirs
  <1>6. dirs' = [r \in DOMAIN dirs \cup {run} |-> IF r \in DOMAIN dirs THEN dirs[r] ELSE NewDir]
    BY <1>1 DEF MakeDir, run
  <1>7. /\ DOMAIN dirs' = DOMAIN dirs \cup {run} /\ dirs' \in [DOMAIN dirs' -> RunDirs]
        /\ \A r \in DOMAIN dirs : dirs'[r] = dirs[r]
        /\ run \notin DOMAIN dirs => dirs'[run] = NewDir
    BY <1>5, <1>6 DEF RetentionTypeOK
  <1>8. proc[p].at = "idle"
    BY DEF Plan
  <1> QED
    BY <1>1, <1>2, <1>3, <1>4, <1>7, <1>8

\* The change of one field of the directory of run r.
DirChanges(r) ==
    \/ \E a \in Archives : \/ dirs' = [dirs EXCEPT ![r].receipt = a]
                           \/ dirs' = [dirs EXCEPT ![r].frozen = a]
    \/ \E n \in Nat : dirs' = [dirs EXCEPT ![r].done = @ \cup {n}]
    \/ dirs' = [dirs EXCEPT ![r].stopped = TRUE]
    \/ dirs' = [dirs EXCEPT ![r].executed = TRUE]
    \/ dirs' = [dirs EXCEPT ![r].final = TRUE]
    \/ UNCHANGED dirs

LEMMA DirsStayTyped ==
    ASSUME RetentionTypeOK, NEW r \in DOMAIN dirs, DirChanges(r)
    PROVE  /\ DOMAIN dirs' = DOMAIN dirs /\ dirs' \in [DOMAIN dirs' -> RunDirs]
           /\ \A s \in DOMAIN dirs : s # r => dirs'[s] = dirs[s]
  <1>1. DOMAIN dirs' = DOMAIN dirs /\ \A s \in DOMAIN dirs : s # r => dirs'[s] = dirs[s]
    BY DEF DirChanges
  <1>2. dirs[r] \in RunDirs
    BY DEF RetentionTypeOK
  <1>3. dirs'[r] \in RunDirs
    <2>1. ASSUME NEW a \in Archives
          PROVE  /\ [dirs[r] EXCEPT !.receipt = a] \in RunDirs
                 /\ [dirs[r] EXCEPT !.frozen = a] \in RunDirs
      BY <1>2 DEF RunDirs
    <2>2. ASSUME NEW n \in Nat
          PROVE  [dirs[r] EXCEPT !.done = @ \cup {n}] \in RunDirs
      BY <1>2 DEF RunDirs
    <2>3. /\ [dirs[r] EXCEPT !.stopped = TRUE] \in RunDirs
          /\ [dirs[r] EXCEPT !.executed = TRUE] \in RunDirs
          /\ [dirs[r] EXCEPT !.final = TRUE] \in RunDirs
      BY <1>2 DEF RunDirs
    <2> QED
      BY <1>2, <2>1, <2>2, <2>3 DEF DirChanges, RetentionTypeOK
  <1>4. \A s \in DOMAIN dirs : dirs'[s] \in RunDirs
    BY <1>1, <1>3 DEF RetentionTypeOK
  <1>5. dirs' = [s \in DOMAIN dirs |-> dirs'[s]]
    BY DEF DirChanges, RetentionTypeOK
  <1> QED
    BY <1>1, <1>4, <1>5

\* What a step leaves alone.
LEMMA Frames ==
    ASSUME NEW p \in Processes
    PROVE  /\ CopyDocuments(p) \/ Reconcile(p) =>
                 UNCHANGED <<source, ripe, primary, secondary, dirs, catalog, crashes, writes, purged>>
           /\ Plan(p) => UNCHANGED <<source, ripe, catalog, crashes, writes, purged>>
           /\ Export(p) =>
                 UNCHANGED <<source, ripe, secondary, dirs, catalog, crashes, writes, purged>>
           /\ Replicate(p) =>
                 UNCHANGED <<source, ripe, primary, dirs, catalog, crashes, writes, purged>>
           /\ WriteReceipt(p) \/ Freeze(p) \/ CountBatch(p) \/ RecordBatch(p) \/ Finish(p) =>
                 UNCHANGED <<source, ripe, primary, secondary, catalog, crashes, writes, purged>>
           /\ DeleteBatch(p) => UNCHANGED <<primary, secondary, dirs, catalog, crashes, writes>>
           /\ Catalogue(p) =>
                 UNCHANGED <<source, ripe, primary, secondary, dirs, crashes, writes, purged>>
           /\ Crash(p) =>
                 UNCHANGED <<source, ripe, primary, secondary, dirs, catalog, writes, purged>>
  <1>1. CopyDocuments(p) \/ Reconcile(p) =>
           UNCHANGED <<source, ripe, primary, secondary, dirs, catalog, crashes, writes, purged>>
    BY DEF CopyDocuments, Reconcile
  <1>2. Plan(p) => UNCHANGED <<source, ripe, catalog, crashes, writes, purged>>
    BY DEF Plan
  <1>3. Export(p) => UNCHANGED <<source, ripe, secondary, dirs, catalog, crashes, writes, purged>>
    BY DEF Export
  <1>4. Replicate(p) => UNCHANGED <<source, ripe, primary, dirs, catalog, crashes, writes, purged>>
    BY DEF Replicate
  <1>5. WriteReceipt(p) \/ Freeze(p) \/ CountBatch(p) \/ RecordBatch(p) \/ Finish(p) =>
           UNCHANGED <<source, ripe, primary, secondary, catalog, crashes, writes, purged>>
    BY DEF WriteReceipt, Freeze, CountBatch, RecordBatch, Finish
  <1>6. DeleteBatch(p) => UNCHANGED <<primary, secondary, dirs, catalog, crashes, writes>>
    BY DEF DeleteBatch
  <1>7. Catalogue(p) => UNCHANGED <<source, ripe, primary, secondary, dirs, crashes, writes, purged>>
    BY DEF Catalogue
  <1>8. Crash(p) => UNCHANGED <<source, ripe, primary, secondary, dirs, catalog, writes, purged>>
    BY DEF Crash
  <1> QED
    BY <1>1, <1>2, <1>3, <1>4, <1>5, <1>6, <1>7, <1>8

\* A step of a process after its plan: it ends or goes on, and changes nothing of the
\* others.
LEMMA CycleStep ==
    ASSUME RetentionTypeOK, NEW p \in Processes, Cycle(p) \/ Crash(p), ~Plan(p)
    PROVE  /\ Ends(p) \/ \E s \in Steps : GoesTo(p, s)
           /\ proc[p].at # "idle"
           /\ DirChanges(proc[p].run)
  <1>1. CASE CopyDocuments(p) \/ Reconcile(p)
    BY <1>1, CopyStep, ReconcileStep, Frames DEF Steps, DirChanges
  <1>2. CASE Export(p) \/ Replicate(p)
    BY <1>2, ExportStep, ReplicateStep, Frames DEF Steps, DirChanges
  <1>3. CASE WriteReceipt(p)
    BY <1>3, ReceiptStep, Working DEF Steps, DirChanges
  <1>4. CASE Freeze(p)
    BY <1>4, FreezeStep, Working DEF Steps, DirChanges
  <1>5. CASE CountBatch(p)
    BY <1>5, CountStep DEF Steps, DirChanges
  <1>6. CASE RecordBatch(p)
    <2>1. proc[p].batch \in Nat
      BY Working DEF Locals
    <2> QED
      BY <1>6, <2>1, RecordStep DEF Steps, DirChanges
  <1>7. CASE DeleteBatch(p) \/ Catalogue(p) \/ Finish(p)
    BY <1>7, DeleteStep, CatalogueStep, FinishStep, Frames DEF Steps, DirChanges
  <1>8. CASE Crash(p)
    BY <1>8, CrashStep, Frames DEF Crash, DirChanges
  <1> QED
    BY <1>1, <1>2, <1>3, <1>4, <1>5, <1>6, <1>7, <1>8 DEF Cycle

-----------------------------------------------------------------------------
(* Types. *)

LEMMA InitialTypes ==
    ASSUME Init
    PROVE  RetentionTypeOK
  <1>1. source \in [Docs -> Nat] /\ ripe \subseteq Docs /\ purged \in [Docs -> Nat]
    BY DEF Init
  <1>2. primary \in [Archives -> Files] /\ secondary \in [Archives -> Files]
    BY DEF Init, NoFile, Files
  <1>3. DOMAIN dirs = {} /\ dirs \in [DOMAIN dirs -> RunDirs]
    BY DEF Init
  <1>4. proc \in [Processes -> Locals] /\ \A p \in Processes : proc[p].at = "idle"
    BY IdleIsTyped DEF Init
  <1> QED
    BY <1>1, <1>2, <1>3, <1>4 DEF RetentionTypeOK, Init


LEMMA TypesStay ==
    ASSUME RetentionTypeOK, [Next]_vars
    PROVE  RetentionTypeOK'
  <1>1. ASSUME NEW p \in Processes, Plan(p)
        PROVE  RetentionTypeOK'
    <2>1. PICK run \in RunIds, a \in Archives :
             /\ proc' = [proc EXCEPT ![p] = proc'[p]] /\ proc'[p] \in Locals
             /\ proc'[p].at = "copy" /\ proc'[p].run = run /\ proc'[p].archive = a
             /\ primary' = [primary EXCEPT ![a] = NoFile]
             /\ secondary' = [secondary EXCEPT ![a] = NoFile]
             /\ DOMAIN dirs' = DOMAIN dirs \cup {run} /\ dirs' \in [DOMAIN dirs' -> RunDirs]
      BY <1>1, PlanStep
    <2>2. primary' \in [Archives -> Files] /\ secondary' \in [Archives -> Files]
      BY <2>1 DEF RetentionTypeOK, NoFile, Files
    <2>3. /\ proc' \in [Processes -> Locals]
          /\ \A q \in Processes : proc'[q].at # "idle" =>
                proc'[q].run \in DOMAIN dirs' /\ proc'[q].archive \in Archives
      BY <2>1 DEF RetentionTypeOK
    <2> QED
      BY <1>1, <2>1, <2>2, <2>3, Frames DEF RetentionTypeOK
  <1>2. ASSUME NEW p \in Processes, Cycle(p) \/ Crash(p), ~Plan(p)
        PROVE  RetentionTypeOK'
    <2>1. /\ Ends(p) \/ \E s \in Steps : GoesTo(p, s)
          /\ proc[p].at # "idle" /\ DirChanges(proc[p].run)
      BY <1>2, CycleStep
    <2>2. DOMAIN dirs' = DOMAIN dirs /\ dirs' \in [DOMAIN dirs' -> RunDirs]
      BY <2>1, Working, DirsStayTyped
    <2>3. /\ proc' \in [Processes -> Locals]
          /\ \A q \in Processes : proc'[q].at # "idle" =>
                proc'[q].run \in DOMAIN dirs' /\ proc'[q].archive \in Archives
      BY <2>1, <2>2, IdleIsTyped DEF RetentionTypeOK, Ends, GoesTo
    <2>4. primary' \in [Archives -> Files] /\ secondary' \in [Archives -> Files]
      <3>1. CASE Export(p)
        <4>1. [has |-> proc[p].seen, ok |-> TRUE] \in Files
          BY Working DEF Files, Locals
        <4> QED
          BY <1>2, <3>1, <4>1, ExportStep, Frames DEF RetentionTypeOK
      <3>2. CASE Replicate(p)
        BY <3>2, ReplicateStep, Frames, Working DEF RetentionTypeOK
      <3> QED
        BY <1>2, <3>1, <3>2, Frames DEF Cycle, RetentionTypeOK
    <2>5. catalog' \subseteq RunIds \X Archives
      <3>1. CASE Catalogue(p)
        BY <3>1, CatalogueStep, Working DEF RetentionTypeOK
      <3> QED
        BY <1>2, <3>1, Frames DEF Cycle, RetentionTypeOK
    <2>6. source' \in [Docs -> Nat] /\ purged' \in [Docs -> Nat] /\ ripe' \subseteq Docs
      <3>1. CASE DeleteBatch(p)
        BY <3>1, DeleteStep
      <3> QED
        BY <1>2, <3>1, Frames DEF Cycle, RetentionTypeOK
    <2>7. crashes' \in Nat /\ writes' \in Nat
      <3>1. CASE Crash(p)
        BY <3>1 DEF Crash, RetentionTypeOK
      <3> QED
        BY <1>2, <3>1, Frames DEF Cycle, RetentionTypeOK
    <2> QED
      BY <2>2, <2>3, <2>4, <2>5, <2>6, <2>7 DEF RetentionTypeOK
  <1>3. ASSUME NEW d \in Docs, Write(d)
        PROVE  RetentionTypeOK'
    <2>1. /\ writes' \in Nat
          /\ UNCHANGED <<primary, secondary, dirs, catalog, crashes, purged>>
      BY <1>3 DEF Write, RetentionTypeOK
    <2> QED
      BY <1>3, <2>1, WriteStep DEF RetentionTypeOK
  <1>4. ASSUME NEW a \in Archives, Damage(a)
        PROVE  RetentionTypeOK'
    <2>1. ASSUME NEW file \in [Archives -> Files]
          PROVE  [file EXCEPT ![a].ok = FALSE] \in [Archives -> Files]
      BY DEF Files
    <2>2. /\ primary' \in [Archives -> Files] /\ secondary' \in [Archives -> Files]
          /\ UNCHANGED <<source, ripe, dirs, catalog, proc, crashes, writes, purged>>
      BY <1>4, <2>1 DEF RetentionTypeOK, Damage
    <2> QED
      BY <2>2 DEF RetentionTypeOK
  <1>5. CASE UNCHANGED vars
    BY <1>5 DEF RetentionTypeOK, vars
  <1> QED
    BY <1>1, <1>2, <1>3, <1>4, <1>5 DEF Next, Cycle

-----------------------------------------------------------------------------
(* Names of archives, receipts and steps. *)

Early == {"copy", "export", "replicate", "receipt"}

\* Two processes past their receipts are on different runs.
LEMMA AloneOnRun ==
    ASSUME RetentionTypeOK, NamesAreOwn, NEW p \in Processes, NEW q \in Processes,
           proc[p].at \in Past, proc[q].at \in Past, proc[p].run = proc[q].run
    PROVE  p = q
  BY DEF NamesAreOwn, Past

ReceiptsStay ==
    /\ DOMAIN dirs' = DOMAIN dirs
    /\ \A r \in DOMAIN dirs : dirs'[r].receipt = dirs[r].receipt

\* Only WriteReceipt changes a receipt.
LEMMA ReceiptsKept ==
    ASSUME RetentionTypeOK, NEW p \in Processes, Cycle(p) \/ Crash(p), ~Plan(p), ~WriteReceipt(p)
    PROVE  ReceiptsStay
  <1>1. /\ proc[p].run \in DOMAIN dirs /\ dirs[proc[p].run] \in RunDirs
    BY CycleStep, Working
  <1>2. \A a : (dirs' = [dirs EXCEPT ![proc[p].run].frozen = a]) => ReceiptsStay
    BY <1>1 DEF ReceiptsStay, RunDirs
  <1>3. \A n : (dirs' = [dirs EXCEPT ![proc[p].run].done = @ \cup {n}]) => ReceiptsStay
    BY <1>1 DEF ReceiptsStay, RunDirs
  <1>4. /\ (dirs' = [dirs EXCEPT ![proc[p].run].stopped = TRUE]) => ReceiptsStay
        /\ (dirs' = [dirs EXCEPT ![proc[p].run].executed = TRUE]) => ReceiptsStay
        /\ (dirs' = [dirs EXCEPT ![proc[p].run].final = TRUE]) => ReceiptsStay
        /\ UNCHANGED dirs => ReceiptsStay
    BY <1>1 DEF ReceiptsStay, RunDirs
  <1>5. CASE Freeze(p)
    BY <1>2, <1>4, <1>5, FreezeStep
  <1>6. CASE CountBatch(p)
    BY <1>4, <1>6, CountStep
  <1>7. CASE RecordBatch(p)
    BY <1>3, <1>4, <1>7, RecordStep
  <1>8. CASE Finish(p)
    BY <1>4, <1>8, FinishStep
  <1> QED
    BY <1>4, <1>5, <1>6, <1>7, <1>8, Frames DEF Cycle

\* A process that ends, or goes on without leaving its side of the receipt.
LEMMA NamesStayWithReceipts ==
    ASSUME RetentionTypeOK, NamesAreOwn, NEW p \in Processes, ReceiptsStay,
           \/ Ends(p)
           \/ \E s \in Steps : /\ GoesTo(p, s) /\ s # "idle" /\ proc[p].at # "idle"
                               /\ s \in Early => proc[p].at \in Early
                               /\ s \in Past => proc[p].at \in Past
    PROVE  NamesAreOwn'
  <1>1. CASE Ends(p)
    <2>1. proc'[p].at = "idle" /\ proc'[p].archive = NoArchive
      BY <1>1, IdleIsTyped DEF Ends
    <2>2. \A q \in Processes : q # p => proc'[q] = proc[q]
      BY <1>1 DEF Ends, RetentionTypeOK
    <2> QED
      BY <2>1, <2>2 DEF NamesAreOwn, ReceiptsStay, Early, Past, RetentionTypeOK
  <1>2. ASSUME NEW s \in Steps, GoesTo(p, s), s # "idle", proc[p].at # "idle",
               s \in Early => proc[p].at \in Early, s \in Past => proc[p].at \in Past
        PROVE  NamesAreOwn'
    <2>1. \A q \in Processes :
             /\ proc'[q].archive = proc[q].archive /\ proc'[q].run = proc[q].run
             /\ proc'[q].at = "idle" <=> proc[q].at = "idle"
             /\ proc'[q].at \in Early => proc[q].at \in Early
             /\ proc'[q].at \in Past => proc[q].at \in Past
      BY <1>2 DEF GoesTo, RetentionTypeOK
    <2>2. \A q \in Processes : proc[q].at \in Past => proc[q].run \in DOMAIN dirs
      BY DEF RetentionTypeOK, Past
    <2> QED
      BY <2>1, <2>2 DEF NamesAreOwn, ReceiptsStay, Early
  <1> QED
    BY <1>1, <1>2

LEMMA NamesStay ==
    ASSUME RetentionTypeOK, NamesAreOwn, [Next]_vars
    PROVE  NamesAreOwn'
  <1>1. ASSUME NEW p \in Processes, Plan(p)
        PROVE  NamesAreOwn'
    <2>1. PICK run \in RunIds, a \in Archives :
             /\ proc[p].at = "idle" /\ Fresh(a)
             /\ proc' = [proc EXCEPT ![p] = proc'[p]]
             /\ proc'[p].at = "copy" /\ proc'[p].run = run /\ proc'[p].archive = a
             /\ DOMAIN dirs' = DOMAIN dirs \cup {run}
             /\ \A r \in DOMAIN dirs : dirs'[r] = dirs[r]
             /\ run \notin DOMAIN dirs => dirs'[run] = NewDir
      BY <1>1, PlanStep
    <2>2. /\ \A q \in Processes : q # p => proc'[q] = proc[q]
          /\ a # NoArchive
      BY <2>1, RetentionAssumption DEF RetentionTypeOK
    <2>3. \A r \in DOMAIN dirs' :
             /\ r \in DOMAIN dirs => dirs'[r].receipt = dirs[r].receipt
             /\ r \notin DOMAIN dirs => dirs'[r].receipt = NoArchive
      BY <2>1 DEF NewDir
    <2>4. \A q \in Processes : proc[q].archive # a
      BY <2>1 DEF Fresh
    <2>5. \A r \in DOMAIN dirs' : dirs'[r].receipt # a
      BY <2>1, <2>2, <2>3 DEF Fresh
    <2>6. \A q \in Processes : proc[q].at \in Past \cup Early =>
             proc[q].run \in DOMAIN dirs /\ proc[q].archive \in Archives
      BY DEF RetentionTypeOK, Past, Early
    <2>7. \A q, w \in Processes :
             q # w /\ proc'[q].at # "idle" /\ proc'[w].at # "idle" =>
                proc'[q].archive # proc'[w].archive
      BY <2>1, <2>2, <2>4 DEF NamesAreOwn
    <2>8. \A q \in Processes : proc'[q].at \in Early =>
             \A r \in DOMAIN dirs' : dirs'[r].receipt # proc'[q].archive
      BY <2>1, <2>2, <2>3, <2>5, <2>6, RetentionAssumption DEF NamesAreOwn, Early
    <2>9. \A q \in Processes : proc'[q].at \in Past =>
             dirs'[proc'[q].run].receipt = proc'[q].archive
      BY <2>1, <2>2, <2>6 DEF NamesAreOwn, Past
    <2>10. \A r, t \in DOMAIN dirs' :
             dirs'[r].receipt # NoArchive /\ dirs'[r].receipt = dirs'[t].receipt => r = t
      BY <2>3 DEF NamesAreOwn
    <2>11. \A q \in Processes : proc'[q].at = "idle" => proc'[q].archive = NoArchive
      BY <2>1, <2>2 DEF NamesAreOwn
    <2> QED
      BY <2>7, <2>8, <2>9, <2>10, <2>11 DEF NamesAreOwn, Early
  <1>2. ASSUME NEW p \in Processes, WriteReceipt(p), ~Ends(p)
        PROVE  NamesAreOwn'
    <2> DEFINE r == proc[p].run
               a == proc[p].archive
    <2>1. /\ proc[p].at = "receipt"
          /\ GoesTo(p, "freeze") \/ GoesTo(p, "catalog")
          /\ dirs[r].receipt \in {NoArchive, a} /\ dirs' = [dirs EXCEPT ![r].receipt = a]
      BY <1>2, ReceiptStep
    <2>2. r \in DOMAIN dirs /\ a \in Archives /\ a # NoArchive
      BY <2>1, Working
    <2>3. /\ DOMAIN dirs' = DOMAIN dirs /\ dirs'[r].receipt = a
          /\ \A t \in DOMAIN dirs : t # r => dirs'[t].receipt = dirs[t].receipt
      BY <2>1, <2>2 DEF RetentionTypeOK, RunDirs
    <2>4. dirs[r].receipt = NoArchive /\ \A t \in DOMAIN dirs : dirs[t].receipt # a
      BY <2>1, <2>2 DEF NamesAreOwn
    <2>5. /\ \A q \in Processes : q # p => proc'[q] = proc[q]
          /\ proc'[p].at \in {"freeze", "catalog"} /\ proc'[p].run = r /\ proc'[p].archive = a
      BY <2>1 DEF GoesTo, RetentionTypeOK
    <2> HIDE DEF r, a
    <2>6. \A q \in Processes : q # p /\ proc[q].at # "idle" => proc[q].archive # a
      BY <2>1 DEF NamesAreOwn, a
    <2>7. \A q \in Processes : q # p /\ proc[q].at \in Past =>
             proc[q].run # r /\ proc[q].run \in DOMAIN dirs
      BY <2>4, Working, RetentionAssumption DEF NamesAreOwn, Past, r
    <2>8. \A q, w \in Processes :
             q # w /\ proc'[q].at # "idle" /\ proc'[w].at # "idle" =>
                proc'[q].archive # proc'[w].archive
      BY <2>5, <2>6 DEF NamesAreOwn
    <2>9. \A q \in Processes : proc'[q].at \in Early =>
             \A t \in DOMAIN dirs' : dirs'[t].receipt # proc'[q].archive
      BY <2>3, <2>5, <2>6 DEF NamesAreOwn, Early
    <2>10. \A q \in Processes : proc'[q].at \in Past =>
             dirs'[proc'[q].run].receipt = proc'[q].archive
      BY <2>3, <2>5, <2>7 DEF NamesAreOwn, Past
    <2>11. \A u, t \in DOMAIN dirs' :
             dirs'[u].receipt # NoArchive /\ dirs'[u].receipt = dirs'[t].receipt => u = t
      BY <2>3, <2>4 DEF NamesAreOwn
    <2>12. \A q \in Processes : proc'[q].at = "idle" => proc'[q].archive = NoArchive
      BY <2>5 DEF NamesAreOwn
    <2> QED
      BY <2>8, <2>9, <2>10, <2>11, <2>12 DEF NamesAreOwn, Early
  <1>3. ASSUME NEW p \in Processes, WriteReceipt(p), Ends(p)
        PROVE  NamesAreOwn'
    <2>1. UNCHANGED dirs
      BY <1>3, ReceiptStep, IdleIsTyped DEF Ends, GoesTo
    <2> QED
      BY <1>3, <2>1, NamesStayWithReceipts DEF ReceiptsStay
  <1>4. ASSUME NEW p \in Processes, CopyDocuments(p) \/ Export(p) \/ Replicate(p)
        PROVE  NamesAreOwn'
    BY <1>4, CopyStep, ExportStep, ReplicateStep, Frames, NamesStayWithReceipts
       DEF ReceiptsStay, Early, Past, Steps
  <1>5. ASSUME NEW p \in Processes, Reconcile(p) \/ DeleteBatch(p) \/ Catalogue(p) \/ Crash(p)
        PROVE  NamesAreOwn'
    BY <1>5, ReconcileStep, DeleteStep, CatalogueStep, CrashStep, Frames, NamesStayWithReceipts
       DEF ReceiptsStay, Early, Past, Steps
  <1>6. ASSUME NEW p \in Processes, Freeze(p) \/ CountBatch(p) \/ RecordBatch(p) \/ Finish(p)
        PROVE  NamesAreOwn'
    <2>0. proc[p].at \in {"freeze", "count", "verify", "final"}
      BY <1>6, FreezeStep, CountStep, RecordStep, FinishStep
    <2>1. ReceiptsStay
      BY <1>6, <2>0, ReceiptsKept, PlanStep, ReceiptStep DEF Cycle
    <2> QED
      BY <1>6, <2>1, FreezeStep, CountStep, RecordStep, FinishStep, NamesStayWithReceipts
         DEF Early, Past, Steps
  <1>7. ASSUME NEW d \in Docs, Write(d)
        PROVE  NamesAreOwn'
    <2>1. UNCHANGED dirs
      BY <1>7 DEF Write
    <2> QED
      BY <1>7, <2>1, WriteStep DEF NamesAreOwn, Past
  <1>8. CASE UNCHANGED vars \/ \E a \in Archives : Damage(a)
    BY <1>8 DEF NamesAreOwn, vars, Damage
  <1> QED
    BY <1>1, <1>2, <1>3, <1>4, <1>5, <1>6, <1>7, <1>8 DEF Next, Cycle

LEMMA OthersStay ==
    ASSUME RetentionTypeOK, NEW p \in Processes, Cycle(p) \/ Crash(p),
           NEW q \in Processes, q # p
    PROVE  proc'[q] = proc[q]
  <1>1. CASE Plan(p)
    <2>1. proc' = [proc EXCEPT ![p] = proc'[p]]
      BY <1>1, PlanStep
    <2> QED
      BY <2>1 DEF RetentionTypeOK
  <1>2. CASE ~Plan(p)
    BY <1>2, CycleStep DEF Ends, GoesTo, RetentionTypeOK
  <1> QED
    BY <1>1, <1>2

\* A run that another process is past the receipt of is left alone.
LEMMA OthersRunsStay ==
    ASSUME RetentionTypeOK, NamesAreOwn, NEW p \in Processes, Cycle(p) \/ Crash(p),
           NEW q \in Processes, q # p, proc[q].at \in Past
    PROVE  dirs'[proc[q].run] = dirs[proc[q].run] /\ proc'[q] = proc[q]
  <1>1. proc[q].run \in DOMAIN dirs /\ proc[q].archive # NoArchive
    BY Working DEF Past
  <1>2. CASE Plan(p)
    <2>1. \A r \in DOMAIN dirs : dirs'[r] = dirs[r]
      BY <1>2, PlanStep
    <2> QED
      BY <1>1, <2>1, OthersStay
  <1>3. CASE ~Plan(p)
    <2>1. proc'[q] = proc[q]
      BY OthersStay
    <2>2. proc[p].at # "idle" /\ DirChanges(proc[p].run) /\ proc[p].run \in DOMAIN dirs
      BY <1>3, CycleStep, Working
    <2>3. CASE proc[p].run # proc[q].run
      BY <1>1, <2>1, <2>2, <2>3, DirsStayTyped
    <2>4. CASE proc[p].run = proc[q].run
      <3>1. proc[p].at \notin Past
        BY <2>4, AloneOnRun
      <3>2. proc[p].at \in Early
        BY <2>2, <3>1, Working DEF Locals, Steps, Past, Early
      <3>3. dirs[proc[p].run].receipt \notin {NoArchive, proc[p].archive}
        BY <1>1, <2>2, <2>4, <3>2 DEF NamesAreOwn, Early
      <3>4. UNCHANGED dirs
        BY <1>3, <3>1, <3>3, ReceiptStep, CopyStep, ExportStep, ReplicateStep, Frames, FreezeStep,
           ReconcileStep, CountStep, DeleteStep, RecordStep, CatalogueStep, FinishStep
           DEF Cycle, Past
      <3> QED
        BY <2>1, <3>4
    <2> QED
      BY <2>3, <2>4
  <1> QED
    BY <1>2, <1>3

\* What StepsAreInOrder says of one process.
InOrder(p) ==
    LET dir == dirs[proc[p].run] IN
    /\ proc[p].at = "freeze" => dir.frozen = NoArchive
    /\ proc[p].at = "reconcile" => dir.done = {}
    /\ proc[p].at \in {"reconcile"} \cup Purging => dir.frozen = proc[p].archive
    /\ proc[p].at \in {"catalog", "final"} /\ proc[p].run.purge =>
          dir.frozen = proc[p].archive /\ dir.executed

DirInOrder(dir) ==
    /\ dir.frozen \in {NoArchive, dir.receipt}
    /\ dir.executed => dir.frozen # NoArchive
    /\ dir.frozen = NoArchive => dir.done = {}

LEMMA OthersInOrder ==
    ASSUME RetentionTypeOK, NamesAreOwn, StepsAreInOrder, NEW p \in Processes,
           Cycle(p) \/ Crash(p), InOrder(p)'
    PROVE  StepsAreInOrder'
  <1>1. ASSUME NEW q \in Processes, q # p
        PROVE  InOrder(q)'
    <2>1. proc'[q] = proc[q]
      BY <1>1, OthersStay
    <2>2. CASE proc[q].at \in Past
      BY <1>1, <2>2, OthersRunsStay DEF StepsAreInOrder, InOrder
    <2>3. CASE proc[q].at \notin Past
      BY <2>1, <2>3 DEF InOrder, Past, Purging
    <2> QED
      BY <2>2, <2>3
  <1> QED
    BY <1>1 DEF StepsAreInOrder, InOrder

LEMMA OrderStays ==
    ASSUME RetentionTypeOK, NamesAreOwn, DirsAreInOrder, StepsAreInOrder, [Next]_vars
    PROVE  DirsAreInOrder' /\ StepsAreInOrder'
  <1>1. ASSUME NEW p \in Processes, Plan(p)
        PROVE  DirsAreInOrder' /\ StepsAreInOrder'
    <2>0. PICK run \in RunIds :
             /\ proc'[p].at = "copy"
             /\ DOMAIN dirs' = DOMAIN dirs \cup {run}
             /\ \A r \in DOMAIN dirs : dirs'[r] = dirs[r]
             /\ run \notin DOMAIN dirs => dirs'[run] = NewDir
      BY <1>1, PlanStep
    <2>1. InOrder(p)'
      BY <2>0 DEF InOrder, Purging
    <2>2. DirsAreInOrder'
      BY <2>0 DEF DirsAreInOrder, NewDir
    <2> QED
      BY <1>1, <2>1, <2>2, OthersInOrder DEF Cycle
  <1>2. ASSUME NEW p \in Processes, Cycle(p) \/ Crash(p), ~Plan(p)
        PROVE  DirsAreInOrder' /\ StepsAreInOrder'
    <2> DEFINE r == proc[p].run
               a == proc[p].archive
    <2>1. /\ r \in DOMAIN dirs /\ a \in Archives /\ a # NoArchive /\ dirs[r] \in RunDirs
          /\ DirChanges(r)
          /\ Ends(p) \/ \E s \in Steps : GoesTo(p, s)
      BY <1>2, CycleStep, Working
    <2>2. DirInOrder(dirs[r]) /\ InOrder(p)
      BY <2>1 DEF DirsAreInOrder, DirInOrder, StepsAreInOrder, InOrder
    <2>3. proc[p].at \in Past => dirs[r].receipt = a
      BY DEF NamesAreOwn
    <2> HIDE DEF r, a
    <2>4. Ends(p) => InOrder(p)'
      BY IdleIsTyped DEF Ends, InOrder, Purging
    <2>5. \A s \in Steps : GoesTo(p, s) => proc'[p].run = r /\ proc'[p].archive = a /\ proc'[p].at = s
      BY DEF GoesTo, r, a
    <2>6. DirInOrder(dirs'[r]) /\ InOrder(p)'
      <3>1. CASE CopyDocuments(p) \/ Export(p) \/ Replicate(p)
        <4>1. UNCHANGED dirs
          BY <3>1, Frames
        <4> QED
          BY <2>2, <2>4, <2>5, <3>1, <4>1, CopyStep, ExportStep, ReplicateStep
             DEF InOrder, Purging, Steps
      <3>2. CASE WriteReceipt(p)
        <4>1. CASE Ends(p) /\ UNCHANGED dirs
          BY <2>2, <2>4, <4>1
        <4>2. CASE /\ \/ GoesTo(p, "freeze") /\ proc[p].run.purge
                      \/ GoesTo(p, "catalog") /\ ~proc[p].run.purge
                   /\ dirs[r].receipt \in {NoArchive, a}
                   /\ dirs' = [dirs EXCEPT ![r].receipt = a]
          <5>1. dirs[r].receipt = NoArchive
            BY <2>1, <3>2, <4>2, ReceiptStep DEF NamesAreOwn, a
          <5>2. dirs[r].frozen = NoArchive /\ dirs[r].done = {} /\ ~dirs[r].executed
            BY <2>2, <5>1 DEF DirInOrder
          <5>3. dirs'[r].frozen = NoArchive /\ dirs'[r].done = {} /\ ~dirs'[r].executed
            BY <2>1, <4>2, <5>2 DEF RunDirs, RetentionTypeOK
          <5>4. InOrder(p)'
            BY <2>5, <4>2, <5>3 DEF InOrder, Purging, Steps, r
          <5> QED
            BY <5>3, <5>4 DEF DirInOrder
        <4> QED
          BY <3>2, <4>1, <4>2, ReceiptStep DEF r, a
      <3>3. CASE Freeze(p)
        <4>1. CASE Ends(p) /\ UNCHANGED dirs
          BY <2>2, <2>4, <4>1
        <4>2. CASE GoesTo(p, "reconcile") /\ dirs' = [dirs EXCEPT ![r].frozen = a]
          <5>1. dirs[r].frozen = NoArchive /\ dirs[r].done = {} /\ dirs[r].receipt = a
            BY <2>2, <2>3, <3>3, FreezeStep DEF InOrder, DirInOrder, r, Past
          <5>2. dirs'[r].frozen = a /\ dirs'[r].done = {} /\ dirs'[r].receipt = a
            BY <2>1, <4>2, <5>1 DEF RunDirs, RetentionTypeOK
          <5> QED
            BY <2>1, <2>5, <4>2, <5>2 DEF InOrder, Purging, Steps, DirInOrder
        <4> QED
          BY <3>3, <4>1, <4>2, FreezeStep DEF r, a
      <3>4. CASE Reconcile(p)
        <4>1. UNCHANGED dirs /\ proc[p].at = "reconcile" /\ dirs[r].frozen = a
          BY <2>2, <3>4, Frames, ReconcileStep DEF InOrder, r, a
        <4> QED
          BY <2>2, <2>4, <2>5, <3>4, <4>1, ReconcileStep DEF InOrder, Purging, Steps, r
      <3>5. CASE CountBatch(p)
        <4>1. proc[p].at = "count" /\ dirs[r].frozen = a
          BY <2>2, <3>5, CountStep DEF InOrder, Purging, r, a
        <4>2. CASE Ends(p) /\ UNCHANGED dirs
          BY <2>2, <2>4, <4>2
        <4>3. CASE Ends(p) /\ dirs' = [dirs EXCEPT ![r].stopped = TRUE]
          <5>1. /\ dirs'[r].frozen = dirs[r].frozen /\ dirs'[r].executed = dirs[r].executed
                /\ dirs'[r].done = dirs[r].done /\ dirs'[r].receipt = dirs[r].receipt
            BY <2>1, <4>3 DEF RunDirs, RetentionTypeOK
          <5> QED
            BY <2>2, <2>4, <4>3, <5>1 DEF DirInOrder
        <4>4. CASE GoesTo(p, "catalog") /\ dirs' = [dirs EXCEPT ![r].executed = TRUE]
          <5>1. /\ dirs'[r].frozen = a /\ dirs'[r].executed
                /\ dirs'[r].done = dirs[r].done /\ dirs'[r].receipt = dirs[r].receipt
            BY <2>1, <4>1, <4>4 DEF RunDirs, RetentionTypeOK
          <5> QED
            BY <2>1, <2>2, <2>5, <4>1, <4>4, <5>1 DEF DirInOrder, InOrder, Purging, Steps
        <4>5. CASE (GoesTo(p, "count") \/ GoesTo(p, "delete")) /\ UNCHANGED dirs
          BY <2>2, <2>5, <4>1, <4>5 DEF InOrder, Purging, Steps
        <4> QED
          BY <3>5, <4>2, <4>3, <4>4, <4>5, CountStep DEF r
      <3>6. CASE DeleteBatch(p)
        <4>1. UNCHANGED dirs /\ dirs[r].frozen = a /\ GoesTo(p, "verify")
          BY <2>2, <3>6, Frames, DeleteStep DEF InOrder, Purging, r, a
        <4> QED
          BY <2>2, <2>5, <4>1 DEF InOrder, Purging, Steps
      <3>7. CASE RecordBatch(p)
        <4>1. proc[p].at = "verify" /\ dirs[r].frozen = a
          BY <2>2, <3>7, RecordStep DEF InOrder, Purging, r, a
        <4>2. CASE Ends(p) /\ dirs' = [dirs EXCEPT ![r].stopped = TRUE]
          <5>1. /\ dirs'[r].frozen = dirs[r].frozen /\ dirs'[r].executed = dirs[r].executed
                /\ dirs'[r].done = dirs[r].done /\ dirs'[r].receipt = dirs[r].receipt
            BY <2>1, <4>2 DEF RunDirs, RetentionTypeOK
          <5> QED
            BY <2>2, <2>4, <4>2, <5>1 DEF DirInOrder
        <4>3. CASE /\ GoesTo(p, "count")
                   /\ dirs' = [dirs EXCEPT ![r].done = @ \cup {proc[p].batch}]
          <5>1. dirs'[r].frozen = a /\ dirs'[r].receipt = dirs[r].receipt
            BY <2>1, <4>1, <4>3 DEF RunDirs, RetentionTypeOK
          <5> QED
            BY <2>1, <2>2, <2>5, <4>1, <4>3, <5>1 DEF DirInOrder, InOrder, Purging, Steps
        <4> QED
          BY <3>7, <4>2, <4>3, RecordStep DEF r
      <3>8. CASE Catalogue(p)
        <4>1. UNCHANGED dirs /\ proc[p].at = "catalog"
          BY <3>8, Frames, CatalogueStep
        <4>2. CASE Ends(p)
          BY <2>2, <2>4, <4>1, <4>2
        <4>3. CASE GoesTo(p, "final")
          BY <2>2, <2>5, <4>1, <4>3 DEF InOrder, Purging, Steps, r, a
        <4> QED
          BY <3>8, <4>2, <4>3, CatalogueStep
      <3>9. CASE Finish(p)
        <4>1. Ends(p) /\ dirs' = [dirs EXCEPT ![r].final = TRUE]
          BY <3>9, FinishStep DEF r
        <4>2. /\ dirs'[r].frozen = dirs[r].frozen /\ dirs'[r].executed = dirs[r].executed
              /\ dirs'[r].done = dirs[r].done /\ dirs'[r].receipt = dirs[r].receipt
          BY <2>1, <4>1 DEF RunDirs, RetentionTypeOK
        <4> QED
          BY <2>2, <2>4, <4>1, <4>2 DEF DirInOrder
      <3>10. CASE Crash(p)
        BY <2>2, <2>4, <3>10, CrashStep, Frames
      <3> QED
        BY <1>2, <3>1, <3>2, <3>3, <3>4, <3>5, <3>6, <3>7, <3>8, <3>9, <3>10 DEF Cycle
    <2>7. DirsAreInOrder'
      <3>1. /\ DOMAIN dirs' = DOMAIN dirs
            /\ \A t \in DOMAIN dirs : t # r => dirs'[t] = dirs[t]
        BY <2>1, DirsStayTyped
      <3>2. \A t \in DOMAIN dirs : t # r => DirInOrder(dirs'[t])
        BY <3>1 DEF DirsAreInOrder, DirInOrder
      <3> QED
        BY <2>1, <2>6, <3>1, <3>2 DEF DirsAreInOrder, DirInOrder
    <2>8. StepsAreInOrder'
      BY <1>2, <2>6, OthersInOrder
    <2> QED
      BY <2>7, <2>8
  <1>3. ASSUME NEW d \in Docs, Write(d)
        PROVE  DirsAreInOrder' /\ StepsAreInOrder'
    <2>1. UNCHANGED dirs
      BY <1>3 DEF Write
    <2> QED
      BY <1>3, <2>1, WriteStep DEF DirsAreInOrder, StepsAreInOrder, Purging
  <1>4. CASE UNCHANGED vars \/ \E a \in Archives : Damage(a)
    BY <1>4 DEF DirsAreInOrder, StepsAreInOrder, vars, Damage
  <1> QED
    BY <1>1, <1>2, <1>3, <1>4 DEF Next, Cycle

-----------------------------------------------------------------------------
(* What a receipt names stays. *)

\* Archive b is named by a receipt, or by a process that finished its copies.
Held(b) ==
    \/ \E r \in DOMAIN dirs : dirs[r].receipt = b
    \/ \E q \in Processes : proc[q].at \in {"receipt"} \cup Past /\ proc[q].archive = b

LEMMA HeldStays ==
    ASSUME RetentionTypeOK, NamesAreOwn, [Next]_vars, NEW b \in Archives, Held(b)
    PROVE  primary'[b].has = primary[b].has /\ secondary'[b].has = secondary[b].has
  <1>1. ASSUME NEW p \in Processes, Plan(p)
        PROVE  primary'[b] = primary[b] /\ secondary'[b] = secondary[b]
    <2>1. PICK a \in Archives : /\ Fresh(a)
                                /\ primary' = [primary EXCEPT ![a] = NoFile]
                                /\ secondary' = [secondary EXCEPT ![a] = NoFile]
      BY <1>1, PlanStep
    <2>2. a # b
      BY <2>1 DEF Fresh, Held
    <2> QED
      BY <2>1, <2>2 DEF RetentionTypeOK
  <1>2. ASSUME NEW p \in Processes, proc[p].at \in {"export", "replicate"}
        PROVE  proc[p].archive # b
    BY <1>2 DEF Held, NamesAreOwn, Past
  <1>3. ASSUME NEW p \in Processes, Export(p)
        PROVE  primary'[b] = primary[b] /\ secondary'[b] = secondary[b]
    <2>1. proc[p].archive # b
      BY <1>2, <1>3, ExportStep
    <2> QED
      BY <1>3, <2>1, ExportStep, Frames DEF RetentionTypeOK
  <1>4. ASSUME NEW p \in Processes, Replicate(p)
        PROVE  primary'[b] = primary[b] /\ secondary'[b] = secondary[b]
    <2>1. proc[p].archive # b
      BY <1>2, <1>4, ReplicateStep
    <2> QED
      BY <1>4, <2>1, ReplicateStep, Frames DEF RetentionTypeOK
  <1>5. ASSUME NEW a \in Archives, Damage(a)
        PROVE  primary'[b].has = primary[b].has /\ secondary'[b].has = secondary[b].has
    <2>1. /\ primary \in [Archives -> Files] /\ secondary \in [Archives -> Files]
          /\ primary[b] \in Files /\ secondary[b] \in Files
      BY DEF RetentionTypeOK
    <2>2. CASE primary' = [primary EXCEPT ![a].ok = FALSE] /\ UNCHANGED secondary
      BY <2>1, <2>2 DEF Files
    <2>3. CASE secondary' = [secondary EXCEPT ![a].ok = FALSE] /\ UNCHANGED primary
      BY <2>1, <2>3 DEF Files
    <2> QED
      BY <1>5, <2>2, <2>3 DEF Damage
  <1>6. ASSUME NEW d \in Docs, Write(d)
        PROVE  UNCHANGED <<primary, secondary>>
    BY <1>6 DEF Write
  <1>7. CASE UNCHANGED vars
    BY <1>7 DEF vars
  <1> QED
    BY <1>1, <1>3, <1>4, <1>5, <1>6, <1>7, Frames DEF Next, Cycle

\* A run keeps its receipt, its frozen set and the mark that it was executed.
LEMMA RunsStay ==
    ASSUME RetentionTypeOK, NamesAreOwn, DirsAreInOrder, StepsAreInOrder, [Next]_vars,
           NEW r \in DOMAIN dirs
    PROVE  /\ r \in DOMAIN dirs'
           /\ dirs[r].receipt # NoArchive => dirs'[r].receipt = dirs[r].receipt
           /\ dirs[r].frozen # NoArchive => dirs'[r].frozen = dirs[r].frozen
           /\ dirs[r].executed => dirs'[r].executed
  <1>1. ASSUME NEW p \in Processes, Plan(p)
        PROVE  r \in DOMAIN dirs' /\ dirs'[r] = dirs[r]
    BY <1>1, PlanStep
  <1>2. ASSUME NEW p \in Processes, Cycle(p) \/ Crash(p), ~Plan(p)
        PROVE  /\ r \in DOMAIN dirs'
               /\ dirs[r].receipt # NoArchive => dirs'[r].receipt = dirs[r].receipt
               /\ dirs[r].frozen # NoArchive => dirs'[r].frozen = dirs[r].frozen
               /\ dirs[r].executed => dirs'[r].executed
    <2>1. /\ proc[p].run \in DOMAIN dirs /\ DirChanges(proc[p].run)
          /\ dirs[r] \in RunDirs
      BY <1>2, CycleStep, Working DEF RetentionTypeOK
    <2>2. DOMAIN dirs' = DOMAIN dirs
      BY <2>1, DirsStayTyped
    <2>3. CASE proc[p].run # r
      BY <2>1, <2>3, DirsStayTyped
    <2>4. CASE WriteReceipt(p) /\ proc[p].run = r
      <3>1. CASE UNCHANGED dirs
        BY <3>1
      <3>2. CASE /\ dirs' = [dirs EXCEPT ![r].receipt = proc[p].archive]
                 /\ dirs[r].receipt \in {NoArchive, proc[p].archive}
        BY <2>1, <3>2 DEF RunDirs
      <3> QED
        BY <2>4, <3>1, <3>2, ReceiptStep
    <2>5. CASE Freeze(p) /\ proc[p].run = r
      <3>1. CASE UNCHANGED dirs
        BY <3>1
      <3>2. CASE dirs' = [dirs EXCEPT ![r].frozen = proc[p].archive]
        <4>1. dirs[r].frozen = NoArchive
          BY <2>5, FreezeStep DEF StepsAreInOrder
        <4> QED
          BY <2>1, <3>2, <4>1 DEF RunDirs
      <3> QED
        BY <2>5, <3>1, <3>2, FreezeStep
    <2>6. CASE CountBatch(p) /\ proc[p].run = r
      <3>1. CASE UNCHANGED dirs
        BY <3>1
      <3>2. CASE \/ dirs' = [dirs EXCEPT ![r].stopped = TRUE]
                 \/ dirs' = [dirs EXCEPT ![r].executed = TRUE]
        BY <2>1, <3>2 DEF RunDirs
      <3> QED
        BY <2>6, <3>1, <3>2, CountStep
    <2>7. CASE (RecordBatch(p) \/ Finish(p)) /\ proc[p].run = r
      <3>1. CASE dirs' = [dirs EXCEPT ![r].done = @ \cup {proc[p].batch}]
        BY <2>1, <3>1 DEF RunDirs
      <3>2. CASE \/ dirs' = [dirs EXCEPT ![r].stopped = TRUE]
                 \/ dirs' = [dirs EXCEPT ![r].final = TRUE]
        BY <2>1, <3>2 DEF RunDirs
      <3> QED
        BY <2>7, <3>1, <3>2, RecordStep, FinishStep
    <2> QED
      BY <1>2, <2>2, <2>3, <2>4, <2>5, <2>6, <2>7, Frames DEF Cycle
  <1>3. ASSUME NEW d \in Docs, Write(d)
        PROVE  UNCHANGED dirs
    BY <1>3 DEF Write
  <1>4. CASE UNCHANGED vars \/ \E a \in Archives : Damage(a)
    BY <1>4 DEF vars, Damage
  <1> QED
    BY <1>1, <1>2, <1>3, <1>4 DEF Next, Cycle

LEMMA PurgedStays ==
    ASSUME RetentionTypeOK, [Next]_vars, NEW d \in Docs
    PROVE  /\ purged[d] # 0 => purged'[d] # 0
           /\ source[d] # 0 \/ purged[d] # 0 => source'[d] # 0 \/ purged'[d] # 0
           /\ (\A p \in Processes : ~DeleteBatch(p)) => purged'[d] = purged[d]
  <1>1. ASSUME NEW p \in Processes, DeleteBatch(p)
        PROVE  /\ purged[d] # 0 => purged'[d] # 0
               /\ source[d] # 0 \/ purged[d] # 0 => source'[d] # 0 \/ purged'[d] # 0
    BY <1>1, DeleteStep
  <1>2. ASSUME NEW p \in Processes, Cycle(p) \/ Crash(p), ~DeleteBatch(p)
        PROVE  UNCHANGED <<source, purged>>
    BY <1>2, Frames DEF Cycle
  <1>3. ASSUME NEW e \in Docs, Write(e)
        PROVE  UNCHANGED purged /\ (source[d] # 0 => source'[d] # 0)
    BY <1>3, WriteStep DEF Write
  <1>4. CASE UNCHANGED vars \/ \E a \in Archives : Damage(a)
    BY <1>4 DEF vars, Damage
  <1> QED
    BY <1>1, <1>2, <1>3, <1>4 DEF Next

-----------------------------------------------------------------------------
(* Archives, their copies and the documents. *)

\* A receipt is an old one, or that of a process with two finished copies.
LEMMA ReceiptIsHeld ==
    ASSUME RetentionTypeOK, [Next]_vars, NEW r, r \in DOMAIN dirs', dirs'[r].receipt # NoArchive
    PROVE  \/ r \in DOMAIN dirs /\ dirs'[r].receipt = dirs[r].receipt
           \/ \E p \in Processes : proc[p].at = "receipt" /\ dirs'[r].receipt = proc[p].archive
  <1>1. ASSUME NEW p \in Processes, Plan(p)
        PROVE  r \in DOMAIN dirs /\ dirs'[r] = dirs[r]
    <2>1. PICK run \in RunIds : /\ DOMAIN dirs' = DOMAIN dirs \cup {run}
                                /\ \A s \in DOMAIN dirs : dirs'[s] = dirs[s]
                                /\ run \notin DOMAIN dirs => dirs'[run] = NewDir
      BY <1>1, PlanStep
    <2>2. CASE r \in DOMAIN dirs
      BY <2>1, <2>2
    <2>3. CASE r \notin DOMAIN dirs
      <3>1. r = run
        BY <2>1, <2>3
      <3>2. dirs'[r] = NewDir
        BY <2>1, <2>3, <3>1
      <3>3. NewDir.receipt = NoArchive
        BY DEF NewDir
      <3> QED
        BY <3>2, <3>3
    <2> QED
      BY <2>2, <2>3
  <1>2. ASSUME NEW p \in Processes, WriteReceipt(p)
        PROVE  r \in DOMAIN dirs /\ dirs'[r].receipt \in {dirs[r].receipt, proc[p].archive}
    <2>1. proc[p].run \in DOMAIN dirs /\ dirs[proc[p].run] \in RunDirs
      BY <1>2, ReceiptStep, Working
    <2>2. CASE UNCHANGED dirs
      BY <2>2
    <2>3. CASE dirs' = [dirs EXCEPT ![proc[p].run].receipt = proc[p].archive]
      <3>1. DOMAIN dirs' = DOMAIN dirs
        BY <2>3
      <3>2. CASE r = proc[p].run
        BY <2>1, <2>3, <3>1, <3>2 DEF RunDirs
      <3>3. CASE r # proc[p].run
        BY <2>3, <3>1, <3>3
      <3> QED
        BY <3>2, <3>3
    <2> QED
      BY <1>2, <2>2, <2>3, ReceiptStep
  <1>3. ASSUME NEW p \in Processes, Cycle(p) \/ Crash(p), ~Plan(p), ~WriteReceipt(p)
        PROVE  r \in DOMAIN dirs /\ dirs'[r].receipt = dirs[r].receipt
    BY <1>3, ReceiptsKept DEF ReceiptsStay
  <1>4. CASE UNCHANGED vars \/ (\E d \in Docs : Write(d)) \/ \E a \in Archives : Damage(a)
    BY <1>4 DEF vars, Write, Damage
  <1> QED
    BY <1>1, <1>2, <1>3, <1>4, ReceiptStep DEF Next

LEMMA CopiesStay ==
    ASSUME RetentionTypeOK, RetentionTypeOK', NamesAreOwn, CopiesAgree, [Next]_vars
    PROVE  CopiesAgree'
  <1>1. \A b \in Archives :
           Held(b) /\ secondary[b].has = primary[b].has => secondary'[b].has = primary'[b].has
    BY HeldStays
  <1>2. ASSUME NEW p \in Processes, proc[p].at = "receipt"
        PROVE  secondary'[proc[p].archive].has = primary'[proc[p].archive].has
    BY <1>1, <1>2, Working DEF Held, CopiesAgree
  <1>3. ASSUME NEW r \in DOMAIN dirs, dirs[r].receipt # NoArchive
        PROVE  secondary'[dirs[r].receipt].has = primary'[dirs[r].receipt].has
    <2>1. dirs[r].receipt \in Archives
      BY <1>3 DEF RetentionTypeOK, RunDirs
    <2> QED
      BY <1>1, <1>3, <2>1 DEF Held, CopiesAgree
  <1>4. ASSUME NEW r, r \in DOMAIN dirs', dirs'[r].receipt # NoArchive
        PROVE  secondary'[dirs'[r].receipt].has = primary'[dirs'[r].receipt].has
    BY <1>2, <1>3, <1>4, ReceiptIsHeld
  <1>5. ASSUME NEW p \in Processes, proc'[p].at = "receipt"
        PROVE  secondary'[proc'[p].archive].has = primary'[proc'[p].archive].has
    <2>1. CASE proc[p].at = "receipt" /\ proc'[p].archive = proc[p].archive
      BY <1>2, <2>1
    <2>2. CASE Replicate(p)
      <3>1. secondary' = [secondary EXCEPT ![proc[p].archive] = primary[proc[p].archive]]
            /\ proc'[p].archive = proc[p].archive
        BY <1>5, <2>2, ReplicateStep, IdleIsTyped DEF Ends, GoesTo
      <3>2. proc[p].archive \in Archives /\ UNCHANGED primary
        BY <2>2, ReplicateStep, Working, Frames
      <3> QED
        BY <3>1, <3>2 DEF RetentionTypeOK
    <2>3. ASSUME NEW q \in Processes, Cycle(q) \/ Crash(q), q # p
          PROVE  proc'[p] = proc[p]
      BY <2>3, OthersStay
    <2>4. CASE Plan(p)
      <3>1. proc'[p].at = "copy"
        BY <2>4, PlanStep
      <3> QED
        BY <1>5, <3>1
    <2>5. CASE (Cycle(p) \/ Crash(p)) /\ ~Plan(p) /\ ~Replicate(p)
      <3>1. ~Ends(p)
        BY <1>5, IdleIsTyped DEF Ends
      <3>2. \A s : GoesTo(p, s) => s = "receipt"
        BY <1>5 DEF GoesTo
      <3> QED
        BY <2>5, <3>1, <3>2, CopyStep, ExportStep, ReceiptStep, FreezeStep, ReconcileStep,
           CountStep, DeleteStep, RecordStep, CatalogueStep, FinishStep, CrashStep DEF Cycle
    <2>6. ASSUME NEW d \in Docs, Write(d)
          PROVE  proc'[p].at = proc[p].at /\ proc'[p].archive = proc[p].archive
      BY <2>6, WriteStep
    <2>7. CASE UNCHANGED vars \/ \E a \in Archives : Damage(a)
      BY <1>5, <2>1, <2>7 DEF vars, Damage
    <2> QED
      BY <1>5, <2>1, <2>2, <2>3, <2>4, <2>5, <2>6, <2>7 DEF Next
  <1> QED
    BY <1>4, <1>5 DEF CopiesAgree

LEMMA ArchivedStays ==
    ASSUME RetentionTypeOK, ArchivedWasThere, [Next]_vars
    PROVE  ArchivedWasThere'
  <1> DEFINE Was(d) == source[d] # 0 \/ purged[d] # 0
             Truly(f) == \A d \in Docs : f[d] # 0 => Was(d)
  <1>0. \A d \in Docs : Was(d) => Was(d)'
    BY PurgedStays
  <1>1. \A a \in Archives : Truly(primary[a].has)
    BY DEF ArchivedWasThere
  <1>2. \A p \in Processes : Truly(proc[p].seen)
    BY DEF ArchivedWasThere
  <1>3. Truly([d \in Docs |-> 0])
    OBVIOUS
  <1>4. \A S : Truly(Content(S))
    BY DEF Content
  <1> HIDE DEF Was
  <1>5. ASSUME NEW a \in Archives
        PROVE  Truly(primary'[a].has)
    <2>1. ASSUME NEW p \in Processes, Plan(p)
          PROVE  primary'[a] \in {primary[a], NoFile}
      BY <2>1, PlanStep DEF RetentionTypeOK
    <2>2. NoFile.has = [d \in Docs |-> 0]
      BY DEF NoFile
    <2>3. ASSUME NEW p \in Processes, Export(p)
          PROVE  primary'[a].has \in {primary[a].has, proc[p].seen}
      <3> DEFINE file == [has |-> proc[p].seen, ok |-> TRUE]
      <3>1. file.has = proc[p].seen
        OBVIOUS
      <3> HIDE DEF file
      <3>2. UNCHANGED primary \/ primary' = [primary EXCEPT ![proc[p].archive] = file]
        BY <2>3, ExportStep DEF file
      <3>3. primary'[a] \in {primary[a], file}
        BY <3>2 DEF RetentionTypeOK
      <3> QED
        BY <3>1, <3>3
    <2>4. ASSUME NEW p \in Processes, Cycle(p) \/ Crash(p), ~Plan(p), ~Export(p)
          PROVE  UNCHANGED primary
      BY <2>4, Frames DEF Cycle
    <2>5. ASSUME NEW b \in Archives, Damage(b)
          PROVE  primary'[a].has = primary[a].has
      <3>1. primary[a] \in Files
        BY DEF RetentionTypeOK
      <3>2. CASE primary' = [primary EXCEPT ![b].ok = FALSE]
        BY <3>1, <3>2 DEF RetentionTypeOK, Files
      <3> QED
        BY <2>5, <3>2 DEF Damage
    <2>6. CASE UNCHANGED vars \/ \E d \in Docs : Write(d)
      BY <1>1, <2>6 DEF vars, Write
    <2> HIDE DEF Truly
    <2> QED
      BY <1>1, <1>2, <1>3, <2>1, <2>2, <2>3, <2>4, <2>5, <2>6 DEF Next
  <1>6. ASSUME NEW p \in Processes
        PROVE  Truly(proc'[p].seen)
    <2>1. ASSUME NEW q \in Processes, Cycle(q) \/ Crash(q), q # p
          PROVE  proc'[p] = proc[p]
      BY <2>1, OthersStay
    <2>2. CASE Plan(p)
      BY <1>3, <2>2, PlanStep
    <2>3. CASE Ends(p)
      BY <1>3, <2>3, IdleIsTyped DEF Ends
    <2>4. CASE CopyDocuments(p) /\ ~Ends(p)
      BY <1>4, <2>4, CopyStep
    <2>5. CASE (Cycle(p) \/ Crash(p)) /\ ~Plan(p) /\ ~CopyDocuments(p) /\ ~Ends(p)
      <3>1. proc'[p].seen = proc[p].seen
        BY <2>5, ExportStep, ReplicateStep, ReceiptStep, FreezeStep, ReconcileStep,
           CountStep, DeleteStep, RecordStep, CatalogueStep, FinishStep, CrashStep DEF Cycle
      <3> QED
        BY <1>2, <3>1
    <2>6. ASSUME NEW d \in Docs, Write(d)
          PROVE  proc'[p].seen = proc[p].seen
      BY <2>6, WriteStep
    <2>7. CASE UNCHANGED vars \/ \E a \in Archives : Damage(a)
      BY <1>2, <2>7 DEF vars, Damage
    <2> HIDE DEF Truly
    <2> QED
      BY <1>2, <2>1, <2>2, <2>3, <2>4, <2>5, <2>6, <2>7 DEF Next
  <1>7. \A d \in Docs : Was(d) => source'[d] # 0 \/ purged'[d] # 0
    BY <1>0 DEF Was
  <1> QED
    BY <1>5, <1>6, <1>7 DEF ArchivedWasThere

\* A run without a batch that is done compared every document of its archive.
LEMMA AllCompared ==
    ASSUME NEW p \in Processes, Reconciled(p), dirs[proc[p].run].done = {}
    PROVE  \A d \in Members(proc[p].archive) : source[d] = primary[proc[p].archive].has[d]
  BY DEF Reconciled, Remaining

LEMMA ComparedStays ==
    ASSUME RetentionTypeOK, NamesAreOwn, StepsAreInOrder, ComparedIsSame, [Next]_vars
    PROVE  ComparedIsSame'
  <1> SUFFICES ASSUME NEW q \in Processes, proc'[q].at \in Purging,
                      NEW d \in Docs, primary'[proc'[q].archive].has[d] # 0
               PROVE  d \in proc'[q].late
                      \/ source'[d] \in {0, primary'[proc'[q].archive].has[d]}
    BY DEF ComparedIsSame, Members
  <1> DEFINE Same(l) == d \in l.late \/ source[d] \in {0, primary[l.archive].has[d]}
  <1>1. ASSUME proc[q].at \in Purging, primary[proc[q].archive].has[d] # 0
        PROVE  Same(proc[q])
    BY <1>1 DEF ComparedIsSame, Members
  <1>2. ASSUME proc[q].at \in {"reconcile"} \cup Purging
        PROVE  primary'[proc[q].archive].has = primary[proc[q].archive].has
    <2>1. proc[q].archive \in Archives /\ Held(proc[q].archive)
      BY <1>2, Working DEF Held, Purging, Past
    <2> QED
      BY <2>1, HeldStays
  <1>3. ASSUME NEW p \in Processes, Cycle(p) \/ Crash(p), q # p
        PROVE  d \in proc'[q].late \/ source'[d] \in {0, primary'[proc'[q].archive].has[d]}
    <2>1. proc'[q] = proc[q]
      BY <1>3, OthersStay
    <2>2. Same(proc[q])
      BY <1>1, <1>2, <2>1
    <2>3. source'[d] \in {0, source[d]}
      <3>1. CASE DeleteBatch(p)
        BY <3>1, DeleteStep
      <3>2. CASE ~DeleteBatch(p)
        BY <1>3, <3>2, Frames DEF Cycle
      <3> QED
        BY <3>1, <3>2
    <2> QED
      BY <1>2, <2>1, <2>2, <2>3
  <1>4. CASE CountBatch(q) \/ DeleteBatch(q) \/ RecordBatch(q)
    <2>1. ~Ends(q)
      BY IdleIsTyped DEF Ends, Purging
    <2>2. /\ proc[q].at \in Purging /\ proc'[q].archive = proc[q].archive
          /\ proc'[q].late = proc[q].late
      <3>1. CASE CountBatch(q)
        BY <2>1, <3>1, CountStep DEF Purging, GoesTo
      <3>2. CASE DeleteBatch(q)
        BY <3>2, DeleteStep DEF Purging, GoesTo
      <3>3. CASE RecordBatch(q)
        BY <2>1, <3>3, RecordStep DEF Purging, GoesTo
      <3> QED
        BY <1>4, <3>1, <3>2, <3>3
    <2>3. Same(proc[q])
      BY <1>1, <1>2, <2>2
    <2>4. source'[d] \in {0, source[d]}
      BY <1>4, DeleteStep, Frames
    <2> QED
      BY <1>2, <2>2, <2>3, <2>4
  <1>5. CASE Reconcile(q)
    <2>1. proc[q].at = "reconcile" /\ Reconciled(q) /\ proc'[q].archive = proc[q].archive
      BY <1>5, ReconcileStep, IdleIsTyped DEF Ends, GoesTo, Purging
    <2>2. dirs[proc[q].run].done = {}
      BY <2>1 DEF StepsAreInOrder
    <2>3. UNCHANGED <<primary, source>>
      BY <1>5, Frames
    <2>4. d \in Members(proc[q].archive)
      BY <2>1, <2>3 DEF Members
    <2>5. source[d] = primary[proc[q].archive].has[d]
      BY <2>1, <2>2, <2>4, AllCompared
    <2> QED
      BY <2>1, <2>3, <2>5
  <1>6. CASE Plan(q) \/ CopyDocuments(q) \/ Export(q) \/ Replicate(q)
    BY <1>6, PlanStep, CopyStep, ExportStep, ReplicateStep, IdleIsTyped DEF Ends, GoesTo, Purging
  <1>7. CASE WriteReceipt(q) \/ Freeze(q) \/ Catalogue(q) \/ Finish(q) \/ Crash(q)
    BY <1>7, ReceiptStep, FreezeStep, CatalogueStep, FinishStep, CrashStep, IdleIsTyped
       DEF Ends, GoesTo, Purging
  <1>8. ASSUME NEW e \in Docs, Write(e)
        PROVE  d \in proc'[q].late \/ source'[d] \in {0, primary'[proc'[q].archive].has[d]}
    <2>1. /\ proc[q].at \in Purging /\ proc'[q].archive = proc[q].archive
          /\ proc'[q].late = proc[q].late \cup {e}
          /\ e # d => source'[d] = source[d]
      BY <1>8, WriteStep
    <2>2. UNCHANGED primary
      BY <1>8 DEF Write
    <2> QED
      BY <1>1, <2>1, <2>2
  <1>9. CASE UNCHANGED vars \/ \E a \in Archives : Damage(a)
    <2>1. UNCHANGED <<proc, source>>
      BY <1>9 DEF vars, Damage
    <2> QED
      BY <1>1, <1>2, <2>1
  <1> QED
    BY <1>3, <1>4, <1>5, <1>6, <1>7, <1>8, <1>9 DEF Next, Cycle

LEMMA PurgedIsKept ==
    ASSUME RetentionTypeOK, NamesAreOwn, DirsAreInOrder, StepsAreInOrder, PurgedIsArchived,
           [Next]_vars
    PROVE  PurgedIsArchived'
  <1> DEFINE Keeps(r, d) == dirs[r].frozen # NoArchive /\ primary[dirs[r].frozen].has[d] # 0
  <1>1. ASSUME NEW r \in DOMAIN dirs, NEW d \in Docs, Keeps(r, d)
        PROVE  /\ r \in DOMAIN dirs' /\ dirs'[r].frozen = dirs[r].frozen
               /\ primary'[dirs[r].frozen].has = primary[dirs[r].frozen].has
    <2>1. dirs[r].frozen = dirs[r].receipt /\ dirs[r].frozen \in Archives
      BY <1>1 DEF DirsAreInOrder, RetentionTypeOK, RunDirs
    <2>2. Held(dirs[r].frozen)
      BY <2>1 DEF Held
    <2> QED
      BY <1>1, <2>1, <2>2, RunsStay, HeldStays
  <1>2. ASSUME NEW d \in Docs, purged'[d] # 0
        PROVE  \E r \in DOMAIN dirs : Keeps(r, d)
    <2>1. CASE purged[d] # 0
      BY <2>1 DEF PurgedIsArchived
    <2>2. CASE purged[d] = 0
      <3>1. PICK p \in Processes : DeleteBatch(p)
        BY <1>2, <2>2, PurgedStays
      <3>2. d \in ThisBatch(p) /\ proc[p].at = "delete"
        BY <1>2, <2>2, <3>1, DeleteStep
      <3>3. d \in Members(proc[p].archive)
        BY <3>2, BatchIsArchived
      <3>4. primary[proc[p].archive].has[d] # 0
        BY <3>3 DEF Members
      <3>5. dirs[proc[p].run].frozen = proc[p].archive
        BY <3>2 DEF StepsAreInOrder, Purging
      <3> QED
        BY <3>2, <3>4, <3>5, Working
    <2> QED
      BY <2>1, <2>2
  <1>3. ASSUME NEW d \in Docs, purged'[d] # 0
        PROVE  \E r \in DOMAIN dirs' :
                  dirs'[r].frozen # NoArchive /\ primary'[dirs'[r].frozen].has[d] # 0
    <2>1. PICK r \in DOMAIN dirs : Keeps(r, d)
      BY <1>2, <1>3
    <2> QED
      BY <1>1, <2>1
  <1> QED
    BY <1>3 DEF PurgedIsArchived

LEMMA CatalogStays ==
    ASSUME RetentionTypeOK, NamesAreOwn, DirsAreInOrder, StepsAreInOrder, ArchivedWasThere,
           CatalogIsOfRuns, CatalogIsTrue, [Next]_vars
    PROVE  CatalogIsOfRuns' /\ CatalogIsTrue'
  <1> DEFINE Sound(c) == /\ c[1] \in DOMAIN dirs /\ c[2] \in Archives
                         /\ c[1].purge =>
                              /\ dirs[c[1]].executed /\ dirs[c[1]].frozen = c[2]
                              /\ \A d \in Docs : primary[c[2]].has[d] # 0 => purged[d] # 0
  <1>1. \A c \in catalog : Sound(c)
    BY DEF CatalogIsOfRuns, CatalogIsTrue, RetentionTypeOK
  <1>2. ASSUME NEW p \in Processes, Catalogue(p), ~Ends(p)
        PROVE  Sound(<<proc[p].run, proc[p].archive>>)
    <2>1. /\ proc[p].at = "catalog"
          /\ proc[p].run.purge => Members(proc[p].archive) \cap Present = {}
      BY <1>2, CatalogueStep
    <2>2. proc[p].run \in DOMAIN dirs /\ proc[p].archive \in Archives
      BY <2>1, Working
    <2>3. ASSUME proc[p].run.purge, NEW d \in Docs, primary[proc[p].archive].has[d] # 0
          PROVE  purged[d] # 0
      BY <2>1, <2>2, <2>3 DEF Members, Present, ArchivedWasThere
    <2>4. proc[p].run.purge =>
             dirs[proc[p].run].executed /\ dirs[proc[p].run].frozen = proc[p].archive
      BY <2>1 DEF StepsAreInOrder
    <2> QED
      BY <2>2, <2>3, <2>4
  <1>3. ASSUME NEW c \in catalog'
        PROVE  Sound(c)
    <2>1. CASE c \in catalog
      BY <1>1, <2>1
    <2>2. ASSUME NEW p \in Processes, Catalogue(p), c \notin catalog
          PROVE  Sound(c)
      <3>1. ~Ends(p) /\ c = <<proc[p].run, proc[p].archive>>
        <4>1. GoesTo(p, "final") => ~Ends(p)
          BY IdleIsTyped DEF GoesTo, Ends
        <4> QED
          BY <1>3, <2>2, <4>1, CatalogueStep
      <3> QED
        BY <1>2, <2>2, <3>1
    <2>3. CASE \A p \in Processes : ~Catalogue(p)
      <3>1. ASSUME NEW p \in Processes, Cycle(p) \/ Crash(p)
            PROVE  UNCHANGED catalog
        BY <2>3, <3>1, Frames DEF Cycle
      <3>2. UNCHANGED catalog
        BY <3>1 DEF Next, vars, Write, Damage
      <3> QED
        BY <1>1, <1>3, <3>2
    <2> QED
      BY <2>1, <2>2, <2>3
  <1>4. ASSUME NEW c \in catalog'
        PROVE  /\ c[1] \in DOMAIN dirs'
               /\ c[1].purge =>
                    /\ dirs'[c[1]].executed /\ dirs'[c[1]].frozen = c[2]
                    /\ \A d \in Docs : primary'[c[2]].has[d] # 0 => purged'[d] # 0
    <2>1. Sound(c)
      BY <1>3, <1>4
    <2>2. c[1] \in DOMAIN dirs'
      BY <2>1, RunsStay
    <2>3. ASSUME c[1].purge
          PROVE  /\ dirs'[c[1]].executed /\ dirs'[c[1]].frozen = c[2]
                 /\ \A d \in Docs : primary'[c[2]].has[d] # 0 => purged'[d] # 0
      <3>1. dirs[c[1]].executed /\ dirs[c[1]].frozen = c[2] /\ c[2] # NoArchive
        BY <2>1, <2>3, RetentionAssumption
      <3>2. dirs[c[1]].receipt = c[2]
        BY <2>1, <3>1 DEF DirsAreInOrder
      <3>3. primary'[c[2]].has = primary[c[2]].has
        BY <2>1, <3>2, HeldStays DEF Held
      <3> QED
        BY <2>1, <2>3, <3>1, <3>3, RunsStay, PurgedStays
    <2> QED
      BY <2>2, <2>3
  <1> QED
    BY <1>4 DEF CatalogIsOfRuns, CatalogIsTrue

-----------------------------------------------------------------------------
(* The theorems. *)

LEMMA InitialInvariant ==
    ASSUME Init
    PROVE  RInv
  <1>1. RetentionTypeOK
    BY InitialTypes
  <1>2. \A p \in Processes : proc[p] = Idle
    BY DEF Init
  <1>3. DOMAIN dirs = {} /\ catalog = {} /\ \A d \in Docs : purged[d] = 0
    BY DEF Init
  <1>4. \A p \in Processes :
           proc[p].at = "idle" /\ proc[p].archive = NoArchive /\ \A d \in Docs : proc[p].seen[d] = 0
    BY <1>2, IdleIsTyped
  <1>5. NamesAreOwn /\ DirsAreInOrder /\ StepsAreInOrder /\ CopiesAgree
    BY <1>3, <1>4 DEF NamesAreOwn, DirsAreInOrder, StepsAreInOrder, CopiesAgree, Past, Purging
  <1>6. ArchivedWasThere
    BY <1>4 DEF Init, NoFile, ArchivedWasThere
  <1> QED
    BY <1>1, <1>3, <1>4, <1>5, <1>6
       DEF RInv, ComparedIsSame, PurgedIsArchived, CatalogIsOfRuns, CatalogIsTrue, Purging

LEMMA Invariant == Spec => []RInv
  <1>1. ASSUME RInv, [Next]_vars
        PROVE  RInv'
    <2>1. /\ RetentionTypeOK /\ NamesAreOwn /\ DirsAreInOrder /\ StepsAreInOrder /\ CopiesAgree
          /\ ArchivedWasThere /\ ComparedIsSame /\ PurgedIsArchived /\ CatalogIsOfRuns
          /\ CatalogIsTrue
      BY <1>1 DEF RInv
    <2>2. RetentionTypeOK'
      BY <1>1, <2>1, TypesStay
    <2>3. NamesAreOwn'
      BY <1>1, <2>1, NamesStay
    <2>4. DirsAreInOrder' /\ StepsAreInOrder'
      BY <1>1, <2>1, OrderStays
    <2>5. CopiesAgree'
      BY <1>1, <2>1, <2>2, CopiesStay
    <2>6. ArchivedWasThere'
      BY <1>1, <2>1, ArchivedStays
    <2>7. ComparedIsSame'
      BY <1>1, <2>1, ComparedStays
    <2>8. PurgedIsArchived'
      BY <1>1, <2>1, PurgedIsKept
    <2>9. CatalogIsOfRuns' /\ CatalogIsTrue'
      BY <1>1, <2>1, CatalogStays
    <2> QED
      BY <2>2, <2>3, <2>4, <2>5, <2>6, <2>7, <2>8, <2>9 DEF RInv
  <1> QED
    BY <1>1, InitialInvariant, PTL DEF Spec

\* The state stays well typed.
THEOREM RetentionTypeCorrect == Spec => []RetentionTypeOK
  <1>1. RInv => RetentionTypeOK
    BY DEF RInv
  <1> QED
    BY <1>1, Invariant, PTL

\* The receipt that names the copies is a lock: past it no two processes are on one run.
THEOREM OneProcess == Spec => []OneProcessPerRun
  <1>1. RInv => OneProcessPerRun
    BY AloneOnRun DEF RInv, OneProcessPerRun
  <1> QED
    BY <1>1, Invariant, PTL

\* What the catalog calls purged was purged, under the frozen set of the run it names.
THEOREM CatalogTrue == Spec => []CatalogIsTrue
  <1>1. RInv => CatalogIsTrue
    BY DEF RInv
  <1> QED
    BY <1>1, Invariant, PTL

LEMMA DeletedStep ==
    ASSUME RInv, [Next]_vars, NEW d \in Docs, purged'[d] # purged[d]
    PROVE  \E p \in Processes :
              /\ proc[p].at = "delete"
              /\ d \in proc[p].late \/ primary[proc[p].archive].has[d] = source[d]
  <1>1. RetentionTypeOK
    BY DEF RInv
  <1>2. PICK p \in Processes : DeleteBatch(p)
    BY <1>1, PurgedStays
  <1>3. proc[p].at = "delete" /\ d \in ThisBatch(p) /\ source[d] # 0
    BY <1>1, <1>2, DeleteStep
  <1>4. d \in Members(proc[p].archive)
    BY <1>3, BatchIsArchived
  <1> QED
    BY <1>3, <1>4 DEF RInv, ComparedIsSame, Purging

\* A deleted document reads as in the archive, unless it was written after the
\* comparison.
THEOREM DeletedAsItWasArchived == Spec => DeletedAsArchived
  <1>1. RInv /\ [Next]_vars =>
          [\A d \in Docs :
              purged'[d] # purged[d] =>
                \E p \in Processes :
                  /\ proc[p].at = "delete"
                  /\ d \in proc[p].late \/ primary[proc[p].archive].has[d] = source[d]]_vars
    BY DeletedStep
  <1> QED
    BY <1>1, Invariant, PTL DEF Spec, DeletedAsArchived

LEMMA OneCopyStays ==
    ASSUME MaxDamages <= 1, IsFiniteSet(Archives), RetentionTypeOK, OneCopyAtMost, [Next]_vars
    PROVE  OneCopyAtMost'
  <1>1. ASSUME NEW file \in [Archives -> Files], Cardinality(Damaged(file)) = 0
        PROVE  Damaged(file) = {}
    <2>1. IsFiniteSet(Damaged(file))
      BY FS_Subset DEF Damaged
    <2> QED
      BY <1>1, <2>1, FS_EmptySet
  <1>2. ASSUME NEW a \in Archives, Damage(a)
        PROVE  OneCopyAtMost'
    <2>1. Cardinality(Damaged(primary)) \in Nat /\ Cardinality(Damaged(secondary)) \in Nat
      <3>1. Damaged(primary) \subseteq Archives /\ Damaged(secondary) \subseteq Archives
        BY DEF Damaged
      <3> QED
        BY <3>1, FS_Subset, FS_CardinalityType
    <2>2. Cardinality(Damaged(primary)) + Cardinality(Damaged(secondary)) < MaxDamages
      BY <1>2 DEF Damage
    <2>3. Cardinality(Damaged(primary)) = 0 /\ Cardinality(Damaged(secondary)) = 0
      BY <2>1, <2>2, RetentionAssumption
    <2>4. Damaged(primary) = {} /\ Damaged(secondary) = {}
      BY <1>1, <2>3 DEF RetentionTypeOK
    <2> QED
      BY <1>2, <2>4 DEF Damage, OneCopyAtMost, Damaged
  <1>3. ASSUME NEW p \in Processes, Plan(p)
        PROVE  OneCopyAtMost'
    <2>1. PICK a \in Archives : /\ primary' = [primary EXCEPT ![a] = NoFile]
                                /\ secondary' = [secondary EXCEPT ![a] = NoFile]
      BY <1>3, PlanStep
    <2>2. ~(\E d \in Docs : NoFile.has[d] # 0)
      BY DEF NoFile
    <2>3. Damaged(primary)' \subseteq Damaged(primary)
      BY <2>1, <2>2 DEF Damaged, RetentionTypeOK
    <2>4. Damaged(secondary)' \subseteq Damaged(secondary)
      BY <2>1, <2>2 DEF Damaged, RetentionTypeOK
    <2> QED
      BY <2>3, <2>4 DEF OneCopyAtMost
  <1>4. ASSUME NEW p \in Processes, Export(p)
        PROVE  OneCopyAtMost'
    <2> DEFINE file == [has |-> proc[p].seen, ok |-> TRUE]
    <2>1. UNCHANGED primary \/ primary' = [primary EXCEPT ![proc[p].archive] = file]
      BY <1>4, ExportStep
    <2>2. file.ok
      OBVIOUS
    <2> HIDE DEF file
    <2>3. Damaged(primary)' \subseteq Damaged(primary)
      BY <2>1, <2>2 DEF Damaged, RetentionTypeOK
    <2> QED
      BY <1>4, <2>3, Frames DEF OneCopyAtMost, Damaged
  <1>5. ASSUME NEW p \in Processes, Replicate(p)
        PROVE  OneCopyAtMost'
    <2> DEFINE file == primary[proc[p].archive]
    <2>1. \/ UNCHANGED secondary
          \/ file.ok /\ secondary' = [secondary EXCEPT ![proc[p].archive] = file]
      BY <1>5, ReplicateStep
    <2> HIDE DEF file
    <2>2. Damaged(secondary)' \subseteq Damaged(secondary)
      BY <2>1 DEF Damaged, RetentionTypeOK
    <2> QED
      BY <1>5, <2>2, Frames DEF OneCopyAtMost, Damaged
  <1>6. ASSUME NEW p \in Processes, Cycle(p) \/ Crash(p), ~Plan(p), ~Export(p), ~Replicate(p)
        PROVE  UNCHANGED <<primary, secondary>>
    BY <1>6, Frames DEF Cycle
  <1>7. CASE UNCHANGED vars \/ \E d \in Docs : Write(d)
    BY <1>7 DEF vars, Write, OneCopyAtMost, Damaged
  <1> QED
    BY <1>2, <1>3, <1>4, <1>5, <1>6, <1>7 DEF Next, Cycle, OneCopyAtMost, Damaged

\* As long as at most one copy is bad, a document that was purged can be restored.
THEOREM Restorable ==
    ASSUME MaxDamages <= 1, IsFiniteSet(Archives)
    PROVE  Spec => []PurgedIsRestorable
  <1>1. Init => OneCopyAtMost
    BY DEF Init, OneCopyAtMost, Damaged, NoFile
  <1>2. RInv /\ OneCopyAtMost /\ [Next]_vars => OneCopyAtMost'
    BY OneCopyStays DEF RInv
  <1>3. RInv /\ OneCopyAtMost => PurgedIsRestorable
    <2> SUFFICES ASSUME RInv, OneCopyAtMost, NEW d \in Docs, purged[d] # 0
                 PROVE  \E a \in Archives : Holds(primary, a, d) \/ Holds(secondary, a, d)
      BY DEF PurgedIsRestorable
    <2>1. PICK r \in DOMAIN dirs :
             dirs[r].frozen # NoArchive /\ primary[dirs[r].frozen].has[d] # 0
      BY DEF RInv, PurgedIsArchived
    <2>2. dirs[r].frozen = dirs[r].receipt /\ dirs[r].frozen \in Archives
      BY <2>1 DEF RInv, DirsAreInOrder, RetentionTypeOK, RunDirs
    <2>3. secondary[dirs[r].frozen].has[d] # 0
      BY <2>1, <2>2 DEF RInv, CopiesAgree
    <2> QED
      BY <2>1, <2>2, <2>3 DEF OneCopyAtMost, Damaged, Holds
  <1> QED
    BY <1>1, <1>2, <1>3, Invariant, PTL DEF Spec

-----------------------------------------------------------------------------
(* Calm: the collection only shrinks, and what a cycle finds gone another one  *)
(* deleted, so that the run of the hindered cycle is never planned again.      *)

\* Nobody died or wrote, and the archives that receipts name are intact.
Undisturbed ==
    /\ crashes = 0 /\ writes = 0
    /\ \A r \in DOMAIN dirs : dirs[r].receipt \notin Damaged(primary) \cup Damaged(secondary)

\* With the documents P left, fewer are left than when the run was planned.
Overtaken(P, run) == Cardinality(P) < run.need + Target

\* The documents that a listing of versions names, and its batch k.
Named(has) == {d \in Docs : has[d] # 0}
BatchOf(has, k) ==
    {d \in Named(has) : k * BatchSize <= Place(d, Named(has))
                        /\ Place(d, Named(has)) < (k + 1) * BatchSize}

FirstVersions ==
    /\ ripe \subseteq Present
    /\ \A d \in Docs :
          /\ source[d] \in {0, 1}
          /\ \A a \in Archives : primary[a].has[d] \in {0, 1}
          /\ \A p \in Processes : proc[p].seen[d] \in {0, 1}

\* The run was planned when at least the documents P were there.
Planned(P, run) ==
    run.need > 0 /\ Cardinality(P) <= run.need + Target

PlansAreOld == \A r \in DOMAIN dirs : Planned(Present, r)

\* What a process listed is there, or its run is overtaken.
Listed(P, run, has) ==
    /\ Named(has) # {}
    /\ Named(has) \subseteq P \/ Overtaken(P, run)

Exported == {"replicate", "receipt"} \cup Past

ListsAreGood ==
    \A p \in Processes :
        /\ proc[p].at = "export" => Listed(Present, proc[p].run, proc[p].seen)
        /\ proc[p].at \in Exported => Listed(Present, proc[p].run, primary[proc[p].archive].has)

\* A purge whose archive the reconciliation refuses.
Unfit(r) == r.purge /\ ~Fits(dirs[r].receipt)

\* A run with a receipt and without an end has its process, is overtaken, or cannot
\* be reconciled.
OpenIsManned ==
    \A r \in DOMAIN dirs :
        /\ dirs[r].receipt = NoArchive => ~dirs[r].stopped
        /\ dirs[r].receipt # NoArchive /\ ~dirs[r].final =>
              \/ Overtaken(Present, r) \/ Unfit(r)
              \/ \E p \in Processes : proc[p].at \in Past /\ proc[p].run = r

\* Whoever deleted something has overtaken his own run.
Unhindered(p) ==
    LET dir == dirs[proc[p].run] IN
    /\ proc[p].at \in {"freeze", "reconcile"} =>
          proc[p].run.purge /\ ~dir.stopped /\ ~dir.executed
    /\ proc[p].at = "count" =>
          (proc[p].batch = 0 /\ dir.done = {}) \/ Overtaken(Present, proc[p].run)
    /\ proc[p].at = "delete" => BatchOf(primary[proc[p].archive].has, proc[p].batch) # {}
    /\ proc[p].at = "verify" => Overtaken(Present, proc[p].run)
    /\ proc[p].at = "catalog" /\ proc[p].run.purge => Overtaken(Present, proc[p].run)

CalmInv ==
    /\ FirstVersions /\ PlansAreOld /\ ListsAreGood /\ OpenIsManned
    /\ \A p \in Processes : Unhindered(p)

QInv == RInv /\ (Undisturbed => CalmInv)

-----------------------------------------------------------------------------
(* Numbers of documents. *)

LEMMA Few ==
    ASSUME NEW S \in SUBSET Docs, NEW T \in SUBSET S
    PROVE  /\ IsFiniteSet(S) /\ Cardinality(S) \in Nat
           /\ Cardinality(T) \in Nat /\ Cardinality(T) <= Cardinality(S)
           /\ Cardinality(T) = Cardinality(S) => T = S
  BY RetentionAssumption, FS_Subset, FS_CardinalityType

\* Of n documents at most n are the first.
LEMMA FirstIsFew ==
    ASSUME NEW S \in SUBSET Docs, NEW n \in Nat
    PROVE  First(n, S) \subseteq S /\ Cardinality(First(n, S)) <= n
  <1> DEFINE Below(d) == {e \in S : e < d}
             F == First(n, S)
             f == [d \in F |-> Cardinality(Below(d))]
             T == 0..(n - 1)
  <1>1. F \subseteq S /\ \A d \in F : Cardinality(Below(d)) < n
    BY DEF First
  <1>2. \A d \in F : Cardinality(Below(d)) \in T
    <2>1. \A d \in F : Below(d) \subseteq Docs
      OBVIOUS
    <2>2. \A d \in F : Cardinality(Below(d)) \in Nat
      BY <2>1, Few
    <2> QED
      BY <1>1, <2>2
  <1>3. ASSUME NEW d \in F, NEW e \in F, d < e
        PROVE  Cardinality(Below(d)) # Cardinality(Below(e))
    <2>1. \A x \in S : x \in Nat
      BY RetentionAssumption
    <2>2. Below(d) \subseteq Below(e) /\ d \in Below(e) /\ d \notin Below(d)
      BY <1>1, <1>3, <2>1
    <2>3. Below(d) # Below(e) /\ Below(e) \in SUBSET Docs
      BY <2>2
    <2> HIDE DEF Below
    <2> QED
      BY <2>2, <2>3, Few
  <1>4. \A d, e \in F : Cardinality(Below(d)) = Cardinality(Below(e)) => d = e
    <2>1. \A d, e \in F : d = e \/ d < e \/ e < d
      <3>1. \A d \in S : d \in Nat
        BY RetentionAssumption
      <3>2. \A d \in F : d \in Nat
        BY <1>1, <3>1
      <3> HIDE DEF F
      <3> QED
        BY <3>2
    <2> HIDE DEF F, Below
    <2> QED
      BY <1>3, <2>1
  <1>5. f \in Injection(F, T)
    <2> HIDE DEF F, T, Below
    <2>1. f \in [F -> T]
      BY <1>2
    <2>2. \A d, e \in F : f[d] = f[e] => d = e
      BY <1>4
    <2> QED
      BY <2>1, <2>2 DEF Injection, IsInjective
  <1>6. IsFiniteSet(T) /\ Cardinality(T) <= n
    <2>1. 0 \in Int /\ n - 1 \in Int
      OBVIOUS
    <2>2. IsFiniteSet(T) /\ Cardinality(T) = IF 0 > n - 1 THEN 0 ELSE n - 1 - 0 + 1
      BY <2>1, FS_Interval
    <2> HIDE DEF T
    <2> QED
      BY <2>2
  <1> HIDE DEF f, F, T
  <1>7. Cardinality(F) <= Cardinality(T)
    BY <1>5, <1>6, FS_Injection
  <1>8. Cardinality(F) \in Nat /\ Cardinality(T) \in Nat
    BY <1>1, <1>6, Few, FS_CardinalityType
  <1>9. Cardinality(F) <= n
    BY <1>6, <1>7, <1>8
  <1> QED
    BY <1>1, <1>9 DEF F

\* Some document is the first by id.
LEMMA LowestPlace ==
    ASSUME NEW S \in SUBSET Docs, S # {}
    PROVE  \E d \in S : Place(d, S) = 0
  <1> DEFINE Below(d) == {e \in S : IdRank[e] < IdRank[d]}
             T == {Below(d) : d \in S}
  <1>1. T \subseteq FiniteSubsetsOf(S) /\ T # {}
    <2>1. \A d \in S : IsFiniteSet(Below(d))
      <3>1. \A d \in S : Below(d) \in SUBSET Docs
        OBVIOUS
      <3> QED
        BY <3>1, Few
    <2> QED
      BY <2>1 DEF FiniteSubsetsOf
  <1> HIDE DEF T
  <1>2. PICK X \in T : \A Y \in T : ~(<<Y, X>> \in StrictSubsetOrdering(S))
    BY <1>1, FS_StrictSubsetOrderingWellFounded, WFMin
  <1>3. PICK d \in S : X = Below(d)
    BY <1>2 DEF T
  <1>4. \A e \in S : IdRank[e] \in Nat
    BY RetentionAssumption
  <1>5. ASSUME NEW e \in Below(d)
        PROVE  FALSE
    <2>1. Below(e) \subseteq Below(d) /\ e \notin Below(e)
      BY <1>4, <1>5
    <2>2. Below(e) \in T /\ Below(e) # Below(d)
      BY <1>5, <2>1 DEF T
    <2>3. <<Below(e), Below(d)>> \in StrictSubsetOrdering(S)
      BY <2>1, <2>2 DEF StrictSubsetOrdering
    <2> QED
      BY <1>2, <1>3, <2>2, <2>3
  <1>6. Below(d) = {}
    BY <1>5
  <1>7. Place(d, S) = 0
    BY <1>6, FS_EmptySet DEF Place
  <1> QED
    BY <1>7

LEMMA FirstBatchIsThere ==
    ASSUME NEW has, Named(has) # {}
    PROVE  BatchOf(has, 0) # {}
  <1>1. Named(has) \in SUBSET Docs
    BY DEF Named
  <1>2. PICK d \in Named(has) : Place(d, Named(has)) = 0
    BY <1>1, LowestPlace
  <1>3. 0 * BatchSize <= 0 /\ 0 < (0 + 1) * BatchSize
    BY RetentionAssumption
  <1>4. d \in BatchOf(has, 0)
    BY <1>2, <1>3 DEF BatchOf
  <1> QED
    BY <1>4

\* What is overtaken stays so while documents go; whose document goes is overtaken.
LEMMA Shrinking ==
    ASSUME NEW P \in SUBSET Docs, NEW Q \in SUBSET P, NEW run \in RunIds,
           Planned(P, run)
    PROVE  /\ Planned(Q, run)
           /\ Overtaken(P, run) => Overtaken(Q, run)
           /\ Q # P => Overtaken(Q, run)
           /\ \A has : Listed(P, run, has) => Listed(Q, run, has)
  <1>1. /\ Cardinality(P) \in Nat /\ Cardinality(Q) \in Nat /\ Cardinality(Q) <= Cardinality(P)
        /\ Q # P => Cardinality(Q) < Cardinality(P)
    BY Few
  <1>2. run.need + Target \in Nat
    BY RetentionAssumption DEF RunIds
  <1>3. Planned(Q, run) /\ (Overtaken(P, run) => Overtaken(Q, run))
    BY <1>1, <1>2 DEF Planned, Overtaken
  <1>4. Q # P => Overtaken(Q, run)
    BY <1>1, <1>2 DEF Planned, Overtaken
  <1>5. \A has : Listed(P, run, has) => Listed(Q, run, has)
    BY <1>3, <1>4 DEF Listed
  <1> QED
    BY <1>3, <1>4, <1>5

-----------------------------------------------------------------------------
(* What a step does while all is calm. *)

\* A bad archive that a receipt or a process with copies names stays bad.
LEMMA BadStays ==
    ASSUME RetentionTypeOK, NamesAreOwn, [Next]_vars, NEW b \in Archives, Held(b)
    PROVE  /\ ~primary[b].ok => ~primary'[b].ok
           /\ ~secondary[b].ok => ~secondary'[b].ok
  <1>1. ASSUME NEW p \in Processes, Plan(p)
        PROVE  primary'[b] = primary[b] /\ secondary'[b] = secondary[b]
    <2>1. PICK a \in Archives : /\ Fresh(a)
                                /\ primary' = [primary EXCEPT ![a] = NoFile]
                                /\ secondary' = [secondary EXCEPT ![a] = NoFile]
      BY <1>1, PlanStep
    <2>2. a # b
      BY <2>1 DEF Fresh, Held
    <2> QED
      BY <2>1, <2>2 DEF RetentionTypeOK
  <1>2. ASSUME NEW p \in Processes, proc[p].at \in {"export", "replicate"}
        PROVE  proc[p].archive # b
    BY <1>2 DEF Held, NamesAreOwn, Past
  <1>3. ASSUME NEW p \in Processes, Export(p)
        PROVE  primary'[b] = primary[b] /\ secondary'[b] = secondary[b]
    <2>1. proc[p].archive # b
      BY <1>2, <1>3, ExportStep
    <2> QED
      BY <1>3, <2>1, ExportStep, Frames DEF RetentionTypeOK
  <1>4. ASSUME NEW p \in Processes, Replicate(p)
        PROVE  primary'[b] = primary[b] /\ secondary'[b] = secondary[b]
    <2>1. proc[p].archive # b
      BY <1>2, <1>4, ReplicateStep
    <2> QED
      BY <1>4, <2>1, ReplicateStep, Frames DEF RetentionTypeOK
  <1>5. ASSUME NEW a \in Archives, Damage(a)
        PROVE  /\ ~primary[b].ok => ~primary'[b].ok
               /\ ~secondary[b].ok => ~secondary'[b].ok
    <2>1. /\ primary \in [Archives -> Files] /\ secondary \in [Archives -> Files]
          /\ primary[b] \in Files /\ secondary[b] \in Files
      BY DEF RetentionTypeOK
    <2>2. CASE primary' = [primary EXCEPT ![a].ok = FALSE] /\ UNCHANGED secondary
      BY <2>1, <2>2 DEF Files
    <2>3. CASE secondary' = [secondary EXCEPT ![a].ok = FALSE] /\ UNCHANGED primary
      BY <2>1, <2>3 DEF Files
    <2> QED
      BY <1>5, <2>2, <2>3 DEF Damage
  <1>6. ASSUME NEW d \in Docs, Write(d)
        PROVE  UNCHANGED <<primary, secondary>>
    BY <1>6 DEF Write
  <1>7. CASE UNCHANGED vars
    BY <1>7 DEF vars
  <1>8. ASSUME NEW p \in Processes, Cycle(p) \/ Crash(p), ~Plan(p), ~Export(p), ~Replicate(p)
        PROVE  UNCHANGED <<primary, secondary>>
    BY <1>8, Frames DEF Cycle
  <1> QED
    BY <1>1, <1>3, <1>4, <1>5, <1>6, <1>7, <1>8 DEF Next

\* What is calm after a step was calm before it: deaths and writes count up, and the
\* archive of a receipt never recovers.
LEMMA CalmBefore ==
    ASSUME RInv, [Next]_vars, Undisturbed'
    PROVE  /\ Undisturbed
           /\ \A p \in Processes : ~Crash(p)
           /\ \A d \in Docs : ~Write(d)
  <1>1. /\ RetentionTypeOK /\ NamesAreOwn /\ DirsAreInOrder /\ StepsAreInOrder
        /\ crashes \in Nat /\ writes \in Nat /\ crashes' = 0 /\ writes' = 0
    BY DEF RInv, RetentionTypeOK, Undisturbed
  <1>2. /\ \A p \in Processes : ~Crash(p)
        /\ \A d \in Docs : ~Write(d)
    BY <1>1 DEF Crash, Write
  <1>3. UNCHANGED <<crashes, writes>>
    <2>1. ASSUME NEW p \in Processes, Cycle(p) PROVE UNCHANGED <<crashes, writes>>
      BY <2>1, Frames DEF Cycle
    <2>2. CASE UNCHANGED vars \/ \E a \in Archives : Damage(a)
      BY <2>2 DEF vars, Damage
    <2> QED
      BY <1>2, <2>1, <2>2 DEF Next
  <1>4. ASSUME NEW r \in DOMAIN dirs, NEW b, b = dirs[r].receipt,
               b \in Damaged(primary) \cup Damaged(secondary)
        PROVE  FALSE
    <2>1. b \in Archives /\ Held(b) /\ b # NoArchive
      BY <1>4, RetentionAssumption DEF Damaged, Held
    <2>2. r \in DOMAIN dirs' /\ dirs'[r].receipt = b
      BY <1>1, <1>4, <2>1, RunsStay
    <2>3. primary'[b].has = primary[b].has /\ secondary'[b].has = secondary[b].has
      BY <1>1, <2>1, HeldStays
    <2>4. /\ ~primary[b].ok => ~primary'[b].ok
          /\ ~secondary[b].ok => ~secondary'[b].ok
      BY <1>1, <2>1, BadStays
    <2>5. b \in Damaged(primary)' \cup Damaged(secondary)'
      BY <1>4, <2>1, <2>3, <2>4 DEF Damaged
    <2> QED
      BY <2>2, <2>5 DEF Undisturbed
  <1> QED
    BY <1>1, <1>2, <1>3, <1>4 DEF Undisturbed

\* The step lets documents go at most.
Shrunk ==
    /\ Present' \subseteq Present /\ ripe' \subseteq Present' /\ ripe' \subseteq ripe
    /\ \A d \in Docs : source'[d] \in {0, source[d]}
    /\ \A r \in DOMAIN dirs :
          /\ Planned(Present', r)
          /\ Overtaken(Present, r) => Overtaken(Present', r)
          /\ Present' # Present => Overtaken(Present', r)
          /\ \A has : Listed(Present, r, has) => Listed(Present', r, has)

LEMMA Shrinks ==
    ASSUME RInv, CalmInv, [Next]_vars, \A d \in Docs : ~Write(d)
    PROVE  Shrunk
  <1>1. RetentionTypeOK /\ FirstVersions /\ PlansAreOld
    BY DEF RInv, CalmInv
  <1>2. ASSUME NEW p \in Processes, DeleteBatch(p)
        PROVE  /\ \A d \in Docs : source'[d] \in {0, source[d]}
               /\ ripe' \subseteq Present' /\ ripe' \subseteq ripe
    <2> DEFINE gone == ThisBatch(p) \cap Present
    <2>1. /\ source' = [d \in Docs |-> IF d \in gone THEN 0 ELSE source[d]]
          /\ ripe' = ripe \ gone
      BY <1>2 DEF DeleteBatch
    <2> HIDE DEF gone
    <2>2. \A d \in Docs : d \notin gone => source'[d] = source[d]
      BY <2>1
    <2>3. ripe \subseteq Docs /\ \A d \in ripe : source[d] # 0
      BY <1>1 DEF FirstVersions, Present
    <2> QED
      BY <2>1, <2>2, <2>3 DEF Present
  <1>3. ASSUME NEW p \in Processes, Cycle(p) \/ Crash(p), ~DeleteBatch(p)
        PROVE  UNCHANGED <<source, ripe>>
    BY <1>3, Frames DEF Cycle
  <1>4. ASSUME UNCHANGED vars \/ \E a \in Archives : Damage(a)
        PROVE  UNCHANGED <<source, ripe>>
    BY <1>4 DEF vars, Damage
  <1>5. /\ \A d \in Docs : source'[d] \in {0, source[d]}
        /\ ripe' \subseteq Present' /\ ripe' \subseteq ripe
    <2>1. UNCHANGED <<source, ripe>> => /\ \A d \in Docs : source'[d] \in {0, source[d]}
                                        /\ ripe' \subseteq Present' /\ ripe' \subseteq ripe
      BY <1>1 DEF FirstVersions, Present
    <2> QED
      BY <1>2, <1>3, <1>4, <2>1 DEF Next
  <1>6. Present' \subseteq Present /\ Present \in SUBSET Docs
    BY <1>5 DEF Present
  <1>7. \A r \in DOMAIN dirs : r \in RunIds /\ Planned(Present, r)
    BY <1>1 DEF RetentionTypeOK, PlansAreOld
  <1>8. \A r \in DOMAIN dirs :
          /\ Planned(Present', r)
          /\ Overtaken(Present, r) => Overtaken(Present', r)
          /\ Present' # Present => Overtaken(Present', r)
          /\ \A has : Listed(Present, r, has) => Listed(Present', r, has)
    BY <1>6, <1>7, Shrinking
  <1> QED
    BY <1>5, <1>6, <1>8 DEF Shrunk

LEMMA PlannedNow ==
    ASSUME RetentionTypeOK, NEW purge, NextRun(purge).chosen # {}
    PROVE  Planned(Present, NextRun(purge))
  <1> DEFINE n == Required
             run == NextRun(purge)
  <1>1. /\ n \in Nat /\ MaxDocuments \in Nat /\ MaxDocuments > 0
        /\ Target \in Nat /\ High \in Nat /\ Target < High
    BY RequiredIsNat, RetentionAssumption
  <1>2. run.need = n /\ run.chosen = First(Limit(n), ripe) /\ ripe \in SUBSET Docs
    BY DEF NextRun, RetentionTypeOK
  <1>3. Limit(n) \in Nat /\ Limit(n) <= n /\ Limit(n) <= MaxDocuments
    <2> HIDE DEF n
    <2> QED
      BY <1>1 DEF Limit
  <1>4. /\ Cardinality(run.chosen) <= Limit(n) /\ Cardinality(run.chosen) \in Nat
        /\ Cardinality(run.chosen) # 0
    <2>1. /\ Cardinality(First(Limit(n), ripe)) <= Limit(n)
          /\ First(Limit(n), ripe) \in SUBSET Docs
      BY <1>2, <1>3, FirstIsFew
    <2> HIDE DEF run, n
    <2>2. /\ Cardinality(run.chosen) \in Nat /\ IsFiniteSet(run.chosen)
      BY <1>2, <2>1, Few
    <2>3. run.chosen # {}
      BY DEF run
    <2> QED
      BY <1>2, <2>1, <2>2, <2>3, FS_EmptySet
  <1>5. Cardinality(Present) \in Nat
    BY Counts DEF Present
  <1>6. n > 0
    <2> HIDE DEF run, n
    <2> QED
      BY <1>1, <1>3, <1>4
  <1>7. Cardinality(Present) <= n + Target
    BY <1>1, <1>5, <1>6 DEF Required
  <1> QED
    BY <1>2, <1>6, <1>7 DEF Planned

LEMMA PlansStay ==
    ASSUME RInv, CalmInv, Shrunk, [Next]_vars, \A d \in Docs : ~Write(d)
    PROVE  PlansAreOld'
  <1>1. RetentionTypeOK /\ PlansAreOld
    BY DEF RInv, CalmInv
  <1>2. ASSUME NEW p \in Processes, Plan(p)
        PROVE  PlansAreOld'
    <2>1. PICK purge \in Modes :
             NextRun(purge).chosen # {} /\ dirs' = MakeDir(NextRun(purge))
      BY <1>2 DEF Plan
    <2>2. Planned(Present, NextRun(purge))
      BY <1>1, <2>1, PlannedNow
    <2>3. Present' = Present
      BY <1>2, Frames DEF Present
    <2>4. DOMAIN dirs' = DOMAIN dirs \cup {NextRun(purge)}
      BY <2>1 DEF MakeDir
    <2> QED
      BY <2>2, <2>3, <2>4 DEF PlansAreOld, Shrunk
  <1>3. ASSUME NEW p \in Processes, Cycle(p) \/ Crash(p), ~Plan(p)
        PROVE  DOMAIN dirs' = DOMAIN dirs
    BY <1>1, <1>3, CycleStep, Working, DirsStayTyped
  <1>4. ASSUME UNCHANGED vars \/ \E a \in Archives : Damage(a)
        PROVE  DOMAIN dirs' = DOMAIN dirs
    BY <1>4 DEF vars, Damage
  <1>5. CASE DOMAIN dirs' = DOMAIN dirs
    BY <1>5 DEF PlansAreOld, Shrunk
  <1> QED
    BY <1>2, <1>3, <1>4, <1>5 DEF Next, Cycle

LEMMA VersionsStay ==
    ASSUME RInv, CalmInv, Shrunk, [Next]_vars, \A d \in Docs : ~Write(d)
    PROVE  FirstVersions'
  <1>1. RetentionTypeOK /\ FirstVersions
    BY DEF RInv, CalmInv
  <1>2. ripe' \subseteq Present' /\ \A d \in Docs : source'[d] \in {0, 1}
    BY <1>1 DEF Shrunk, FirstVersions
  <1>3. ASSUME NEW a \in Archives, NEW d \in Docs
        PROVE  primary'[a].has[d] \in {0, 1}
    <2>1. primary[a].has[d] \in {0, 1} /\ primary \in [Archives -> Files] /\ primary[a] \in Files
      BY <1>1 DEF FirstVersions, RetentionTypeOK
    <2>2. ASSUME NEW p \in Processes, Plan(p)
          PROVE  primary'[a].has[d] \in {0, 1}
      <3>1. \E b \in Archives : primary' = [primary EXCEPT ![b] = NoFile]
        BY <1>1, <2>2, PlanStep
      <3>2. NoFile.has[d] = 0
        BY DEF NoFile
      <3> QED
        BY <2>1, <3>1, <3>2
    <2>3. ASSUME NEW p \in Processes, Export(p)
          PROVE  primary'[a].has[d] \in {0, 1}
      <3>1. proc[p].seen[d] \in {0, 1}
        BY <1>1 DEF FirstVersions
      <3> DEFINE file == [has |-> proc[p].seen, ok |-> TRUE]
      <3>2. file.has[d] \in {0, 1}
        BY <3>1
      <3>3. UNCHANGED primary \/ primary' = [primary EXCEPT ![proc[p].archive] = file]
        BY <1>1, <2>3, ExportStep
      <3> HIDE DEF file
      <3> QED
        BY <2>1, <3>2, <3>3
    <2>4. ASSUME NEW p \in Processes, Cycle(p) \/ Crash(p), ~Plan(p), ~Export(p)
          PROVE  UNCHANGED primary
      BY <2>4, Frames DEF Cycle
    <2>5. ASSUME NEW b \in Archives, Damage(b)
          PROVE  primary'[a].has = primary[a].has
      BY <2>1, <2>5 DEF Damage, Files
    <2>6. UNCHANGED vars => UNCHANGED primary
      BY DEF vars
    <2> QED
      BY <2>1, <2>2, <2>3, <2>4, <2>5, <2>6 DEF Next, Cycle
  <1>4. ASSUME NEW q \in Processes, NEW d \in Docs
        PROVE  proc'[q].seen[d] \in {0, 1}
    <2>1. proc[q].seen[d] \in {0, 1} /\ source[d] \in {0, 1}
      BY <1>1 DEF FirstVersions
    <2>2. CASE Plan(q)
      <3>1. proc'[q].seen = [e \in Docs |-> 0]
        BY <1>1, <2>2, PlanStep
      <3> QED
        BY <3>1
    <2>3. CASE CopyDocuments(q)
      <3>1. \A S : Content(S)[d] \in {0, 1}
        BY <2>1 DEF Content
      <3>2. CASE Ends(q)
        BY <3>2, IdleIsTyped DEF Ends
      <3>3. CASE ~Ends(q)
        BY <1>1, <2>3, <3>1, <3>3, CopyStep
      <3> QED
        BY <3>2, <3>3
    <2>4. CASE (Cycle(q) \/ Crash(q)) /\ ~Plan(q) /\ ~CopyDocuments(q)
      <3>1. CASE Ends(q)
        BY <3>1, IdleIsTyped DEF Ends
      <3>2. CASE proc'[q].seen = proc[q].seen
        BY <2>1, <3>2
      <3>3. Ends(q) \/ proc'[q].seen = proc[q].seen
        BY <1>1, <2>4, ExportStep, ReplicateStep, ReceiptStep, FreezeStep, ReconcileStep,
           CountStep, DeleteStep, RecordStep, CatalogueStep, FinishStep, CrashStep DEF Cycle
      <3> QED
        BY <3>1, <3>2, <3>3
    <2>5. ASSUME NEW p \in Processes, Cycle(p) \/ Crash(p), p # q
          PROVE  proc'[q] = proc[q]
      BY <1>1, <2>5, OthersStay
    <2>6. ASSUME UNCHANGED vars \/ \E a \in Archives : Damage(a)
          PROVE  proc'[q] = proc[q]
      BY <2>6 DEF vars, Damage
    <2> QED
      BY <2>1, <2>2, <2>3, <2>4, <2>5, <2>6 DEF Next
  <1> QED
    BY <1>2, <1>3, <1>4 DEF FirstVersions

\* The listing in a process's own archive stays from the export on.
LEMMA OwnListStays ==
    ASSUME RetentionTypeOK, NamesAreOwn, [Next]_vars, NEW q \in Processes,
           proc[q].at \in Exported
    PROVE  primary'[proc[q].archive].has = primary[proc[q].archive].has
  <1> DEFINE b == proc[q].archive
  <1>1. /\ primary \in [Archives -> Files] /\ b \in Archives /\ primary[b] \in Files
        /\ proc[q].at # "idle" /\ proc[q].at # "export"
    BY Working DEF RetentionTypeOK, Exported, Past
  <1>2. ASSUME NEW p \in Processes, Plan(p)
        PROVE  primary'[b] = primary[b]
    <2>1. PICK a \in Archives : Fresh(a) /\ primary' = [primary EXCEPT ![a] = NoFile]
      BY <1>2, PlanStep
    <2>2. a # b
      BY <2>1 DEF Fresh
    <2> QED
      BY <1>1, <2>1, <2>2
  <1>3. ASSUME NEW p \in Processes, Export(p)
        PROVE  primary'[b] = primary[b]
    <2>1. proc[p].at = "export" /\ p # q
      BY <1>1, <1>3, ExportStep
    <2>2. proc[p].archive # b
      BY <1>1, <2>1 DEF NamesAreOwn
    <2> QED
      BY <1>1, <1>3, <2>2, ExportStep
  <1>4. ASSUME NEW p \in Processes, Cycle(p) \/ Crash(p), ~Plan(p), ~Export(p)
        PROVE  UNCHANGED primary
    BY <1>4, Frames DEF Cycle
  <1>5. ASSUME NEW a \in Archives, Damage(a)
        PROVE  primary'[b].has = primary[b].has
    <2> HIDE DEF b
    <2>1. UNCHANGED primary \/ primary' = [primary EXCEPT ![a].ok = FALSE]
      BY <1>5 DEF Damage
    <2> QED
      BY <1>1, <2>1 DEF Files
  <1>6. (UNCHANGED vars \/ \E d \in Docs : Write(d)) => UNCHANGED primary
    BY DEF vars, Write
  <1> QED
    BY <1>2, <1>3, <1>4, <1>5, <1>6 DEF Next, Cycle

LEMMA BatchIsListed ==
    ASSUME NEW p
    PROVE  /\ Members(proc[p].archive) = Named(primary[proc[p].archive].has)
           /\ ThisBatch(p) = BatchOf(primary[proc[p].archive].has, proc[p].batch)
           /\ ThisBatch(p) \subseteq Named(primary[proc[p].archive].has)
  BY DEF Members, Named, ThisBatch, Batch, BatchOf

LEMMA ListsStay ==
    ASSUME RInv, CalmInv, Shrunk, [Next]_vars, \A d \in Docs : ~Write(d)
    PROVE  ListsAreGood'
  <1>1. RetentionTypeOK /\ NamesAreOwn /\ FirstVersions /\ PlansAreOld /\ ListsAreGood
    BY DEF RInv, CalmInv
  <1> SUFFICES ASSUME NEW q \in Processes
               PROVE  /\ proc'[q].at = "export" =>
                            Listed(Present', proc'[q].run, proc'[q].seen)
                      /\ proc'[q].at \in Exported =>
                            Listed(Present', proc'[q].run, primary'[proc'[q].archive].has)
    BY DEF ListsAreGood
  <1>2. proc[q].at # "idle" => proc[q].run \in DOMAIN dirs
    BY <1>1 DEF RetentionTypeOK
  <1>3. /\ proc[q].at = "export" => Listed(Present', proc[q].run, proc[q].seen)
        /\ proc[q].at \in Exported =>
              Listed(Present', proc[q].run, primary'[proc[q].archive].has)
    <2>1. proc[q].at = "export" => Listed(Present', proc[q].run, proc[q].seen)
      BY <1>1, <1>2 DEF ListsAreGood, Shrunk
    <2>2. proc[q].at \in Exported =>
             Listed(Present', proc[q].run, primary[proc[q].archive].has)
      BY <1>1, <1>2 DEF ListsAreGood, Shrunk, Exported, Past
    <2> QED
      BY <1>1, <2>1, <2>2, OwnListStays
  <1>4. CASE proc'[q] = proc[q]
    BY <1>3, <1>4
  <1>5. CASE proc'[q].at \in {"idle", "copy"}
    BY <1>5 DEF Exported, Past
  <1>6. CASE CopyDocuments(q) /\ ~Ends(q)
    <2> DEFINE n == Cardinality(proc[q].run.chosen)
               chosen == First(n, ripe)
    <2>1. /\ GoesTo(q, "export") /\ proc'[q].seen = Content(chosen)
          /\ proc[q].at = "copy" /\ UNCHANGED <<source, ripe>>
      BY <1>1, <1>6, CopyStep, Frames
    <2>2. chosen # {}
      BY <1>1, <1>6, RaisesEnds DEF CopyDocuments
    <2>3. proc[q].run \in DOMAIN dirs /\ proc[q].run \in RunIds
      BY <1>1, <2>1, Working
    <2>4. n \in Nat
      <3>1. proc[q].run.chosen \in SUBSET Docs
        BY <2>3 DEF RunIds
      <3> QED
        BY <3>1, Few
    <2>5. ripe \in SUBSET Docs /\ ripe \subseteq Present
      BY <1>1 DEF FirstVersions, RetentionTypeOK
    <2> HIDE DEF n
    <2>6. chosen \subseteq ripe
      BY <2>4, <2>5, FirstIsFew
    <2> HIDE DEF chosen
    <2>7. Named(Content(chosen)) = chosen
      BY <2>5, <2>6 DEF Named, Content, Present
    <2>8. chosen \subseteq Present'
      BY <2>1, <2>5, <2>6 DEF Present
    <2>9. Listed(Present', proc[q].run, Content(chosen))
      BY <2>2, <2>7, <2>8 DEF Listed
    <2> QED
      BY <2>1, <2>9 DEF GoesTo, Exported, Past
  <1>7. CASE Export(q) /\ ~Ends(q)
    <2>1. /\ GoesTo(q, "replicate") /\ proc[q].at = "export"
          /\ primary' = [primary EXCEPT ![proc[q].archive] = [has |-> proc[q].seen, ok |-> TRUE]]
      BY <1>1, <1>7, ExportStep
    <2>2. proc[q].archive \in Archives /\ primary \in [Archives -> Files]
      BY <1>1, <2>1, Working DEF RetentionTypeOK
    <2>3. primary'[proc[q].archive].has = proc[q].seen
      BY <2>1, <2>2
    <2> QED
      BY <1>3, <2>1, <2>3 DEF GoesTo
  <1>8. CASE /\ proc[q].at \in Exported /\ proc'[q].run = proc[q].run
             /\ proc'[q].archive = proc[q].archive /\ proc'[q].at # "export"
    BY <1>3, <1>8
  <1>9. CASE Plan(q) \/ CopyDocuments(q) \/ Export(q)
    <2>1. Ends(q) => proc'[q].at = "idle"
      BY IdleIsTyped DEF Ends
    <2>2. Plan(q) => proc'[q].at = "copy"
      BY <1>1, PlanStep
    <2> QED
      BY <1>5, <1>6, <1>7, <1>9, <2>1, <2>2
  <1>10. CASE (Cycle(q) \/ Crash(q)) /\ ~Plan(q) /\ ~CopyDocuments(q) /\ ~Export(q)
    <2>1. Ends(q) => proc'[q].at = "idle"
      BY IdleIsTyped DEF Ends
    <2>2. \/ Ends(q)
          \/ /\ proc[q].at \in Exported
             /\ \E s \in {"receipt"} \cup Past : GoesTo(q, s)
      BY <1>1, <1>10, ReplicateStep, ReceiptStep, FreezeStep, ReconcileStep,
         CountStep, DeleteStep, RecordStep, CatalogueStep, FinishStep, CrashStep
         DEF Cycle, Exported, Past
    <2>3. (\E s \in {"receipt"} \cup Past : GoesTo(q, s)) =>
             /\ proc'[q].run = proc[q].run /\ proc'[q].archive = proc[q].archive
             /\ proc'[q].at # "export"
      BY DEF GoesTo, Past
    <2> QED
      BY <1>5, <1>8, <2>1, <2>2, <2>3
  <1>11. ASSUME NEW p \in Processes, Cycle(p) \/ Crash(p), p # q
         PROVE  proc'[q] = proc[q]
    BY <1>1, <1>11, OthersStay
  <1>12. ASSUME UNCHANGED vars \/ \E a \in Archives : Damage(a)
         PROVE  proc'[q] = proc[q]
    BY <1>12 DEF vars, Damage
  <1> QED
    BY <1>4, <1>9, <1>10, <1>11, <1>12 DEF Next

\* A cycle ends after its receipt when it is finished or overtaken, or when its
\* archive is refused.
LEMMA EndIsExplained ==
    ASSUME RInv, Undisturbed, CalmInv, NEW p \in Processes, Cycle(p),
           proc[p].at \in Past, Ends(p), ~Finish(p)
    PROVE  Overtaken(Present, proc[p].run) \/ Unfit(proc[p].run)
  <1> DEFINE a == proc[p].archive
             has == primary[a].has
             dir == dirs[proc[p].run]
  <1> SUFFICES ASSUME ~Overtaken(Present, proc[p].run), ~Unfit(proc[p].run)
               PROVE  FALSE
    OBVIOUS
  <1>1. /\ RetentionTypeOK /\ NamesAreOwn /\ StepsAreInOrder /\ CopiesAgree
        /\ FirstVersions /\ ListsAreGood /\ Unhindered(p)
    BY DEF RInv, CalmInv
  <1>2. /\ proc[p].run \in DOMAIN dirs /\ a \in Archives /\ a # NoArchive /\ dir.receipt = a
    BY <1>1, Working DEF NamesAreOwn, Past
  <1>3. Named(has) # {} /\ Named(has) \subseteq Present
    BY <1>1 DEF ListsAreGood, Listed, Exported
  <1>4. primary[a].ok /\ secondary[a].ok
    <2>1. a \notin Damaged(primary) \cup Damaged(secondary)
      BY <1>2 DEF Undisturbed
    <2>2. secondary[a].has = has
      BY <1>1, <1>2 DEF CopiesAgree
    <2>3. \E d \in Docs : has[d] # 0
      BY <1>3 DEF Named
    <2> QED
      BY <1>2, <2>1, <2>2, <2>3 DEF Damaged
  <1>5. proc'[p].at = "idle" /\ \A s \in Steps : GoesTo(p, s) => s = "idle"
    BY IdleIsTyped DEF Ends, GoesTo
  <1>6. \A from, s : s \in Steps /\ Goes(p, from, s) => s = "idle"
    BY <1>1, <1>5, GoesOn
  <1>7. ASSUME Freeze(p)
        PROVE  FALSE
    <2>1. dir.frozen = NoArchive
      BY <1>1, <1>7, FreezeStep DEF StepsAreInOrder
    <2>2. Goes(p, "freeze", "reconcile")
      BY <1>4, <1>7, <2>1 DEF Freeze
    <2> QED
      BY <1>6, <2>2 DEF Steps
  <1>8. ASSUME Reconcile(p)
        PROVE  FALSE
    <2>1. /\ proc[p].at = "reconcile" /\ ~dir.stopped /\ ~dir.executed /\ dir.done = {}
      BY <1>1, <1>8, ReconcileStep DEF StepsAreInOrder, Unhindered
    <2>2. Remaining(p) = Named(has) /\ Members(a) \ Remaining(p) = {}
      BY <2>1 DEF Remaining, Members, Named
    <2>3. Reconciled(p)
      <3>1. proc[p].run.purge
        BY <1>1, <2>1 DEF Unhindered
      <3>2. Cardinality(Remaining(p)) <= PilotMax /\ SameOrder(Remaining(p))
        BY <1>2, <2>2, <3>1 DEF Unfit, Fits, Members, Named
      <3>3. \A d \in Named(has) : source[d] = has[d]
        BY <1>1, <1>2, <1>3 DEF FirstVersions, Named, Present
      <3> QED
        BY <1>3, <2>2, <3>2, <3>3 DEF Reconciled
    <2>4. proc' = [proc EXCEPT ![p].at = "count", ![p].batch = 0, ![p].late = {}]
      BY <1>8, <2>1, <2>2, <2>3 DEF Reconcile
    <2>5. proc'[p].at = "count"
      BY <1>1, <2>4 DEF RetentionTypeOK, Locals
    <2> QED
      BY <1>5, <2>5
  <1>9. ASSUME CountBatch(p)
        PROVE  FALSE
    <2>1. proc[p].at = "count" /\ proc[p].batch = 0 /\ dir.done = {}
      BY <1>1, <1>9, CountStep DEF Unhindered
    <2>2. ThisBatch(p) # {} /\ ThisBatch(p) \subseteq Present
      <3>1. ThisBatch(p) = BatchOf(has, 0) /\ ThisBatch(p) \subseteq Named(has)
        BY <2>1, BatchIsListed
      <3>2. BatchOf(has, 0) # {}
        BY <1>3, FirstBatchIsThere
      <3> QED
        BY <1>3, <3>1, <3>2
    <2>3. Goes(p, "count", "delete")
      BY <1>9, <2>1, <2>2 DEF CountBatch
    <2> QED
      BY <1>6, <2>3 DEF Steps
  <1>10. ASSUME DeleteBatch(p)
         PROVE  FALSE
    BY <1>1, <1>5, <1>10, DeleteStep DEF Steps
  <1>11. ASSUME RecordBatch(p)
         PROVE  FALSE
    BY <1>1, <1>11, RecordStep DEF Unhindered
  <1>12. ASSUME Catalogue(p)
         PROVE  FALSE
    <2>1. ~proc[p].run.purge
      BY <1>1, <1>12, CatalogueStep DEF Unhindered
    <2>2. Goes(p, "catalog", "final")
      BY <1>4, <1>12, <2>1 DEF Catalogue
    <2> QED
      BY <1>6, <2>2 DEF Steps
  <1>13. ASSUME Plan(p) \/ CopyDocuments(p) \/ Export(p) \/ Replicate(p) \/ WriteReceipt(p)
         PROVE  FALSE
    BY <1>1, <1>13, PlanStep, CopyStep, ExportStep, ReplicateStep, ReceiptStep DEF Past
  <1> QED
    BY <1>7, <1>8, <1>9, <1>10, <1>11, <1>12, <1>13 DEF Cycle

\* Members that are gone, or a batch that is not all there, were deleted by a rival.
LEMMA GoneIsOvertaken ==
    ASSUME RInv, CalmInv, NEW p \in Processes, proc[p].at \in Exported,
           ~(Named(primary[proc[p].archive].has) \subseteq Present)
    PROVE  Overtaken(Present, proc[p].run)
  BY DEF CalmInv, ListsAreGood, Listed

LEMMA CountUnhindered ==
    ASSUME RInv, CalmInv, Shrunk, NEW p \in Processes, CountBatch(p)
    PROVE  Unhindered(p)'
  <1> DEFINE r == proc[p].run
             has == primary[proc[p].archive].has
  <1>1. RetentionTypeOK /\ Unhindered(p)
    BY DEF RInv, CalmInv
  <1>2. proc[p].at = "count" /\ r \in DOMAIN dirs /\ UNCHANGED primary
    BY <1>1, CountStep, Working, Frames
  <1>3. Overtaken(Present, r) => Overtaken(Present', r)
    BY <1>2 DEF Shrunk
  <1>4. Ends(p) => Unhindered(p)'
    BY IdleIsTyped DEF Ends, Unhindered
  <1>5. (GoesTo(p, "count") \/ GoesTo(p, "catalog")) /\ Overtaken(Present', r) => Unhindered(p)'
    BY DEF GoesTo, Unhindered
  <1>6. CASE ThisBatch(p) = {}
    <2>1. CASE Members(proc[p].archive) \cap Present = {}
      <3>1. Goes(p, "count", "catalog")
        BY <1>6, <2>1 DEF CountBatch
      <3>2. GoesTo(p, "catalog")
        BY <1>1, <3>1, GoesOn DEF Steps
      <3>3. Named(has) = Members(proc[p].archive) /\ Named(has) # {}
        BY <1>2, BatchIsListed DEF CalmInv, ListsAreGood, Listed, Exported, Past
      <3>4. ~(Named(has) \subseteq Present)
        BY <2>1, <3>3
      <3> QED
        BY <1>2, <1>3, <1>5, <3>2, <3>4, GoneIsOvertaken DEF Exported, Past
    <2>2. CASE Members(proc[p].archive) \cap Present # {}
      BY <1>1, <1>4, <1>6, <2>2, RaisesEnds DEF CountBatch
    <2> QED
      BY <2>1, <2>2
  <1>7. CASE ThisBatch(p) # {} /\ proc[p].batch \in dirs[r].done
    <2>1. proc' = [proc EXCEPT ![p].batch = @ + 1]
      BY <1>7 DEF CountBatch
    <2>2. proc'[p].at = "count" /\ proc'[p].run = r
      BY <1>1, <1>2, <2>1 DEF RetentionTypeOK, Locals
    <2>3. Overtaken(Present, r)
      BY <1>1, <1>2, <1>7 DEF Unhindered
    <2> QED
      BY <1>3, <2>2, <2>3 DEF Unhindered
  <1>8. CASE ThisBatch(p) # {} /\ proc[p].batch \notin dirs[r].done
    <2>1. CASE ThisBatch(p) \subseteq Present
      <3>1. Goes(p, "count", "delete")
        BY <1>8, <2>1 DEF CountBatch
      <3>2. GoesTo(p, "delete") /\ proc'[p].batch = proc[p].batch
        BY <1>1, <3>1, GoesOn DEF Steps
      <3>3. BatchOf(primary'[proc'[p].archive].has, proc'[p].batch) # {}
        BY <1>2, <1>8, <3>2, BatchIsListed DEF GoesTo
      <3>4. proc'[p].at = "delete"
        BY <3>2 DEF GoesTo
      <3> QED
        BY <3>3, <3>4 DEF Unhindered
    <2>2. CASE ~(ThisBatch(p) \subseteq Present)
      <3>1. Raises(p)
        BY <1>8, <2>2 DEF CountBatch
      <3> QED
        BY <1>1, <1>4, <3>1, RaisesEnds
    <2> QED
      BY <2>1, <2>2
  <1> QED
    BY <1>6, <1>7, <1>8

LEMMA DeleteUnhindered ==
    ASSUME RInv, CalmInv, Shrunk, NEW p \in Processes, DeleteBatch(p)
    PROVE  Unhindered(p)'
  <1> DEFINE r == proc[p].run
  <1>1. RetentionTypeOK /\ Unhindered(p)
    BY DEF RInv, CalmInv
  <1>2. proc[p].at = "delete" /\ GoesTo(p, "verify") /\ r \in DOMAIN dirs
    BY <1>1, DeleteStep, Working
  <1>3. PICK d \in ThisBatch(p) : d \in Docs
    BY <1>1, <1>2, BatchIsListed, BatchIsArchived DEF Unhindered
  <1>4. CASE source[d] # 0
    <2>1. source'[d] = 0
      BY <1>1, <1>3, <1>4, DeleteStep
    <2>2. Present' # Present
      BY <1>3, <1>4, <2>1 DEF Present
    <2>3. Overtaken(Present', r)
      BY <1>2, <2>2 DEF Shrunk
    <2> QED
      BY <1>2, <2>3 DEF GoesTo, Unhindered
  <1>5. CASE source[d] = 0
    <2>1. d \in Named(primary[proc[p].archive].has) /\ d \notin Present
      BY <1>3, <1>5, BatchIsListed DEF Present
    <2>2. Overtaken(Present, r)
      BY <1>2, <2>1, GoneIsOvertaken DEF Exported, Past
    <2>3. Overtaken(Present', r)
      BY <1>2, <2>2 DEF Shrunk
    <2> QED
      BY <1>2, <2>3 DEF GoesTo, Unhindered
  <1> QED
    BY <1>4, <1>5

LEMMA ReceiptUnhindered ==
    ASSUME RInv, CalmInv, NEW p \in Processes, WriteReceipt(p)
    PROVE  Unhindered(p)'
  <1> DEFINE r == proc[p].run
             a == proc[p].archive
  <1>1. RetentionTypeOK /\ NamesAreOwn /\ DirsAreInOrder /\ OpenIsManned
    BY DEF RInv, CalmInv
  <1>2. proc[p].at = "receipt"
    BY <1>1, ReceiptStep
  <1>3. /\ r \in DOMAIN dirs /\ dirs[r] \in RunDirs /\ dirs[r].receipt # a
        /\ dirs \in [DOMAIN dirs -> RunDirs]
    BY <1>1, <1>2, Working DEF NamesAreOwn, RetentionTypeOK
  <1>4. Ends(p) => Unhindered(p)'
    BY IdleIsTyped DEF Ends, Unhindered
  <1>5. CASE GoesTo(p, "freeze") /\ r.purge /\ dirs[r].receipt = NoArchive
             /\ dirs' = [dirs EXCEPT ![r].receipt = a]
    <2>1. ~dirs[r].stopped /\ ~dirs[r].executed
      BY <1>1, <1>3, <1>5 DEF OpenIsManned, DirsAreInOrder
    <2>2. dirs'[r].stopped = dirs[r].stopped /\ dirs'[r].executed = dirs[r].executed
      BY <1>3, <1>5 DEF RunDirs
    <2> QED
      BY <1>5, <2>1, <2>2 DEF GoesTo, Unhindered
  <1>6. CASE GoesTo(p, "catalog") /\ ~r.purge
    BY <1>6 DEF GoesTo, Unhindered
  <1> QED
    BY <1>1, <1>3, <1>4, <1>5, <1>6, ReceiptStep

LEMMA FreezeUnhindered ==
    ASSUME RInv, CalmInv, NEW p \in Processes, Freeze(p)
    PROVE  Unhindered(p)'
  <1> DEFINE r == proc[p].run
  <1>1. RetentionTypeOK /\ Unhindered(p)
    BY DEF RInv, CalmInv
  <1>2. proc[p].at = "freeze"
    BY <1>1, FreezeStep
  <1>3. /\ r \in DOMAIN dirs /\ dirs[r] \in RunDirs /\ dirs \in [DOMAIN dirs -> RunDirs]
        /\ r.purge /\ ~dirs[r].stopped /\ ~dirs[r].executed
    BY <1>1, <1>2, Working DEF RetentionTypeOK, Unhindered
  <1>4. CASE Ends(p)
    BY <1>4, IdleIsTyped DEF Ends, Unhindered
  <1>5. CASE GoesTo(p, "reconcile") /\ dirs' = [dirs EXCEPT ![r].frozen = proc[p].archive]
    <2>1. dirs'[r].stopped = dirs[r].stopped /\ dirs'[r].executed = dirs[r].executed
      BY <1>3, <1>5 DEF RunDirs
    <2> QED
      BY <1>3, <1>5, <2>1 DEF GoesTo, Unhindered
  <1> QED
    BY <1>1, <1>4, <1>5, FreezeStep

LEMMA ReconcileUnhindered ==
    ASSUME RInv, CalmInv, NEW p \in Processes, Reconcile(p)
    PROVE  Unhindered(p)'
  <1> DEFINE r == proc[p].run
  <1>1. RetentionTypeOK /\ Unhindered(p) /\ StepsAreInOrder
    BY DEF RInv, CalmInv
  <1>2. proc[p].at = "reconcile" /\ UNCHANGED dirs
    BY <1>1, ReconcileStep, Frames
  <1>3. ~dirs[r].executed /\ dirs[r].done = {}
    BY <1>1, <1>2 DEF Unhindered, StepsAreInOrder
  <1>4. CASE Raises(p)
    BY <1>1, <1>4, RaisesEnds, IdleIsTyped DEF Ends, Unhindered
  <1>5. CASE proc' = [proc EXCEPT ![p].at = "count", ![p].batch = 0, ![p].late = {}]
    <2>1. proc'[p].at = "count" /\ proc'[p].batch = 0 /\ proc'[p].run = r
      BY <1>1, <1>5 DEF RetentionTypeOK, Locals
    <2> QED
      BY <1>2, <1>3, <2>1 DEF Unhindered
  <1> QED
    BY <1>3, <1>4, <1>5 DEF Reconcile

LEMMA OwnUnhindered ==
    ASSUME RInv, CalmInv, Shrunk, NEW p \in Processes, Cycle(p)
    PROVE  Unhindered(p)'
  <1>1. RetentionTypeOK /\ Unhindered(p)
    BY DEF RInv, CalmInv
  <1>2. Ends(p) => Unhindered(p)'
    BY IdleIsTyped DEF Ends, Unhindered
  <1>3. CASE Plan(p) \/ CopyDocuments(p) \/ Export(p) \/ Replicate(p)
    <2>1. CASE proc'[p].at \in {"copy", "export", "replicate", "receipt"}
      BY <2>1 DEF Unhindered
    <2>2. Ends(p) \/ proc'[p].at \in {"copy", "export", "replicate", "receipt"}
      BY <1>1, <1>3, PlanStep, CopyStep, ExportStep, ReplicateStep DEF GoesTo
    <2> QED
      BY <1>2, <2>1, <2>2
  <1>4. CASE RecordBatch(p)
    <2>1. proc[p].at = "verify" /\ proc[p].run \in DOMAIN dirs
      BY <1>1, <1>4, RecordStep, Working
    <2>2. Overtaken(Present', proc[p].run)
      BY <1>1, <2>1 DEF Unhindered, Shrunk
    <2>3. CASE GoesTo(p, "count")
      BY <2>2, <2>3 DEF GoesTo, Unhindered
    <2> QED
      BY <1>1, <1>2, <1>4, <2>3, RecordStep
  <1>5. CASE Catalogue(p) \/ Finish(p)
    <2>1. CASE GoesTo(p, "final")
      BY <2>1 DEF GoesTo, Unhindered
    <2> QED
      BY <1>1, <1>2, <1>5, <2>1, CatalogueStep, FinishStep
  <1> QED
    BY <1>3, <1>4, <1>5, CountUnhindered, DeleteUnhindered, ReceiptUnhindered,
       FreezeUnhindered, ReconcileUnhindered DEF Cycle

\* What a process knows of its run stays when another one steps.
LEMMA KeptUnhindered ==
    ASSUME RInv, CalmInv, Shrunk, [Next]_vars, NEW q \in Processes, proc'[q] = proc[q],
           proc[q].at \in Past => dirs'[proc[q].run] = dirs[proc[q].run]
    PROVE  Unhindered(q)'
  <1>1. RetentionTypeOK /\ NamesAreOwn /\ Unhindered(q)
    BY DEF RInv, CalmInv
  <1>2. CASE proc[q].at \in Past
    <2>1. /\ proc[q].run \in DOMAIN dirs
          /\ Overtaken(Present, proc[q].run) => Overtaken(Present', proc[q].run)
      BY <1>1, <1>2, Working DEF Shrunk, Past
    <2>2. primary'[proc[q].archive].has = primary[proc[q].archive].has
      BY <1>1, <1>2, OwnListStays DEF Exported
    <2> QED
      BY <1>1, <1>2, <2>1, <2>2 DEF Unhindered
  <1>3. CASE proc[q].at \notin Past
    BY <1>3 DEF Unhindered, Past
  <1> QED
    BY <1>2, <1>3

LEMMA UnhinderedStays ==
    ASSUME RInv, CalmInv, Shrunk, [Next]_vars, NEW q \in Processes,
           \A d \in Docs : ~Write(d), \A p \in Processes : ~Crash(p)
    PROVE  Unhindered(q)'
  <1>1. RetentionTypeOK /\ NamesAreOwn
    BY DEF RInv
  <1>2. ASSUME NEW p \in Processes, Cycle(p), p # q
        PROVE  Unhindered(q)'
    <2>1. /\ proc'[q] = proc[q]
          /\ proc[q].at \in Past => dirs'[proc[q].run] = dirs[proc[q].run]
      BY <1>1, <1>2, OthersStay, OthersRunsStay
    <2> QED
      BY <2>1, KeptUnhindered
  <1>3. CASE UNCHANGED vars \/ \E a \in Archives : Damage(a)
    <2>1. UNCHANGED <<proc, dirs>>
      BY <1>3 DEF vars, Damage
    <2> QED
      BY <2>1, KeptUnhindered
  <1> QED
    BY <1>2, <1>3, OwnUnhindered DEF Next

\* Only the head of the loop and the count after the deletion stop a run.
LEMMA StoppedAfterReceipt ==
    ASSUME RInv, NEW p \in Processes, Cycle(p), ~Plan(p), proc[p].at \notin Past,
           NEW r \in DOMAIN dirs
    PROVE  dirs'[r].stopped = dirs[r].stopped
  <1>1. RetentionTypeOK
    BY DEF RInv
  <1>2. CASE UNCHANGED dirs
    BY <1>2
  <1>3. CASE dirs' = [dirs EXCEPT ![proc[p].run].receipt = proc[p].archive]
    <2>1. dirs \in [DOMAIN dirs -> RunDirs] /\ dirs[r] \in RunDirs
      BY <1>1 DEF RetentionTypeOK
    <2> QED
      BY <1>3, <2>1 DEF RunDirs
  <1> QED
    BY <1>1, <1>2, <1>3, CopyStep, ExportStep, ReplicateStep, ReceiptStep, FreezeStep,
       ReconcileStep, CountStep, DeleteStep, RecordStep, CatalogueStep, FinishStep, Frames
       DEF Cycle, Past

LEMMA NoReceiptIsNotStopped ==
    ASSUME RInv, CalmInv, NEW p \in Processes, Cycle(p), NEW r \in DOMAIN dirs',
           dirs'[r].receipt = NoArchive
    PROVE  ~dirs'[r].stopped
  <1>1. RetentionTypeOK /\ NamesAreOwn /\ OpenIsManned
    BY DEF RInv, CalmInv
  <1>2. CASE Plan(p)
    <2>1. PICK run \in RunIds :
             /\ DOMAIN dirs' = DOMAIN dirs \cup {run}
             /\ \A s \in DOMAIN dirs : dirs'[s] = dirs[s]
             /\ run \notin DOMAIN dirs => dirs'[run] = NewDir
      BY <1>1, <1>2, PlanStep
    <2> QED
      BY <1>1, <2>1 DEF OpenIsManned, NewDir
  <1>3. CASE ~Plan(p)
    <2>1. /\ DirChanges(proc[p].run) /\ proc[p].run \in DOMAIN dirs /\ proc[p].archive # NoArchive
          /\ proc[p].at # "idle"
      BY <1>1, <1>3, CycleStep, Working
    <2>2. /\ DOMAIN dirs' = DOMAIN dirs
          /\ \A s \in DOMAIN dirs : s # proc[p].run => dirs'[s] = dirs[s]
      BY <1>1, <2>1, DirsStayTyped
    <2>3. CASE r # proc[p].run
      BY <1>1, <2>2, <2>3 DEF OpenIsManned
    <2>4. CASE r = proc[p].run /\ proc[p].at \in Past
      <3>1. dirs[r].receipt = proc[p].archive
        BY <1>1, <2>4 DEF NamesAreOwn
      <3>2. ~WriteReceipt(p)
        BY <1>1, <2>4, ReceiptStep DEF Past
      <3>3. dirs'[r].receipt = proc[p].archive
        BY <1>1, <1>3, <2>2, <3>1, <3>2, ReceiptsKept DEF ReceiptsStay
      <3> QED
        BY <2>1, <3>3
    <2>5. CASE r = proc[p].run /\ proc[p].at \notin Past
      <3>1. dirs'[r].stopped = dirs[r].stopped
        BY <1>3, <2>2, <2>5, StoppedAfterReceipt
      <3>2. dirs[r].receipt = NoArchive
        <4>1. CASE WriteReceipt(p)
          <5>1. dirs \in [DOMAIN dirs -> RunDirs]
            BY <1>1 DEF RetentionTypeOK
          <5>2. (dirs' = [dirs EXCEPT ![r].receipt = proc[p].archive]) =>
                   dirs'[r].receipt = proc[p].archive
            BY <2>1, <2>2, <5>1 DEF RunDirs
          <5>3. UNCHANGED dirs \/ dirs' = [dirs EXCEPT ![r].receipt = proc[p].archive]
            BY <1>1, <2>5, <4>1, ReceiptStep
          <5> QED
            BY <2>1, <5>2, <5>3
        <4>2. CASE ~WriteReceipt(p)
          BY <1>1, <1>3, <2>2, <4>2, ReceiptsKept DEF ReceiptsStay
        <4> QED
          BY <4>1, <4>2
      <3> QED
        BY <1>1, <2>2, <3>1, <3>2 DEF OpenIsManned
    <2> QED
      BY <2>3, <2>4, <2>5
  <1> QED
    BY <1>2, <1>3

\* A process past its receipt goes on there, or ends.
LEMMA PastStays ==
    ASSUME RInv, NEW p \in Processes, Cycle(p), proc[p].at \in Past, ~Ends(p)
    PROVE  proc'[p].at \in Past /\ proc'[p].run = proc[p].run
  <1>1. RetentionTypeOK
    BY DEF RInv
  <1>2. \A s : GoesTo(p, s) => proc'[p].at = s /\ proc'[p].run = proc[p].run
    BY DEF GoesTo
  <1>3. CASE Freeze(p) \/ Reconcile(p) \/ CountBatch(p)
    BY <1>1, <1>2, <1>3, FreezeStep, ReconcileStep, CountStep DEF Past
  <1>4. CASE DeleteBatch(p) \/ RecordBatch(p) \/ Catalogue(p) \/ Finish(p)
    BY <1>1, <1>2, <1>4, DeleteStep, RecordStep, CatalogueStep, FinishStep DEF Past
  <1>5. CASE Plan(p) \/ CopyDocuments(p) \/ Export(p) \/ Replicate(p) \/ WriteReceipt(p)
    BY <1>1, <1>5, PlanStep, CopyStep, ExportStep, ReplicateStep, ReceiptStep DEF Past
  <1> QED
    BY <1>3, <1>4, <1>5 DEF Cycle

\* An archive that is refused once is refused ever after.
LEMMA UnfitStays ==
    ASSUME RInv, [Next]_vars, NEW r \in DOMAIN dirs, dirs[r].receipt # NoArchive, Unfit(r)
    PROVE  Unfit(r)'
  <1> DEFINE b == dirs[r].receipt
  <1>1. RetentionTypeOK /\ NamesAreOwn /\ DirsAreInOrder /\ StepsAreInOrder
    BY DEF RInv
  <1>2. b \in Archives /\ Held(b)
    <2>1. dirs[r] \in RunDirs
      BY <1>1 DEF RetentionTypeOK
    <2> QED
      BY <2>1 DEF RunDirs, Held
  <1>3. primary'[b].has = primary[b].has
    BY <1>1, <1>2, HeldStays
  <1>4. dirs'[r].receipt = b
    BY <1>1, RunsStay
  <1>5. Fits(dirs[r].receipt)' <=> Fits(b)
    BY <1>3, <1>4 DEF Fits, Members, SameOrder
  <1> QED
    BY <1>5 DEF Unfit

\* An open run stays manned, or is overtaken or refused.
LEMMA OpenStays ==
    ASSUME RInv, Undisturbed, CalmInv, Shrunk, NEW p \in Processes, Cycle(p),
           NEW r \in DOMAIN dirs', dirs'[r].receipt # NoArchive, ~dirs'[r].final
    PROVE  \/ Overtaken(Present', r) \/ Unfit(r)'
           \/ \E q \in Processes : proc'[q].at \in Past /\ proc'[q].run = r
  <1>1. RetentionTypeOK /\ NamesAreOwn /\ OpenIsManned /\ [Next]_vars
    BY DEF RInv, CalmInv, Next
  <1>2. ASSUME r \in DOMAIN dirs, dirs'[r] = dirs[r], r # proc[p].run \/ proc[p].at \notin Past
        PROVE  \/ Overtaken(Present', r) \/ Unfit(r)'
               \/ \E q \in Processes : proc'[q].at \in Past /\ proc'[q].run = r
    <2>1. CASE Overtaken(Present, r)
      BY <1>2, <2>1 DEF Shrunk
    <2>2. CASE Unfit(r)
      <3>1. dirs[r].receipt # NoArchive
        BY <1>2
      <3> QED
        BY <1>1, <1>2, <2>2, <3>1, UnfitStays
    <2>3. CASE ~Overtaken(Present, r) /\ ~Unfit(r)
      <3>1. PICK q \in Processes : proc[q].at \in Past /\ proc[q].run = r
        BY <1>1, <1>2, <2>3 DEF OpenIsManned
      <3>2. proc'[q] = proc[q]
        BY <1>1, <1>2, <3>1, OthersStay
      <3> QED
        BY <3>1, <3>2
    <2> QED
      BY <2>1, <2>2, <2>3
  <1>3. CASE Plan(p)
    <2>1. PICK run \in RunIds :
             /\ proc[p].at = "idle"
             /\ DOMAIN dirs' = DOMAIN dirs \cup {run}
             /\ \A s \in DOMAIN dirs : dirs'[s] = dirs[s]
             /\ run \notin DOMAIN dirs => dirs'[run] = NewDir
      BY <1>1, <1>3, PlanStep
    <2> QED
      BY <1>2, <2>1 DEF NewDir, Past
  <1>4. CASE ~Plan(p)
    <2>1. DirChanges(proc[p].run) /\ proc[p].run \in DOMAIN dirs
      BY <1>1, <1>4, CycleStep, Working
    <2>2. /\ DOMAIN dirs' = DOMAIN dirs
          /\ \A s \in DOMAIN dirs : s # proc[p].run => dirs'[s] = dirs[s]
      BY <1>1, <2>1, DirsStayTyped
    <2>3. CASE r # proc[p].run
      BY <1>2, <2>2, <2>3
    <2>4. CASE r = proc[p].run /\ proc[p].at \in Past
      <3>1. CASE ~Ends(p)
        BY <2>4, <3>1, PastStays
      <3>2. CASE Ends(p)
        <4>1. ~Finish(p)
          <5>1. dirs[r] \in RunDirs /\ dirs \in [DOMAIN dirs -> RunDirs]
            BY <1>1, <2>2 DEF RetentionTypeOK
          <5>2. (dirs' = [dirs EXCEPT ![r].final = TRUE]) => dirs'[r].final
            BY <2>2, <5>1 DEF RunDirs
          <5> QED
            BY <1>1, <2>4, <5>2, FinishStep
        <4>2. Overtaken(Present, r) \/ Unfit(r)
          BY <2>4, <3>2, <4>1, EndIsExplained
        <4>3. dirs[r].receipt # NoArchive
          BY <1>1, <2>1, <2>4, Working DEF NamesAreOwn, Past
        <4> QED
          BY <1>1, <2>2, <4>2, <4>3, UnfitStays DEF Shrunk
      <3> QED
        BY <3>1, <3>2
    <2>5. CASE r = proc[p].run /\ proc[p].at \notin Past
      <3>1. CASE UNCHANGED dirs
        BY <1>2, <2>2, <2>5, <3>1
      <3>2. CASE GoesTo(p, "freeze") \/ GoesTo(p, "catalog")
        BY <2>5, <3>2 DEF GoesTo, Past
      <3> QED
        BY <1>1, <1>4, <2>5, <3>1, <3>2, CopyStep, ExportStep, ReplicateStep, ReceiptStep,
           FreezeStep, ReconcileStep, CountStep, DeleteStep, RecordStep, CatalogueStep,
           FinishStep, Frames DEF Cycle, Past
    <2> QED
      BY <2>3, <2>4, <2>5
  <1> QED
    BY <1>3, <1>4

LEMMA MannedStays ==
    ASSUME RInv, Undisturbed, CalmInv, Shrunk, [Next]_vars,
           \A d \in Docs : ~Write(d), \A p \in Processes : ~Crash(p)
    PROVE  OpenIsManned'
  <1>1. ASSUME NEW p \in Processes, Cycle(p)
        PROVE  OpenIsManned'
    BY <1>1, NoReceiptIsNotStopped, OpenStays DEF OpenIsManned
  <1>2. CASE UNCHANGED vars \/ \E a \in Archives : Damage(a)
    <2>1. UNCHANGED <<proc, dirs>>
      BY <1>2 DEF vars, Damage
    <2>2. \A r \in DOMAIN dirs :
             /\ Overtaken(Present, r) => Overtaken(Present', r)
             /\ dirs[r].receipt # NoArchive /\ Unfit(r) => Unfit(r)'
      BY UnfitStays DEF Shrunk
    <2> QED
      BY <2>1, <2>2 DEF CalmInv, OpenIsManned
  <1> QED
    BY <1>1, <1>2 DEF Next

LEMMA CalmStays ==
    ASSUME RInv, Undisturbed => CalmInv, [Next]_vars, Undisturbed'
    PROVE  CalmInv'
  <1>1. /\ Undisturbed /\ CalmInv
        /\ \A d \in Docs : ~Write(d)
        /\ \A p \in Processes : ~Crash(p)
    BY CalmBefore
  <1>2. Shrunk
    BY <1>1, Shrinks
  <1>3. FirstVersions' /\ PlansAreOld' /\ ListsAreGood'
    BY <1>1, <1>2, VersionsStay, PlansStay, ListsStay
  <1>4. OpenIsManned'
    BY <1>1, <1>2, MannedStays
  <1>5. \A q \in Processes : Unhindered(q)'
    BY <1>1, <1>2, UnhinderedStays
  <1> QED
    BY <1>3, <1>4, <1>5 DEF CalmInv

LEMMA InitiallyCalm ==
    ASSUME Init
    PROVE  CalmInv
  <1>1. \A p \in Processes : proc[p] = Idle /\ proc[p].at = "idle"
    BY IdleIsTyped DEF Init
  <1>2. DOMAIN dirs = {}
    BY DEF Init
  <1>3. FirstVersions
    BY <1>1, IdleIsTyped DEF Init, FirstVersions, Present, NoFile
  <1>4. ListsAreGood /\ \A p \in Processes : Unhindered(p)
    BY <1>1 DEF ListsAreGood, Exported, Past, Unhindered
  <1> QED
    BY <1>2, <1>3, <1>4 DEF CalmInv, PlansAreOld, OpenIsManned

LEMMA CalmInvariant == Spec => []QInv
  <1>1. Init => (Undisturbed => CalmInv)
    BY InitiallyCalm
  <1>2. RInv /\ (Undisturbed => CalmInv) /\ [Next]_vars => (Undisturbed => CalmInv)'
    BY CalmStays
  <1>3. RInv /\ (Undisturbed => CalmInv) => QInv
    BY DEF QInv
  <1> QED
    BY <1>1, <1>2, <1>3, Invariant, PTL DEF Spec

\* While nobody dies, no copy goes bad and no service writes, only a run whose archive
\* the reconciliation refuses, for its size or for its order, is in the way of the
\* next cycle.
THEOREM StuckIsUnfit == Spec => []OnlyUnfitRunsAreStuck
  <1>1. QInv => OnlyUnfitRunsAreStuck
    <2> SUFFICES ASSUME QInv, Calm, \A p \in Processes : proc[p].at = "idle",
                        NEW r \in DOMAIN dirs, r = NextRun(r.purge), ~dirs[r].final,
                        dirs[r].receipt # NoArchive
                 PROVE  Unfit(r)
      BY DEF OnlyUnfitRunsAreStuck, Unfit
    <2>1. Undisturbed
      BY DEF Calm, Undisturbed
    <2>2. RetentionTypeOK /\ OpenIsManned /\ PlansAreOld
      BY <2>1 DEF QInv, RInv, CalmInv
    <2>3. (Overtaken(Present, r) \/ Unfit(r)) /\ Planned(Present, r)
      BY <2>2 DEF OpenIsManned, PlansAreOld, Past
    <2>4. r.need = Required
      BY DEF NextRun
    <2>5. Cardinality(Present) \in Nat /\ High \in Nat /\ Target \in Nat
      BY Counts, RetentionAssumption DEF Present
    <2> QED
      BY <2>3, <2>4, <2>5 DEF Overtaken, Planned, Required
  <1> QED
    BY <1>1, CalmInvariant, PTL
=============================================================================
