-------------------------- MODULE ThreatIntelProofs --------------------------
(* Theorems about ThreatIntel, for any number of events, any budget and any  *)
(* length of the stream.                                                     *)
EXTENDS ThreatIntel, SequenceTheorems, TLAPS

MessageStates == {"absent", "unread", "pending", "acked"}
JobStates == {"unread", "pending", "acked", "trimmed"}

\* What TiTypeOK leaves to the parts below: a stream is a sequence.
Typed ==
    /\ raw \in [RawEvents -> MessageStates]
    /\ kept \subseteq RawEvents /\ canonical \subseteq RawEvents /\ queued \in BOOLEAN
    /\ jobs \in Seq([event : RawEvents, state : JobStates])
    /\ minute \in [counter : 0..Budget, requests : Nat]
    /\ cached \in BOOLEAN /\ projected \subseteq kept
    /\ processor \in [Loops -> [at : {"idle", "store", "dedup", "publish", "canonical", "ack"},
                                on : RawEvents \cup {0}]]
    /\ lookup \in [Loops -> [at : {"idle", "reserve", "ask", "store", "attach", "ack"},
                             job : 0..MaxJobs]]
    /\ refused \subseteq DOMAIN jobs

\* A loop of the processor works on an event, which is stored once the look-up is
\* considered and published before it is acknowledged; so is an acknowledged one.
EventsAreKept ==
    /\ \A p \in Loops :
          /\ processor[p].at # "idle" => processor[p].on \in RawEvents
          /\ processor[p].at \notin {"idle", "store"} => processor[p].on \in kept
          /\ processor[p].at = "ack" => processor[p].on \in canonical
    /\ \A e \in RawEvents : raw[e] = "acked" => e \in kept \cap canonical

Answered(i) == i \in refused \/ jobs[i].event \in projected

\* A look-up is of a stored event, and one about to be acknowledged is answered.
JobsAreAnswered ==
    /\ \A i \in DOMAIN jobs :
          /\ jobs[i].event \in kept
          /\ jobs[i].state = "acked" => Answered(i)
    /\ \A t \in Loops :
          /\ lookup[t].at # "idle" => lookup[t].job \in DOMAIN jobs
          /\ lookup[t].at = "ack" => Answered(lookup[t].job)

Publishing(at) == IF at = "publish" THEN 1 ELSE 0
Asking(at) == IF at = "ask" THEN 1 ELSE 0
Free == IF queued THEN 0 ELSE 1

\* Every look-up about to be published was let through by a key of its own.
KeysBoundJobs ==
    Len(jobs) + Publishing(processor["consume"].at) + Publishing(processor["recover"].at)
       + Free <= MaxJobs

\* A request that was made or is about to be made was counted in this minute, except
\* for one of each loop.
RequestsAreCounted ==
    minute.requests + Asking(lookup["consume"].at) + Asking(lookup["recover"].at)
       <= minute.counter + 2

TInv == Typed /\ EventsAreKept /\ JobsAreAnswered /\ KeysBoundJobs /\ RequestsAreCounted

-----------------------------------------------------------------------------
LEMMA TiInitial ==
    ASSUME TiInit
    PROVE  TInv
  <1>0. jobs \in Seq([event : RawEvents, state : JobStates])
    BY EmptySeq DEF TiInit
  <1>1. Typed
    <2>1. minute \in [counter : 0..Budget, requests : Nat]
      BY TiAssumption DEF TiInit
    <2>2. lookup \in [Loops -> [at : {"idle", "reserve", "ask", "store", "attach", "ack"},
                                job : 0..MaxJobs]]
      BY TiAssumption DEF TiInit, NoLookup
    <2> QED
      BY <1>0, <2>1, <2>2 DEF TiInit, Typed, NoMessage, MessageStates
  <1>2. EventsAreKept /\ JobsAreAnswered
    BY DEF TiInit, EventsAreKept, JobsAreAnswered, NoMessage, NoLookup
  <1>3. KeysBoundJobs /\ RequestsAreCounted
    BY TiAssumption DEF TiInit, KeysBoundJobs, RequestsAreCounted, Publishing, Free, Asking, NoMessage, NoLookup, Loops
  <1> QED
    BY <1>1, <1>2, <1>3 DEF TInv

LEMMA TiStutter ==
    ASSUME TInv, UNCHANGED tiVars
    PROVE  TInv'
  BY DEF tiVars, TInv, Typed, EventsAreKept, JobsAreAnswered, Answered, KeysBoundJobs,
     Free, RequestsAreCounted

\* What a step of a loop of the processor does to its locals.
LEMMA AtTyped ==
    ASSUME Typed, NEW p \in Loops, NEW from, NEW to \in
              {"idle", "dedup", "publish", "canonical", "ack"}, At(p, from, to)
    PROVE  /\ processor[p].at = from
           /\ processor' \in
                [Loops -> [at : {"idle", "store", "dedup", "publish", "canonical", "ack"},
                           on : RawEvents \cup {0}]]
           /\ processor'[p].at = to
           /\ to # "idle" => processor'[p].on = processor[p].on
           /\ \A q \in Loops : q # p => processor'[q] = processor[q]
  <1> DEFINE Locals == [at : {"idle", "store", "dedup", "publish", "canonical", "ack"},
                        on : RawEvents \cup {0}]
             l == IF to = "idle" THEN NoMessage ELSE [processor[p] EXCEPT !.at = to]
  <1>1. processor \in [Loops -> Locals] /\ processor[p] \in Locals
    BY DEF Typed
  <1>2. processor[p].at = from /\ processor' = [processor EXCEPT ![p] = l]
    BY DEF At
  <1>3. NoMessage \in Locals /\ NoMessage.at = "idle"
    BY DEF NoMessage
  <1>4. l \in Locals /\ l.at = to /\ (to # "idle" => l.on = processor[p].on)
    BY <1>1, <1>3
  <1>5. processor' \in [Loops -> Locals]
        /\ processor'[p] = l /\ \A q \in Loops : q # p => processor'[q] = processor[q]
    BY <1>1, <1>2, <1>4
  <1> QED
    BY <1>2, <1>4, <1>5

\* The same of a loop of the TI worker.
LEMMA DoesTyped ==
    ASSUME Typed, NEW t \in Loops, NEW from, NEW to \in
              {"idle", "ask", "store", "attach", "ack"}, Does(t, from, to)
    PROVE  /\ lookup[t].at = from
           /\ lookup' \in
                [Loops -> [at : {"idle", "reserve", "ask", "store", "attach", "ack"},
                           job : 0..MaxJobs]]
           /\ lookup'[t].at = to
           /\ to # "idle" => lookup'[t].job = lookup[t].job
           /\ \A q \in Loops : q # t => lookup'[q] = lookup[q]
  <1> DEFINE Locals == [at : {"idle", "reserve", "ask", "store", "attach", "ack"},
                        job : 0..MaxJobs]
             l == IF to = "idle" THEN NoLookup ELSE [lookup[t] EXCEPT !.at = to]
  <1>1. lookup \in [Loops -> Locals] /\ lookup[t] \in Locals
    BY DEF Typed
  <1>2. lookup[t].at = from /\ lookup' = [lookup EXCEPT ![t] = l]
    BY DEF Does
  <1>3. NoLookup \in Locals /\ NoLookup.at = "idle"
    BY TiAssumption DEF NoLookup
  <1>4. l \in Locals /\ l.at = to /\ (to # "idle" => l.job = lookup[t].job)
    BY <1>1, <1>3
  <1>5. lookup' \in [Loops -> Locals]
        /\ lookup'[t] = l /\ \A q \in Loops : q # t => lookup'[q] = lookup[q]
    BY <1>1, <1>2, <1>4
  <1> QED
    BY <1>2, <1>4, <1>5

-----------------------------------------------------------------------------
(* The processor. *)

LEMMA CollectKeeps ==
    ASSUME TInv, NEW e \in RawEvents, Collect(e)
    PROVE  TInv'
  <1>1. Typed' /\ EventsAreKept'
    BY DEF Collect, TInv, Typed, EventsAreKept, MessageStates
  <1> QED
    BY <1>1 DEF Collect, TInv, JobsAreAnswered, Answered, KeysBoundJobs, Free,
       RequestsAreCounted

LEMMA TakeMessageKeeps ==
    ASSUME TInv, NEW p \in Loops, NEW e \in RawEvents, TakeMessage(p, e)
    PROVE  TInv'
  <1> DEFINE Locals == [at : {"idle", "store", "dedup", "publish", "canonical", "ack"},
                        on : RawEvents \cup {0}]
  <1>1. [at |-> "store", on |-> e] \in Locals
    OBVIOUS
  <1>2. processor \in [Loops -> Locals] /\ raw \in [RawEvents -> MessageStates]
    BY DEF TInv, Typed
  <1>3. /\ processor' \in [Loops -> Locals]
        /\ processor'[p].at = "store" /\ processor'[p].on = e
        /\ \A q \in Loops : q # p => processor'[q] = processor[q]
    BY <1>1, <1>2 DEF TakeMessage
  <1>4. /\ raw' \in [RawEvents -> MessageStates]
        /\ \A f \in RawEvents : raw'[f] = "acked" => raw[f] = "acked"
    BY <1>2 DEF TakeMessage, MessageStates
  <1>5. Typed' /\ JobsAreAnswered' /\ RequestsAreCounted'
    BY <1>3, <1>4 DEF TakeMessage, TInv, Typed, JobsAreAnswered, Answered, RequestsAreCounted
  <1>6. EventsAreKept'
    BY <1>3, <1>4 DEF TakeMessage, TInv, EventsAreKept
  <1>7. KeysBoundJobs'
    BY <1>2, <1>3, TiAssumption DEF TakeMessage, TInv, KeysBoundJobs, Publishing, Free, Loops
  <1> QED
    BY <1>5, <1>6, <1>7 DEF TInv

\* A loop of the processor takes a step that forgets nothing and lets no look-up through
\* without a key.
LEMMA ProcessorMoves ==
    ASSUME TInv, NEW p \in Loops, NEW from, NEW to \in
              {"idle", "dedup", "publish", "canonical", "ack"},
           from # "idle", At(p, from, to),
           to # "idle" => processor[p].on \in kept',
           to = "ack" => processor[p].on \in canonical',
           kept \subseteq kept', kept' \subseteq RawEvents,
           canonical \subseteq canonical', canonical' \subseteq RawEvents,
           queued' \in BOOLEAN,
           Publishing(to) + Free' <= Publishing(from) + Free,
           raw' \in [RawEvents -> MessageStates],
           \A e \in RawEvents : raw'[e] = "acked" => e \in kept' \cap canonical',
           UNCHANGED <<jobs, minute, cached, projected, lookup, refused>>
    PROVE  TInv'
  <1>1. Typed
    BY DEF TInv
  <1>2. /\ processor[p].at = from
        /\ processor' \in
             [Loops -> [at : {"idle", "store", "dedup", "publish", "canonical", "ack"},
                        on : RawEvents \cup {0}]]
        /\ processor'[p].at = to
        /\ to # "idle" => processor'[p].on = processor[p].on
        /\ \A q \in Loops : q # p => processor'[q] = processor[q]
    BY <1>1, AtTyped
  <1>3. Typed'
    BY <1>1, <1>2 DEF Typed
  <1>4. EventsAreKept'
    BY <1>2 DEF TInv, EventsAreKept
  <1>5. JobsAreAnswered' /\ RequestsAreCounted'
    BY DEF TInv, JobsAreAnswered, Answered, RequestsAreCounted
  <1>6. KeysBoundJobs'
    <2>1. Len(jobs) \in Nat
      BY <1>1, LenProperties DEF Typed
    <2>4. /\ MaxJobs \in Nat /\ \A at : Publishing(at) \in Nat
          /\ Free \in Nat /\ Free' \in Nat
          /\ Len(jobs) + Publishing(processor["consume"].at)
                + Publishing(processor["recover"].at) + Free <= MaxJobs
          /\ jobs' = jobs
      BY TiAssumption DEF TInv, KeysBoundJobs, Publishing, Free
    <2> USE DEF KeysBoundJobs
    <2>2. CASE p = "consume"
      <3>1. processor'["recover"] = processor["recover"]
        BY <1>2, <2>2 DEF Loops
      <3>2. /\ Publishing(processor'["consume"].at) = Publishing(to)
            /\ Publishing(processor["consume"].at) = Publishing(from)
            /\ Publishing(processor'["recover"].at) = Publishing(processor["recover"].at)
        BY <1>2, <2>2, <3>1
      <3> QED
        BY <2>1, <2>4, <3>2
    <2>3. CASE p = "recover"
      <3>1. processor'["consume"] = processor["consume"]
        BY <1>2, <2>3 DEF Loops
      <3>2. /\ Publishing(processor'["recover"].at) = Publishing(to)
            /\ Publishing(processor["recover"].at) = Publishing(from)
            /\ Publishing(processor'["consume"].at) = Publishing(processor["consume"].at)
        BY <1>2, <2>3, <3>1
      <3> QED
        BY <2>1, <2>4, <3>2
    <2> QED
      BY <2>2, <2>3 DEF Loops
  <1> QED
    BY <1>3, <1>4, <1>5, <1>6 DEF TInv

LEMMA UpsertKeeps ==
    ASSUME TInv, NEW p \in Loops, UpsertEvent(p)
    PROVE  TInv'
  <1>1. At(p, "store", "dedup") /\ processor[p].at = "store"
    BY DEF UpsertEvent, At
  <1>2. processor[p].on \in RawEvents
    BY <1>1 DEF TInv, EventsAreKept
  <1>3. /\ kept' = kept \cup {processor[p].on}
        /\ UNCHANGED <<raw, canonical, queued, jobs, minute, cached, projected, lookup, refused>>
    BY DEF UpsertEvent
  <1>4. Publishing("dedup") + Free' <= Publishing("store") + Free
    BY <1>3 DEF Publishing, Free
  <1>5. /\ kept \subseteq kept' /\ kept' \subseteq RawEvents /\ canonical' \subseteq RawEvents
        /\ queued' \in BOOLEAN /\ raw' \in [RawEvents -> MessageStates]
        /\ \A e \in RawEvents : raw'[e] = "acked" => e \in kept' \cap canonical'
    BY <1>2, <1>3 DEF TInv, Typed, EventsAreKept
  <1> QED
    BY <1>1, <1>3, <1>4, <1>5, ProcessorMoves

LEMMA DedupKeeps ==
    ASSUME TInv, NEW p \in Loops, Dedup(p)
    PROVE  TInv'
  <1> DEFINE to == IF queued THEN "canonical" ELSE "publish"
  <1>1. At(p, "dedup", to) /\ processor[p].at = "dedup" /\ to \in {"publish", "canonical"}
    BY DEF Dedup, At
  <1>2. processor[p].on \in kept
    BY <1>1 DEF TInv, EventsAreKept
  <1>3. /\ queued' = TRUE
        /\ UNCHANGED <<raw, kept, canonical, jobs, minute, cached, projected, lookup, refused>>
    BY DEF Dedup
  <1>4. Publishing(to) + Free' <= Publishing("dedup") + Free
    BY <1>3 DEF Publishing, Free
  <1>5. /\ kept' \subseteq RawEvents /\ canonical' \subseteq RawEvents
        /\ queued' \in BOOLEAN /\ raw' \in [RawEvents -> MessageStates]
        /\ \A e \in RawEvents : raw'[e] = "acked" => e \in kept' \cap canonical'
    BY <1>3 DEF TInv, Typed, EventsAreKept
  <1> HIDE DEF to
  <1> QED
    BY <1>1, <1>2, <1>3, <1>4, <1>5, ProcessorMoves

LEMMA PublishFailsKeeps ==
    ASSUME TInv, NEW p \in Loops, PublishFails(p)
    PROVE  TInv'
  <1>1. At(p, "publish", "idle")
    BY DEF PublishFails
  <1>2. /\ queued' = FALSE
        /\ UNCHANGED <<raw, kept, canonical, jobs, minute, cached, projected, lookup, refused>>
    BY DEF PublishFails
  <1>3. Publishing("idle") + Free' <= Publishing("publish") + Free
    BY <1>2 DEF Publishing, Free
  <1>4. /\ kept' \subseteq RawEvents /\ canonical' \subseteq RawEvents
        /\ queued' \in BOOLEAN /\ raw' \in [RawEvents -> MessageStates]
        /\ \A e \in RawEvents : raw'[e] = "acked" => e \in kept' \cap canonical'
    BY <1>2 DEF TInv, Typed, EventsAreKept
  <1> QED
    BY <1>1, <1>2, <1>3, <1>4, ProcessorMoves

LEMMA PublishCanonicalKeeps ==
    ASSUME TInv, NEW p \in Loops, PublishCanonical(p)
    PROVE  TInv'
  <1>1. At(p, "canonical", "ack") /\ processor[p].at = "canonical"
    BY DEF PublishCanonical, At
  <1>2. processor[p].on \in kept
    BY <1>1 DEF TInv, EventsAreKept
  <1>3. /\ canonical' = canonical \cup {processor[p].on}
        /\ UNCHANGED <<raw, kept, queued, jobs, minute, cached, projected, lookup, refused>>
    BY DEF PublishCanonical
  <1>4. Publishing("ack") + Free' <= Publishing("canonical") + Free
    BY <1>3 DEF Publishing, Free
  <1>5. /\ kept' \subseteq RawEvents
        /\ canonical \subseteq canonical' /\ canonical' \subseteq RawEvents
        /\ queued' \in BOOLEAN /\ raw' \in [RawEvents -> MessageStates]
        /\ \A e \in RawEvents : raw'[e] = "acked" => e \in kept' \cap canonical'
    BY <1>2, <1>3 DEF TInv, Typed, EventsAreKept
  <1> QED
    BY <1>1, <1>2, <1>3, <1>4, <1>5, ProcessorMoves

LEMMA AckMessageKeeps ==
    ASSUME TInv, NEW p \in Loops, AckMessage(p)
    PROVE  TInv'
  <1>1. At(p, "ack", "idle") /\ processor[p].at = "ack"
    BY DEF AckMessage, At
  <1>2. processor[p].on \in kept \cap canonical
    BY <1>1 DEF TInv, EventsAreKept
  <1>3. /\ raw' = [raw EXCEPT ![processor[p].on] = "acked"]
        /\ UNCHANGED <<kept, canonical, queued, jobs, minute, cached, projected, lookup, refused>>
    BY DEF AckMessage
  <1>4. Publishing("idle") + Free' <= Publishing("ack") + Free
    BY <1>3 DEF Publishing, Free
  <1>5. /\ kept' \subseteq RawEvents /\ canonical' \subseteq RawEvents
        /\ queued' \in BOOLEAN /\ raw' \in [RawEvents -> MessageStates]
        /\ \A e \in RawEvents : raw'[e] = "acked" => e \in kept' \cap canonical'
    BY <1>2, <1>3 DEF TInv, Typed, EventsAreKept, MessageStates
  <1> QED
    BY <1>1, <1>3, <1>4, <1>5, ProcessorMoves

LEMMA ProcessFailsKeeps ==
    ASSUME TInv, NEW p \in Loops, ProcessFails(p)
    PROVE  TInv'
  <1> DEFINE from == processor[p].at
  <1>1. At(p, from, "idle") /\ from # "idle"
    BY DEF ProcessFails, At
  <1>2. UNCHANGED <<raw, kept, canonical, queued, jobs, minute, cached, projected, lookup,
                    refused>>
    BY DEF ProcessFails
  <1>3. Publishing("idle") + Free' <= Publishing(from) + Free
    BY <1>2 DEF Publishing, Free
  <1>4. /\ kept' \subseteq RawEvents /\ canonical' \subseteq RawEvents
        /\ queued' \in BOOLEAN /\ raw' \in [RawEvents -> MessageStates]
        /\ \A e \in RawEvents : raw'[e] = "acked" => e \in kept' \cap canonical'
    BY <1>2 DEF TInv, Typed, EventsAreKept
  <1> HIDE DEF from
  <1> QED
    BY <1>1, <1>2, <1>3, <1>4, ProcessorMoves

LEMMA PublishJobKeeps ==
    ASSUME TInv, NEW p \in Loops, PublishJob(p)
    PROVE  TInv'
  <1> DEFINE Job == [event : RawEvents, state : JobStates]
             n == Len(jobs)
  <1>1. At(p, "publish", "canonical") /\ processor[p].at = "publish"
    BY DEF PublishJob, At
  <1>2. processor[p].on \in kept /\ processor[p].on \in RawEvents
    BY <1>1 DEF TInv, Typed, EventsAreKept
  <1>3. UNCHANGED <<raw, kept, canonical, queued, minute, cached, projected, lookup, refused>>
    BY DEF PublishJob
  <1>4. Typed /\ jobs \in Seq(Job) /\ n \in Nat /\ DOMAIN jobs = 1..n
    BY LenProperties DEF TInv, Typed
  <1>5. PICK trim \in BOOLEAN :
           jobs' = [i \in 1..(n + 1) |->
                      IF i > n THEN [event |-> processor[p].on, state |-> "unread"]
                      ELSE IF trim /\ i + StreamMax <= n + 1 /\ jobs[i].state # "acked"
                      THEN [jobs[i] EXCEPT !.state = "trimmed"]
                      ELSE jobs[i]]
    BY DEF PublishJob
  <1>6. ASSUME NEW i \in 1..n
        PROVE  jobs[i] \in Job /\ [jobs[i] EXCEPT !.state = "trimmed"] \in Job
    <2>1. jobs[i] \in Job
      BY <1>4, ElementOfSeq
    <2> QED
      BY <2>1 DEF JobStates
  <1>7. [event |-> processor[p].on, state |-> "unread"] \in Job
    BY <1>2 DEF JobStates
  <1>8. /\ jobs' \in [1..(n + 1) -> Job]
        /\ \A i \in 1..n : /\ jobs'[i].event = jobs[i].event
                           /\ jobs'[i].state = "acked" => jobs[i].state = "acked"
        /\ jobs'[n + 1] = [event |-> processor[p].on, state |-> "unread"]
    <2>1. \A i \in 1..n : jobs'[i] \in {jobs[i], [jobs[i] EXCEPT !.state = "trimmed"]}
      BY <1>4, <1>5
    <2>2. jobs'[n + 1] = [event |-> processor[p].on, state |-> "unread"]
      BY <1>4, <1>5
    <2>3. \A i \in 1..(n + 1) : i \in 1..n \/ i = n + 1
      BY <1>4
    <2>4. DOMAIN jobs' = 1..(n + 1)
      BY <1>5
    <2>5. jobs' = [i \in DOMAIN jobs' |-> jobs'[i]]
      BY <1>5
    <2>6. jobs' \in [1..(n + 1) -> Job]
      BY <1>6, <1>7, <2>1, <2>2, <2>3, <2>4, <2>5
    <2>7. \A i \in 1..n : [jobs[i] EXCEPT !.state = "trimmed"].event = jobs[i].event
                         /\ [jobs[i] EXCEPT !.state = "trimmed"].state = "trimmed"
      BY <1>6
    <2> QED
      BY <2>1, <2>2, <2>6, <2>7
  <1>9. jobs' \in Seq(Job) /\ Len(jobs') = n + 1 /\ DOMAIN jobs' = 1..(n + 1)
    <2>1. jobs' \in Seq(Job)
      <3>1. n + 1 \in Nat
        BY <1>4
      <3> HIDE DEF Job, n
      <3> QED
        BY <1>8, <3>1, SeqDef
    <2> QED
      BY <1>4, <1>8, <2>1, LenProperties
  <1>10. /\ processor[p].at = "publish"
         /\ processor' \in
              [Loops -> [at : {"idle", "store", "dedup", "publish", "canonical", "ack"},
                         on : RawEvents \cup {0}]]
         /\ processor'[p].at = "canonical"
         /\ processor'[p].on = processor[p].on
         /\ \A q \in Loops : q # p => processor'[q] = processor[q]
    BY <1>1, <1>4, AtTyped
  <1>11. Typed'
    <2>1. refused' \subseteq DOMAIN jobs'
      BY <1>3, <1>4, <1>9 DEF Typed
    <2> QED
      BY <1>3, <1>4, <1>9, <1>10, <2>1 DEF Typed
  <1>12. EventsAreKept'
    BY <1>2, <1>3, <1>10 DEF TInv, EventsAreKept
  <1>13. JobsAreAnswered'
    <2>1. \A i \in 1..n : Answered(i) => Answered(i)'
      BY <1>3, <1>8 DEF Answered
    <2>2. \A i \in 1..(n + 1) : /\ jobs'[i].event \in kept'
                                /\ jobs'[i].state = "acked" => Answered(i)'
      <3>1. ASSUME NEW i \in 1..n
            PROVE  jobs'[i].event \in kept' /\ (jobs'[i].state = "acked" => Answered(i)')
        BY <1>3, <1>4, <1>8, <2>1 DEF TInv, JobsAreAnswered
      <3>2. jobs'[n + 1].event \in kept' /\ jobs'[n + 1].state # "acked"
        BY <1>2, <1>3, <1>8
      <3>3. \A i \in 1..(n + 1) : i \in 1..n \/ i = n + 1
        BY <1>4
      <3> QED
        BY <3>1, <3>2, <3>3
    <2>3. \A t \in Loops : /\ lookup'[t].at # "idle" => lookup'[t].job \in 1..n
                           /\ lookup'[t].at = "ack" => Answered(lookup'[t].job)
      BY <1>3, <1>4 DEF TInv, JobsAreAnswered
    <2>4. \A t \in Loops : lookup'[t].at = "ack" =>
             lookup'[t].job \in refused' \/ jobs'[lookup'[t].job].event \in projected'
      <3>1. ASSUME NEW t \in Loops, lookup'[t].at = "ack"
            PROVE  lookup'[t].job \in refused' \/ jobs'[lookup'[t].job].event \in projected'
        <4>1. lookup'[t].job \in 1..n
          BY <2>3, <3>1
        <4> QED
          BY <1>3, <1>8, <2>3, <3>1, <4>1 DEF Answered
      <3> QED
        BY <3>1
    <2>5. 1..n \subseteq 1..(n + 1)
      BY <1>4
    <2> QED
      BY <1>9, <2>2, <2>3, <2>4, <2>5 DEF JobsAreAnswered, Answered
  <1>14. KeysBoundJobs'
    <2> DEFINE c == Publishing(processor["consume"].at)
               r == Publishing(processor["recover"].at)
    <2>1. n + c + r + Free <= MaxJobs /\ Free \in Nat /\ Free' = Free /\ c \in Nat /\ r \in Nat
      BY <1>3 DEF TInv, KeysBoundJobs, Free, Publishing
    <2>2. CASE p = "consume"
      <3>1. processor'["recover"] = processor["recover"]
        BY <1>10, <2>2 DEF Loops
      <3>2. c = 1 /\ Publishing(processor'["consume"].at) = 0
        BY <1>10, <2>2 DEF Publishing
      <3> QED
        BY <1>4, <1>9, <2>1, <3>1, <3>2, TiAssumption DEF KeysBoundJobs
    <2>3. CASE p = "recover"
      <3>1. processor'["consume"] = processor["consume"]
        BY <1>10, <2>3 DEF Loops
      <3>2. r = 1 /\ Publishing(processor'["recover"].at) = 0
        BY <1>10, <2>3 DEF Publishing
      <3> QED
        BY <1>4, <1>9, <2>1, <3>1, <3>2, TiAssumption DEF KeysBoundJobs
    <2> QED
      BY <2>2, <2>3 DEF Loops
  <1>15. RequestsAreCounted'
    BY <1>3 DEF TInv, RequestsAreCounted
  <1> QED
    BY <1>11, <1>12, <1>13, <1>14, <1>15 DEF TInv

-----------------------------------------------------------------------------
(* The TI worker. *)

LEMMA TakeJobKeeps ==
    ASSUME TInv, NEW t \in Loops, NEW i \in 1..MaxJobs, TakeJob(t, i)
    PROVE  TInv'
  <1> DEFINE Job == [event : RawEvents, state : JobStates]
             Locals == [at : {"idle", "reserve", "ask", "store", "attach", "ack"},
                        job : 0..MaxJobs]
             at == IF cached THEN "attach" ELSE "reserve"
  <1>1. jobs \in Seq(Job) /\ i \in 1..Len(jobs) /\ DOMAIN jobs = 1..Len(jobs)
    BY LenProperties DEF TInv, Typed, TakeJob
  <1>2. [jobs[i] EXCEPT !.state = "pending"] \in Job
        /\ [jobs[i] EXCEPT !.state = "pending"].event = jobs[i].event
        /\ [jobs[i] EXCEPT !.state = "pending"].state = "pending"
    <2>1. jobs[i] \in Job
      BY <1>1, ElementOfSeq
    <2> QED
      BY <2>1 DEF JobStates
  <1>3. jobs' = [jobs EXCEPT ![i] = [jobs[i] EXCEPT !.state = "pending"]]
    BY DEF TakeJob
  <1>4. /\ jobs' \in Seq(Job) /\ Len(jobs') = Len(jobs) /\ DOMAIN jobs' = DOMAIN jobs
        /\ \A j \in DOMAIN jobs : /\ jobs'[j].event = jobs[j].event
                                  /\ jobs'[j].state = "acked" => jobs[j].state = "acked"
    <2>1. /\ jobs' \in Seq(Job) /\ Len(jobs') = Len(jobs)
          /\ \A j \in 1..Len(jobs) :
                jobs'[j] = IF j = i THEN [jobs[i] EXCEPT !.state = "pending"] ELSE jobs[j]
      BY <1>1, <1>2, <1>3, ExceptSeq
    <2>2. DOMAIN jobs' = 1..Len(jobs)
      BY <2>1, LenProperties
    <2> QED
      BY <1>1, <1>2, <2>1, <2>2
  <1>5. UNCHANGED <<raw, kept, canonical, queued, minute, cached, projected, processor, refused>>
    BY DEF TakeJob
  <1>6. /\ lookup' \in [Loops -> Locals]
        /\ lookup'[t].at \in {"attach", "reserve"} /\ lookup'[t].job = i
        /\ \A q \in Loops : q # t => lookup'[q] = lookup[q]
    <2>1. [at |-> at, job |-> i] \in Locals /\ at \in {"attach", "reserve"}
      OBVIOUS
    <2>2. lookup \in [Loops -> Locals] /\ lookup' = [lookup EXCEPT ![t] = [at |-> at, job |-> i]]
      BY DEF TInv, Typed, TakeJob
    <2> HIDE DEF at
    <2> QED
      BY <2>1, <2>2
  <1>7. Typed'
    BY <1>4, <1>5, <1>6 DEF TInv, Typed
  <1>8. EventsAreKept' /\ KeysBoundJobs'
    BY <1>4, <1>5 DEF TInv, EventsAreKept, KeysBoundJobs, Free
  <1>9. JobsAreAnswered'
    <2>1. \A j \in DOMAIN jobs' :
             /\ jobs'[j].event \in kept'
             /\ jobs'[j].state = "acked" => j \in refused' \/ jobs'[j].event \in projected'
      BY <1>4, <1>5 DEF TInv, JobsAreAnswered, Answered
    <2>2. ASSUME NEW q \in Loops
          PROVE  /\ lookup'[q].at # "idle" => lookup'[q].job \in DOMAIN jobs'
                 /\ lookup'[q].at = "ack" => \/ lookup'[q].job \in refused'
                                            \/ jobs'[lookup'[q].job].event \in projected'
      <3>1. CASE q = t
        BY <1>1, <1>4, <1>6, <3>1
      <3>2. CASE q # t
        BY <1>4, <1>5, <1>6, <3>2 DEF TInv, JobsAreAnswered, Answered
      <3> QED
        BY <3>1, <3>2
    <2> QED
      BY <2>1, <2>2 DEF JobsAreAnswered, Answered
  <1>10. RequestsAreCounted'
    <2>1. \A at0 : Asking(at0) \in Nat
      BY DEF Asking
    <2>2. minute.requests \in Nat /\ minute.counter \in Nat /\ minute' = minute
      BY <1>5, TiAssumption DEF TInv, Typed
    <2>3. Asking(lookup'[t].at) = 0
      BY <1>6 DEF Asking
    <2>4. \A q \in Loops : Asking(lookup'[q].at) <= Asking(lookup[q].at)
      BY <1>6, <2>1, <2>3
    <2> QED
      BY <2>1, <2>2, <2>4 DEF TInv, RequestsAreCounted, Loops
  <1> QED
    BY <1>7, <1>8, <1>9, <1>10 DEF TInv

\* A loop of the TI worker takes a step that asks on a reservation only and
\* acknowledges what is answered.
LEMMA LookupMoves ==
    ASSUME TInv, NEW t \in Loops, NEW from, NEW to \in
              {"idle", "ask", "store", "attach", "ack"},
           from # "idle", Does(t, from, to),
           to = "ack" => \/ lookup[t].job \in refused'
                         \/ jobs[lookup[t].job].event \in projected',
           jobs' \in Seq([event : RawEvents, state : JobStates]), DOMAIN jobs' = DOMAIN jobs,
           Len(jobs') = Len(jobs),
           \A i \in DOMAIN jobs : /\ jobs'[i].event = jobs[i].event
                                  /\ jobs'[i].state = "acked" =>
                                        jobs[i].state = "acked" \/ Answered(i),
           minute' \in [counter : 0..Budget, requests : Nat],
           minute'.requests + Asking(to) + minute.counter
              <= minute.requests + Asking(from) + minute'.counter,
           refused \subseteq refused', refused' \subseteq DOMAIN jobs,
           projected \subseteq projected', projected' \subseteq kept,
           cached' \in BOOLEAN,
           UNCHANGED <<raw, kept, canonical, queued, processor>>
    PROVE  TInv'
  <1>1. Typed
    BY DEF TInv
  <1>2. /\ lookup[t].at = from
        /\ lookup' \in
             [Loops -> [at : {"idle", "reserve", "ask", "store", "attach", "ack"},
                        job : 0..MaxJobs]]
        /\ lookup'[t].at = to
        /\ to # "idle" => lookup'[t].job = lookup[t].job
        /\ \A q \in Loops : q # t => lookup'[q] = lookup[q]
    BY <1>1, DoesTyped
  <1>3. Typed'
    BY <1>1, <1>2 DEF Typed
  <1>4. EventsAreKept' /\ KeysBoundJobs'
    BY DEF TInv, EventsAreKept, KeysBoundJobs, Free
  <1>5. JobsAreAnswered'
    <2> DEFINE Done(i) == i \in refused' \/ jobs'[i].event \in projected'
    <2>1. \A i \in DOMAIN jobs : Answered(i) => Done(i)
      BY DEF Answered
    <2>2. \A i \in DOMAIN jobs' : /\ jobs'[i].event \in kept'
                                  /\ jobs'[i].state = "acked" => Done(i)
      <3>1. ASSUME NEW i \in DOMAIN jobs
            PROVE  jobs'[i].event \in kept' /\ (jobs'[i].state = "acked" => Done(i))
        <4>1. jobs[i].event \in kept /\ (jobs[i].state = "acked" => Answered(i))
          BY DEF TInv, JobsAreAnswered
        <4> QED
          BY <2>1, <4>1
      <3> QED
        BY <3>1
    <2>3. lookup[t].job \in DOMAIN jobs
      BY <1>2 DEF TInv, JobsAreAnswered
    <2>4. to = "ack" => Done(lookup'[t].job)
      BY <1>2, <2>3
    <2>5. \A q \in Loops : q # t /\ lookup'[q].at = "ack" => Done(lookup'[q].job)
      <3>1. ASSUME NEW q \in Loops, q # t, lookup'[q].at = "ack"
            PROVE  Done(lookup'[q].job)
        <4>1. lookup[q].job \in DOMAIN jobs /\ Answered(lookup[q].job)
          BY <1>2, <3>1 DEF TInv, JobsAreAnswered
        <4> QED
          BY <1>2, <2>1, <3>1, <4>1
      <3> QED
        BY <3>1
    <2>6. \A q \in Loops : lookup'[q].at # "idle" => lookup'[q].job \in DOMAIN jobs'
      BY <1>2, <2>3 DEF TInv, JobsAreAnswered
    <2> QED
      BY <1>2, <2>2, <2>4, <2>5, <2>6 DEF JobsAreAnswered, Answered
  <1>6. RequestsAreCounted'
    <2> DEFINE c == Asking(lookup["consume"].at)
               r == Asking(lookup["recover"].at)
               made == minute.requests
               made1 == minute'.requests
               counted == minute.counter
               counted1 == minute'.counter
               a == Asking(from)
               b == Asking(to)
    <2>1. /\ made \in Nat /\ counted \in Nat /\ made1 \in Nat /\ counted1 \in Nat
          /\ made + c + r <= counted + 2
      BY <1>1, TiAssumption DEF TInv, Typed, RequestsAreCounted
    <2>2. c \in Nat /\ r \in Nat /\ a \in Nat /\ b \in Nat
      BY DEF Asking
    <2>3. made1 + b + counted <= made + a + counted1
      OBVIOUS
    <2>4. /\ c = a => made1 + b + r <= counted1 + 2
          /\ r = a => made1 + c + b <= counted1 + 2
      <3> HIDE DEF c, r, made, made1, counted, counted1, a, b
      <3> QED
        BY <2>1, <2>2, <2>3
    <2>5. CASE t = "consume"
      <3>1. lookup'["recover"] = lookup["recover"]
        BY <1>2, <2>5 DEF Loops
      <3>2. c = a /\ Asking(lookup'["consume"].at) = b
        BY <1>2, <2>5
      <3> QED
        BY <2>4, <3>1, <3>2 DEF RequestsAreCounted
    <2>6. CASE t = "recover"
      <3>1. lookup'["consume"] = lookup["consume"]
        BY <1>2, <2>6 DEF Loops
      <3>2. r = a /\ Asking(lookup'["recover"].at) = b
        BY <1>2, <2>6
      <3> QED
        BY <2>4, <3>1, <3>2 DEF RequestsAreCounted
    <2> QED
      BY <2>5, <2>6 DEF Loops
  <1> QED
    BY <1>3, <1>4, <1>5, <1>6 DEF TInv

LEMMA ReserveKeeps ==
    ASSUME TInv, NEW t \in Loops, ReserveBudget(t)
    PROVE  TInv'
  <1> DEFINE to == IF minute.counter < Budget THEN "ask" ELSE "store"
  <1>1. Does(t, "reserve", to) /\ to \in {"ask", "store"}
    BY DEF ReserveBudget
  <1>2. UNCHANGED <<raw, kept, canonical, queued, jobs, cached, projected, processor, refused>>
    BY DEF ReserveBudget
  <1>3. minute \in [counter : 0..Budget, requests : Nat]
    BY DEF TInv, Typed
  <1>4. /\ minute' \in [counter : 0..Budget, requests : Nat]
        /\ minute'.requests + Asking(to) + minute.counter
             <= minute.requests + Asking("reserve") + minute'.counter
    <2>1. CASE minute.counter < Budget
      <3>1. minute' = [minute EXCEPT !.counter = minute.counter + 1]
        BY <2>1 DEF ReserveBudget
      <3>2. /\ minute' \in [counter : 0..Budget, requests : Nat]
            /\ minute'.requests = minute.requests /\ minute'.counter = minute.counter + 1
        BY <1>3, <2>1, <3>1, TiAssumption
      <3>3. Asking(to) = 1 /\ Asking("reserve") = 0
        BY <2>1 DEF Asking
      <3> QED
        BY <1>3, <3>2, <3>3, TiAssumption
    <2>2. CASE ~(minute.counter < Budget)
      <3>1. minute' = minute
        BY <2>2 DEF ReserveBudget
      <3>2. Asking(to) = 0 /\ Asking("reserve") = 0
        BY <2>2 DEF Asking
      <3> QED
        BY <1>3, <3>1, <3>2, TiAssumption
    <2> QED
      BY <2>1, <2>2
  <1>5. /\ jobs' \in Seq([event : RawEvents, state : JobStates])
        /\ refused' \subseteq DOMAIN jobs /\ projected' \subseteq kept /\ cached' \in BOOLEAN
    BY <1>2 DEF TInv, Typed
  <1> HIDE DEF to
  <1> QED
    BY <1>1, <1>2, <1>4, <1>5, LookupMoves

\* A request uses up a reservation.
LEMMA AskKeeps ==
    ASSUME TInv, NEW t \in Loops, AskProvider(t) \/ ProviderFails(t)
    PROVE  TInv'
  <1>1. PICK to \in {"store", "ack", "idle"} :
           /\ Does(t, "ask", to)
           /\ to # "ack" => refused' = refused
           /\ to = "ack" => refused' = refused \cup {lookup[t].job}
    BY DEF AskProvider, ProviderFails
  <1>2. /\ minute' = [minute EXCEPT !.requests = minute.requests + 1]
        /\ UNCHANGED <<raw, kept, canonical, queued, jobs, cached, projected, processor>>
    BY DEF AskProvider, ProviderFails
  <1>3. minute \in [counter : 0..Budget, requests : Nat]
    BY DEF TInv, Typed
  <1>4. /\ minute' \in [counter : 0..Budget, requests : Nat]
        /\ minute'.requests = minute.requests + 1 /\ minute'.counter = minute.counter
    BY <1>2, <1>3
  <1>5. Asking(to) = 0 /\ Asking("ask") = 1
    BY <1>1 DEF Asking
  <1>6. minute'.requests + Asking(to) + minute.counter
           <= minute.requests + Asking("ask") + minute'.counter
    BY <1>3, <1>4, <1>5, TiAssumption
  <1>7. lookup[t].job \in DOMAIN jobs
    BY <1>1 DEF Does, TInv, JobsAreAnswered
  <1>8. /\ refused \subseteq refused' /\ refused' \subseteq DOMAIN jobs
        /\ to = "ack" => lookup[t].job \in refused'
    BY <1>1, <1>7 DEF TInv, Typed
  <1>9. /\ jobs' \in Seq([event : RawEvents, state : JobStates])
        /\ projected' \subseteq kept /\ cached' \in BOOLEAN
    BY <1>2 DEF TInv, Typed
  <1> QED
    BY <1>1, <1>2, <1>4, <1>6, <1>8, <1>9, LookupMoves

LEMMA AnswerKeeps ==
    ASSUME TInv, NEW t \in Loops, StoreAnswer(t) \/ AttachToEvent(t) \/ LookupFails(t)
    PROVE  TInv'
  <1>1. /\ UNCHANGED <<raw, kept, canonical, queued, jobs, minute, processor, refused>>
        /\ lookup[t].at # "idle"
    BY DEF StoreAnswer, AttachToEvent, LookupFails, Does
  <1>2. lookup[t].job \in DOMAIN jobs /\ jobs[lookup[t].job].event \in kept
    BY <1>1 DEF TInv, JobsAreAnswered
  <1>3. PICK from \in {"reserve", "ask", "store", "attach", "ack"},
             to \in {"attach", "ack", "idle"} :
           /\ Does(t, from, to)
           /\ to = "ack" => jobs[lookup[t].job].event \in projected'
    <2>1. CASE StoreAnswer(t)
      <3>1. Does(t, "store", "attach")
        BY <2>1 DEF StoreAnswer
      <3> QED
        BY <3>1
    <2>2. CASE AttachToEvent(t)
      <3>1. Does(t, "attach", "ack") /\ jobs[lookup[t].job].event \in projected'
        BY <2>2 DEF AttachToEvent
      <3> QED
        BY <3>1
    <2>3. CASE LookupFails(t)
      <3>1. Does(t, lookup[t].at, "idle")
        BY <2>3 DEF LookupFails, Does
      <3>2. lookup[t].at \in {"reserve", "ask", "store", "attach", "ack"}
        BY <1>1 DEF TInv, Typed
      <3> QED
        BY <3>1, <3>2
    <2> QED
      BY <2>1, <2>2, <2>3
  <1>4. /\ projected \subseteq projected' /\ projected' \subseteq kept /\ cached' \in BOOLEAN
    BY <1>2 DEF TInv, Typed, StoreAnswer, AttachToEvent, LookupFails
  <1>5. /\ minute \in [counter : 0..Budget, requests : Nat]
        /\ refused' \subseteq DOMAIN jobs
        /\ jobs' \in Seq([event : RawEvents, state : JobStates])
    BY <1>1 DEF TInv, Typed
  <1>6. /\ minute' \in [counter : 0..Budget, requests : Nat]
        /\ minute'.requests + Asking(to) + minute.counter
             <= minute.requests + Asking(from) + minute'.counter
    <2>1. Asking(to) = 0 /\ Asking(from) \in Nat
      BY DEF Asking
    <2> QED
      BY <1>1, <1>5, <2>1, TiAssumption
  <1> QED
    BY <1>1, <1>3, <1>4, <1>5, <1>6, LookupMoves

LEMMA AckJobKeeps ==
    ASSUME TInv, NEW t \in Loops, AckJob(t)
    PROVE  TInv'
  <1> DEFINE Job == [event : RawEvents, state : JobStates]
             i == lookup[t].job
             j == [jobs[i] EXCEPT !.state = IF jobs[i].state = "trimmed" THEN jobs[i].state
                                            ELSE "acked"]
  <1>1. Does(t, "ack", "idle") /\ lookup[t].at = "ack"
    BY DEF AckJob, Does
  <1>2. i \in DOMAIN jobs /\ Answered(i)
    BY <1>1 DEF TInv, JobsAreAnswered
  <1>3. jobs \in Seq(Job) /\ DOMAIN jobs = 1..Len(jobs)
    BY LenProperties DEF TInv, Typed
  <1>4. j \in Job /\ j.event = jobs[i].event
    <2>1. jobs[i] \in Job
      BY <1>2, <1>3, ElementOfSeq
    <2> QED
      BY <2>1 DEF JobStates
  <1>5. /\ jobs' = [jobs EXCEPT ![i] = j]
        /\ UNCHANGED <<raw, kept, canonical, queued, minute, cached, projected, processor, refused>>
    BY DEF AckJob
  <1>6. /\ jobs' \in Seq(Job) /\ Len(jobs') = Len(jobs) /\ DOMAIN jobs' = DOMAIN jobs
        /\ \A k \in DOMAIN jobs :
              /\ jobs'[k].event = jobs[k].event
              /\ jobs'[k].state = "acked" => jobs[k].state = "acked" \/ Answered(k)
    <2> HIDE DEF j, i
    <2>1. /\ jobs' \in Seq(Job) /\ Len(jobs') = Len(jobs)
          /\ \A k \in 1..Len(jobs) : jobs'[k] = IF k = i THEN j ELSE jobs[k]
      BY <1>2, <1>3, <1>4, <1>5, ExceptSeq
    <2>2. DOMAIN jobs' = 1..Len(jobs)
      BY <2>1, LenProperties
    <2> QED
      BY <1>2, <1>3, <1>4, <2>1, <2>2
  <1>7. /\ refused' \subseteq DOMAIN jobs /\ projected' \subseteq kept /\ cached' \in BOOLEAN
        /\ minute \in [counter : 0..Budget, requests : Nat]
    BY <1>5 DEF TInv, Typed
  <1>8. /\ minute' \in [counter : 0..Budget, requests : Nat]
        /\ minute'.requests + Asking("idle") + minute.counter
             <= minute.requests + Asking("ack") + minute'.counter
    <2>1. Asking("idle") = 0 /\ Asking("ack") = 0
      BY DEF Asking
    <2> QED
      BY <1>5, <1>7, <2>1, TiAssumption
  <1> QED
    BY <1>1, <1>5, <1>6, <1>7, <1>8, LookupMoves

-----------------------------------------------------------------------------
(* The environment. *)

LEMMA ClockKeeps ==
    ASSUME TInv, KeyExpires \/ NextMinute \/ AnswerExpires
    PROVE  TInv'
  <1>1. CASE KeyExpires
    <2>1. Typed' /\ EventsAreKept' /\ JobsAreAnswered' /\ RequestsAreCounted'
      BY <1>1 DEF KeyExpires, TInv, Typed, EventsAreKept, JobsAreAnswered, Answered,
         RequestsAreCounted
    <2>2. Len(jobs) \in Nat
      BY LenProperties DEF TInv, Typed
    <2>3. KeysBoundJobs'
      <3> DEFINE n == Len(jobs)
                 c == Publishing(processor["consume"].at)
                 r == Publishing(processor["recover"].at)
      <3>1. n + c + r < MaxJobs /\ UNCHANGED <<jobs, processor>> /\ Free' = 1
        BY <1>1 DEF KeyExpires, Publishing, Free
      <3>2. c \in Nat /\ r \in Nat /\ n \in Nat
        BY <2>2 DEF Publishing
      <3>3. n + c + r + 1 <= MaxJobs
        <4> HIDE DEF n, c, r
        <4> QED
          BY <3>1, <3>2, TiAssumption
      <3> QED
        BY <3>1, <3>3 DEF KeysBoundJobs
    <2> QED
      BY <2>1, <2>3 DEF TInv
  <1>2. CASE NextMinute
    <2>1. minute' = [counter |-> 0, requests |-> 0]
      BY <1>2 DEF NextMinute
    <2>2. minute' \in [counter : 0..Budget, requests : Nat]
      BY <2>1, TiAssumption
    <2>3. Typed' /\ EventsAreKept' /\ JobsAreAnswered' /\ KeysBoundJobs'
      BY <1>2, <2>2 DEF NextMinute, TInv, Typed, EventsAreKept, JobsAreAnswered, Answered,
         KeysBoundJobs, Free
    <2>4. RequestsAreCounted'
      BY <1>2, <2>1 DEF NextMinute, RequestsAreCounted, Asking
    <2> QED
      BY <2>3, <2>4 DEF TInv
  <1>3. CASE AnswerExpires
    BY <1>3 DEF AnswerExpires, TInv, Typed, EventsAreKept, JobsAreAnswered, Answered,
       KeysBoundJobs, Free, RequestsAreCounted
  <1> QED
    BY <1>1, <1>2, <1>3

LEMMA TiStepKeeps ==
    ASSUME TInv, [TiNext]_tiVars
    PROVE  TInv'
  <1>1. ASSUME NEW e \in RawEvents, Collect(e)
        PROVE  TInv'
    BY <1>1, CollectKeeps
  <1>2. ASSUME NEW p \in Loops, Processing(p)
        PROVE  TInv'
    BY <1>2, TakeMessageKeeps, UpsertKeeps, DedupKeeps, PublishJobKeeps, PublishFailsKeeps,
       PublishCanonicalKeeps, AckMessageKeeps, ProcessFailsKeeps DEF Processing
  <1>3. ASSUME NEW t \in Loops, LookingUp(t)
        PROVE  TInv'
    BY <1>3, TakeJobKeeps, ReserveKeeps, AskKeeps, AnswerKeeps, AckJobKeeps DEF LookingUp
  <1>4. CASE KeyExpires \/ NextMinute \/ AnswerExpires
    BY <1>4, ClockKeeps
  <1>5. CASE UNCHANGED tiVars
    BY <1>5, TiStutter
  <1> QED
    BY <1>1, <1>2, <1>3, <1>4, <1>5 DEF TiNext

LEMMA TiInductive == TiSpec => []TInv
  <1>1. TiInit => TInv
    BY TiInitial
  <1>2. TInv /\ [TiNext]_tiVars => TInv'
    BY TiStepKeeps
  <1> QED
    BY <1>1, <1>2, PTL DEF TiSpec

-----------------------------------------------------------------------------
(* Theorems. *)

\* Events, look-ups and the loops' locals stay well typed; there is never a look-up
\* of an event that is not stored, and never more of them than the keys let through.
THEOREM TiTypeCorrect == TiSpec => []TiTypeOK
  <1>1. TInv => TiTypeOK
    <2> SUFFICES ASSUME TInv
                 PROVE  TiTypeOK
      OBVIOUS
    <2>1. /\ jobs \in Seq([event : RawEvents, state : JobStates])
          /\ Len(jobs) \in Nat /\ DOMAIN jobs = 1..Len(jobs)
      BY LenProperties DEF TInv, Typed
    <2>2. Len(jobs) <= MaxJobs
      <3> DEFINE n == Len(jobs)
                 c == Publishing(processor["consume"].at)
                 r == Publishing(processor["recover"].at)
      <3>1. n + c + r + Free <= MaxJobs
        BY DEF TInv, KeysBoundJobs
      <3>2. c \in Nat /\ r \in Nat /\ Free \in Nat /\ n \in Nat
        BY <2>1 DEF Publishing, Free
      <3> HIDE DEF n, c, r
      <3>3. n <= MaxJobs
        BY <3>1, <3>2, TiAssumption
      <3> QED
        BY <3>3 DEF n
    <2>3. ASSUME NEW i \in DOMAIN jobs
          PROVE  jobs[i] \in [event : kept, state : JobStates]
      <3>1. jobs[i] \in [event : RawEvents, state : JobStates]
        BY <2>1, ElementOfSeq
      <3>2. jobs[i].event \in kept
        BY DEF TInv, JobsAreAnswered
      <3> QED
        BY <3>1, <3>2
    <2> QED
      BY <2>2, <2>3 DEF TInv, Typed, TiTypeOK, MessageStates, JobStates
  <1> QED
    BY <1>1, TiInductive, PTL

\* The provider is asked at most Budget + 2 times in a minute, whatever is retried or
\* taken over: every request uses up a reservation, and only one of each loop can be
\* left from the minute before.
THEOREM QuotaHolds == TiSpec => []QuotaIsKept
  <1>1. TInv => QuotaIsKept
    BY TiAssumption DEF TInv, Typed, RequestsAreCounted, Asking, QuotaIsKept
  <1> QED
    BY <1>1, TiInductive, PTL

\* Nothing is acknowledged before it is done, whichever loop does it.
THEOREM NothingIsAckedEarly == TiSpec => []AckedIsDone
  <1>1. TInv => AckedIsDone
    BY DEF TInv, EventsAreKept, JobsAreAnswered, Answered, AckedIsDone
  <1> QED
    BY <1>1, TiInductive, PTL
=============================================================================
