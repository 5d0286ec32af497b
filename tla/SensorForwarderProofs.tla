------------------------ MODULE SensorForwarderProofs ------------------------
(* Theorems about SensorForwarder, for any number of lines, files and ingest *)
(* threads and any limits, with torn appends and early seals.                *)
EXTENDS SensorForwarder, SequenceTheorems, FiniteSetTheorems, TLAPS

Spots == [file : Files, off : Nat]

\* What the argument needs of TypeOK; the quarantine plays no part in it.
Typed ==
    /\ log \in [Files -> Seq(1..Lines)]
    /\ cur \in Files /\ present \in BOOLEAN /\ sealed \subseteq Files
    /\ checkpoint \in Spots
    /\ spool \in Seq(Records) /\ torn \in BOOLEAN /\ shelved \subseteq Records
    /\ poll \in [src : Files, target : Files, batch : Seq(1..Lines),
                next : Spots, sent : 0..BatchSize, thread : Threads]
    /\ todo \in [Threads -> Seq(Records)]
    /\ stored \subseteq 1..Lines

\* A position inside what Cowrie has written to the logs l up to file c.
Inside(l, c, p) == p.file <= c /\ p.off <= Len(l[p.file])

\* The lines of the logs l before position p.
Before(l, p) ==
    (UNION {Range(l[f]) : f \in 1..(p.file - 1)}) \cup {l[p.file][i] : i \in 1..p.off}

\* Cowrie rotates once the files before the last one are sealed.
FeedIsSealed ==
    /\ 1..(cur - 2) \subseteq sealed
    /\ ~present => cur < MaxFiles /\ 1..(cur - 1) \subseteq sealed

Held == Range(spool) \cup stored \cup shelved

Evidence == "torn_append" \in faults /\ Junk \in Range(spool) \cup shelved

\* What a poll has read leads from the checkpoint to the next one, and is in the
\* spool before that is committed.
BatchLeadsOn ==
    /\ Inside(log, cur, checkpoint)
    /\ pc = "open" => present /\ poll.src = checkpoint.file /\ poll.target = cur
    /\ pc \in {"append", "commit"} =>
          /\ Inside(log, cur, poll.next)
          /\ Before(log, poll.next) \subseteq Before(log, checkpoint) \cup Range(poll.batch)
          /\ \/ poll.next.file > checkpoint.file
             \/ poll.next.file = checkpoint.file /\ poll.next.off >= checkpoint.off
    /\ pc = "commit" => Range(poll.batch) \subseteq Held \/ Evidence

\* The records a poll has sent are with its ingest thread, then refused or stored,
\* and in the end stored or shelved.
SentIsAnswered ==
    /\ pc \in {"wait", "shelve", "shorten"} => poll.sent <= Len(spool)
    /\ pc = "wait" => \A i \in 1..poll.sent :
          Refused(spool[i]) \/ spool[i] \in stored \cup Range(todo[poll.thread])
    /\ pc = "shelve" => \A i \in 1..poll.sent : Refused(spool[i]) \/ spool[i] \in stored
    /\ pc = "shorten" => \A i \in 1..poll.sent : spool[i] \in stored \cup shelved

TornIsSeen == torn => "torn_append" \in faults /\ Junk \in Range(spool)

LossIsSeen == Before(log, checkpoint) \subseteq Held \/ Evidence

FInv ==
    /\ Typed /\ FeedIsSealed /\ BatchLeadsOn /\ SentIsAnswered /\ TornIsSeen /\ LossIsSeen
    /\ faults \subseteq Faults

-----------------------------------------------------------------------------
\* The constants are positive numbers.
LEMMA Constants ==
    /\ Lines \in Nat
    /\ MaxFiles \in Nat /\ MaxFiles >= 1
    /\ BatchSize \in Nat /\ BatchSize >= 1
    /\ MaxThreads \in Nat /\ MaxThreads >= 1
  <1>1. /\ Lines \in Nat /\ MaxFiles \in Nat \ {0} /\ BatchSize \in Nat \ {0}
        /\ MaxThreads \in Nat \ {0}
    BY ForwarderAssumption
  <1> QED
    BY <1>1

-----------------------------------------------------------------------------
(* Sequences. *)

LEMMA InRange ==
    ASSUME NEW S, NEW s \in Seq(S)
    PROVE  \A x : x \in Range(s) <=> \E i \in 1..Len(s) : s[i] = x
  BY RangeEquality

LEMMA EmptyRange == Range(<<>>) = {}
  <1>1. <<>> \in Seq({}) /\ Len(<<>>) = 0
    BY EmptySeq
  <1>2. \A x : x \in Range(<<>>) <=> \E i \in 1..0 : <<>>[i] = x
    BY <1>1, InRange
  <1> QED
    BY <1>2

LEMMA SliceFacts ==
    ASSUME NEW S, NEW s \in Seq(S), NEW n \in Nat, n <= Len(s)
    PROVE  /\ Slice(s, n) \in Seq(S)
           /\ Len(Slice(s, n)) \in 0..BatchSize
           /\ n + Len(Slice(s, n)) <= Len(s)
           /\ \A i \in 1..Len(Slice(s, n)) : Slice(s, n)[i] = s[n + i]
  <1> DEFINE last == IF n + BatchSize < Len(s) THEN n + BatchSize ELSE Len(s)
             m == n + 1
  <1>1. /\ Len(s) \in Nat /\ BatchSize \in Nat /\ last \in Nat /\ n <= last /\ last <= Len(s)
        /\ last - n <= BatchSize
    <2>1. Len(s) \in Nat /\ BatchSize \in Nat
      BY LenProperties, Constants
    <2>2. CASE n + BatchSize < Len(s)
      BY <2>1, <2>2
    <2>3. CASE ~(n + BatchSize < Len(s))
      BY <2>1, <2>3
    <2> QED
      BY <2>2, <2>3
  <1>2. Slice(s, n) = SubSeq(s, m, last)
    BY DEF Slice
  <1>3. \A i \in m..last : s[i] \in S
    BY <1>1, ElementOfSeq
  <1>4. m \in Int /\ last \in Int
    BY <1>1
  <1> HIDE DEF last, m
  <1>5. /\ SubSeq(s, m, last) \in Seq(S)
        /\ Len(SubSeq(s, m, last)) = IF m <= last THEN last - m + 1 ELSE 0
        /\ \A i \in 1..(last - m + 1) : SubSeq(s, m, last)[i] = s[m + i - 1]
    BY <1>3, <1>4, SubSeqProperties
  <1> USE DEF m
  <1>6. Len(SubSeq(s, m, last)) = last - n
    BY <1>1, <1>5
  <1>7. \A i \in 1..(last - n) : SubSeq(s, m, last)[i] = s[n + i]
    <2>1. last - m + 1 = last - n
      BY <1>1
    <2>2. \A i \in Nat : m + i - 1 = n + i
      OBVIOUS
    <2> QED
      BY <1>1, <1>5, <2>1, <2>2
  <1> QED
    BY <1>1, <1>2, <1>5, <1>6, <1>7

\* The records from the one after n on.
LEMMA RestFacts ==
    ASSUME NEW S, NEW s \in Seq(S), NEW n \in Nat, n <= Len(s)
    PROVE  /\ SubSeq(s, n + 1, Len(s)) \in Seq(S)
           /\ \A i \in 1..Len(s) : i > n => s[i] \in Range(SubSeq(s, n + 1, Len(s)))
  <1> DEFINE m == n + 1
             last == Len(s)
             rest == SubSeq(s, m, last)
  <1>1. last \in Nat /\ m \in Int /\ last \in Int
    BY LenProperties
  <1>2. \A i \in m..last : s[i] \in S
    BY <1>1, ElementOfSeq
  <1> HIDE DEF last, m
  <1>3. /\ rest \in Seq(S)
        /\ Len(rest) = IF m <= last THEN last - m + 1 ELSE 0
        /\ \A i \in 1..(last - m + 1) : rest[i] = s[m + i - 1]
    BY <1>1, <1>2, SubSeqProperties
  <1>4. ASSUME NEW i \in 1..last, i > n
        PROVE  s[i] \in Range(rest)
    <2>1. /\ i - n \in 1..(last - m + 1) /\ m + (i - n) - 1 = i /\ m <= last
      BY <1>1, <1>4 DEF m
    <2>2. rest[i - n] = s[i] /\ i - n \in 1..Len(rest)
      BY <1>3, <2>1
    <2> QED
      BY <1>3, <2>2, InRange
  <1> QED
    BY <1>3, <1>4 DEF m, last

\* The first n records.
LEMMA FirstFacts ==
    ASSUME NEW S, NEW s \in Seq(S), NEW n \in Nat, n <= Len(s)
    PROVE  /\ SubSeq(s, 1, n) \in Seq(S) /\ Len(SubSeq(s, 1, n)) = n
           /\ \A i \in 1..n : SubSeq(s, 1, n)[i] = s[i]
           /\ Range(SubSeq(s, 1, n)) = {s[i] : i \in 1..n}
  <1>1. Len(s) \in Nat /\ 1 \in Int /\ n \in Int
    BY LenProperties
  <1>2. \A i \in 1..n : s[i] \in S
    BY <1>1, ElementOfSeq
  <1>3. /\ SubSeq(s, 1, n) \in Seq(S)
        /\ Len(SubSeq(s, 1, n)) = IF 1 <= n THEN n - 1 + 1 ELSE 0
        /\ \A i \in 1..(n - 1 + 1) : SubSeq(s, 1, n)[i] = s[1 + i - 1]
    BY <1>1, <1>2, SubSeqProperties
  <1>4. Len(SubSeq(s, 1, n)) = n /\ \A i \in 1..n : SubSeq(s, 1, n)[i] = s[i]
    BY <1>3
  <1>5. \A x : x \in Range(SubSeq(s, 1, n)) <=> \E i \in 1..n : SubSeq(s, 1, n)[i] = x
    <2> DEFINE t == SubSeq(s, 1, n)
    <2>1. t \in Seq(S) /\ Len(t) = n
      BY <1>3, <1>4
    <2> HIDE DEF t
    <2>2. \A x : x \in Range(t) <=> \E i \in 1..n : t[i] = x
      BY <2>1, InRange
    <2> QED
      BY <2>2 DEF t
  <1>6. Range(SubSeq(s, 1, n)) = {s[i] : i \in 1..n}
    BY <1>4, <1>5
  <1> QED
    BY <1>3, <1>4, <1>6

\* Bytes after an unfinished record swallow the first of the records that follow.
LEMMA GluedFacts ==
    ASSUME spool \in Seq(Records), torn \in BOOLEAN, NEW b \in Seq(Records)
    PROVE  /\ Glued(b) \in Seq(Records)
           /\ Range(spool) \subseteq Range(Glued(b))
           /\ ~torn => Range(b) \subseteq Range(Glued(b))
  <1> DEFINE tail == IF torn /\ b # <<>> THEN Tail(b) ELSE b
  <1>1. tail \in Seq(Records)
    BY HeadTailProperties
  <1>2. Glued(b) = spool \o tail
    BY DEF Glued
  <1>3. ~torn => tail = b
    OBVIOUS
  <1> HIDE DEF tail
  <1>4. spool \o tail \in Seq(Records) /\ Range(spool \o tail) = Range(spool) \cup Range(tail)
    BY <1>1, ConcatProperties, RangeConcatenation
  <1> QED
    BY <1>2, <1>3, <1>4

-----------------------------------------------------------------------------
(* Positions. *)

LEMMA FileFacts ==
    ASSUME NEW f \in Files
    PROVE  f \in Nat /\ f >= 1 /\ \A g \in 1..f : g \in Files /\ g \in Nat
  <1>1. MaxFiles \in Nat
    BY Constants
  <1>2. f \in Int /\ 1 <= f /\ f <= MaxFiles
    BY <1>1 DEF Files
  <1>3. ASSUME NEW g \in 1..f
        PROVE  g \in Int /\ 1 <= g /\ g <= MaxFiles
    BY <1>1, <1>2, <1>3
  <1> QED
    BY <1>1, <1>2, <1>3 DEF Files

LEMMA SpotFacts ==
    ASSUME NEW p \in Spots
    PROVE  p.file \in Files /\ p.file \in Nat /\ p.off \in Nat
  <1>1. p.file \in Files /\ p.off \in Nat
    BY DEF Spots
  <1> QED
    BY <1>1, FileFacts

LEMMA InBefore ==
    ASSUME NEW l, NEW p
    PROVE  \A x : x \in Before(l, p) <=>
              \/ \E f \in 1..(p.file - 1) : x \in Range(l[f])
              \/ \E i \in 1..p.off : x = l[p.file][i]
  <1> DEFINE F == 1..(p.file - 1)
             A == {Range(l[f]) : f \in F}
             B == {l[p.file][i] : i \in 1..p.off}
  <1>1. \A x : x \in UNION A <=> \E f \in F : x \in Range(l[f])
    <2> HIDE DEF F
    <2> QED
      BY Zenon
  <1>2. \A x : x \in B <=> \E i \in 1..p.off : x = l[p.file][i]
    OBVIOUS
  <1>3. Before(l, p) = (UNION A) \cup B
    BY DEF Before
  <1>4. \A x : x \in Before(l, p) <=>
           (\E f \in F : x \in Range(l[f])) \/ \E i \in 1..p.off : x = l[p.file][i]
    <2> HIDE DEF A, B, F
    <2> QED
      BY <1>1, <1>2, <1>3, Zenon
  <1> QED
    BY <1>4, Zenon

\* What lies before a position stays as it is when Cowrie writes a line.
LEMMA BeforeStays ==
    ASSUME NEW l \in [Files -> Seq(1..Lines)], NEW c \in Files, NEW x \in 1..Lines,
           NEW p \in Spots, Inside(l, c, p)
    PROVE  LET m == [l EXCEPT ![c] = Append(l[c], x)]
           IN  Before(m, p) = Before(l, p) /\ Inside(m, c, p)
  <1> DEFINE m == [l EXCEPT ![c] = Append(l[c], x)]
  <1>1. /\ p.file \in Files /\ p.off \in Nat /\ p.file \in Nat /\ c \in Nat
        /\ p.file <= c /\ p.off <= Len(l[p.file])
    BY SpotFacts, FileFacts DEF Inside
  <1>2. /\ l[c] \in Seq(1..Lines) /\ m[c] = Append(l[c], x)
        /\ \A f \in Files : f # c => m[f] = l[f]
    OBVIOUS
  <1>3. /\ Len(l[c]) \in Nat /\ Len(m[c]) = Len(l[c]) + 1
        /\ \A i \in 1..Len(l[c]) : m[c][i] = l[c][i]
    BY <1>2, AppendProperties, LenProperties
  <1> HIDE DEF m
  <1>4. \A f \in 1..(p.file - 1) : m[f] = l[f]
    <2>1. \A f \in 1..(p.file - 1) : f \in 1..p.file /\ f # c
      BY <1>1
    <2>2. \A f \in 1..p.file : f \in Files
      BY <1>1, FileFacts
    <2> QED
      BY <1>2, <2>1, <2>2
  <1>5. p.off <= Len(m[p.file]) /\ \A i \in 1..p.off : m[p.file][i] = l[p.file][i]
    <2>1. CASE p.file = c
      <3>1. 1..p.off \subseteq 1..Len(l[c]) /\ p.off <= Len(l[c]) + 1
        BY <1>1, <1>3, <2>1
      <3> QED
        BY <1>3, <2>1, <3>1
    <2>2. CASE p.file # c
      BY <1>1, <1>2, <2>2
    <2> QED
      BY <2>1, <2>2
  <1>7. Before(m, p) = Before(l, p)
    <2>1. \A y : y \in Before(m, p) <=>
             \/ \E f \in 1..(p.file - 1) : y \in Range(m[f])
             \/ \E i \in 1..p.off : y = m[p.file][i]
      BY InBefore
    <2>2. \A y : y \in Before(l, p) <=>
             \/ \E f \in 1..(p.file - 1) : y \in Range(l[f])
             \/ \E i \in 1..p.off : y = l[p.file][i]
      BY InBefore
    <2>3. \A f \in 1..(p.file - 1) : Range(m[f]) = Range(l[f])
      BY <1>4
    <2>4. \A y : y \in Before(m, p) <=> y \in Before(l, p)
      BY <1>5, <2>1, <2>2, <2>3, Zenon
    <2> QED
      BY <2>4
  <1> QED
    BY <1>1, <1>5, <1>7 DEF Inside, m

\* The next position of a poll that reads on in the file of its checkpoint, and of
\* one that hands over to the file after it.
LEMMA ReadOn ==
    ASSUME NEW l \in [Files -> Seq(1..Lines)], NEW c \in Files, NEW p \in Spots,
           Inside(l, c, p), NEW n \in Nat, NEW b \in Seq(1..Lines), Len(b) = n,
           p.off + n <= Len(l[p.file]), \A i \in 1..n : b[i] = l[p.file][p.off + i]
    PROVE  /\ Before(l, [file |-> p.file, off |-> p.off + n]) \subseteq Before(l, p) \cup Range(b)
           /\ p.off + n = Len(l[p.file]) =>
                Before(l, [file |-> p.file + 1, off |-> 0]) \subseteq Before(l, p) \cup Range(b)
  <1> DEFINE f == p.file
             q == [file |-> f, off |-> p.off + n]
             r == [file |-> f + 1, off |-> 0]
  <1>1. /\ f \in Files /\ f \in Nat /\ p.off \in Nat /\ l[f] \in Seq(1..Lines)
    BY SpotFacts
  <1>2. ASSUME NEW i \in 1..(p.off + n)
        PROVE  l[f][i] \in Before(l, p) \cup Range(b)
    <2>1. CASE i <= p.off
      <3>1. i \in 1..p.off
        BY <1>1, <2>1
      <3> QED
        BY <3>1, InBefore
    <2>2. CASE i > p.off
      <3>1. i - p.off \in 1..n /\ p.off + (i - p.off) = i
        BY <1>1, <2>2
      <3>2. b[i - p.off] = l[f][i]
        BY <3>1
      <3> QED
        BY <3>1, <3>2, InRange
    <2> QED
      BY <1>1, <2>1, <2>2
  <1>3. \A g \in 1..(f - 1) : Range(l[g]) \subseteq Before(l, p)
    BY InBefore
  <1>4. Before(l, q) \subseteq Before(l, p) \cup Range(b)
    <2>1. q.file = f /\ q.off = p.off + n
      OBVIOUS
    <2> HIDE DEF q, f
    <2>3. \A x : x \in Before(l, q) <=>
             \/ \E g \in 1..(q.file - 1) : x \in Range(l[g])
             \/ \E i \in 1..q.off : x = l[q.file][i]
      BY InBefore
    <2>2. \A x \in Before(l, q) : \/ \E g \in 1..(f - 1) : x \in Range(l[g])
                                  \/ \E i \in 1..(p.off + n) : x = l[f][i]
      BY <2>1, <2>3, Zenon
    <2> QED
      BY <1>2, <1>3, <2>2 DEF f
  <1>5. ASSUME p.off + n = Len(l[f])
        PROVE  Before(l, r) \subseteq Before(l, p) \cup Range(b)
    <2>1. r.file - 1 = f /\ r.off = 0 /\ 1..0 = {} /\ \A g \in 1..f : g \in 1..(f - 1) \/ g = f
      BY <1>1
    <2>2. Range(l[f]) \subseteq Before(l, p) \cup Range(b)
      BY <1>1, <1>2, <1>5, InRange
    <2> HIDE DEF r, f
    <2>3. \A x \in Before(l, r) : \E g \in 1..f : x \in Range(l[g])
      BY <2>1, InBefore
    <2>4. ASSUME NEW x \in Before(l, r)
          PROVE  x \in Before(l, p) \cup Range(b)
      <3>1. PICK g \in 1..f : x \in Range(l[g])
        BY <2>3
      <3>2. CASE g = f
        BY <2>2, <3>1, <3>2
      <3>3. CASE g \in 1..(f - 1)
        BY <1>3, <3>1, <3>3
      <3> QED
        BY <2>1, <3>2, <3>3
    <2> QED
      BY <2>4
  <1> QED
    BY <1>4, <1>5

-----------------------------------------------------------------------------
(* Steps. *)

LEMMA NoPollTyped ==
    NoPoll \in [src : Files, target : Files, batch : Seq(1..Lines),
                next : Spots, sent : 0..BatchSize, thread : Threads]
  <1>1. 1 \in Files /\ 1 \in Threads /\ 0 \in 0..BatchSize
    BY Constants DEF Files, Threads
  <1>2. <<>> \in Seq(1..Lines)
    BY EmptySeq
  <1> QED
    BY <1>1, <1>2 DEF NoPoll, Start, Spots

-----------------------------------------------------------------------------
(* What the steps make of well-typed records, with every rotation.           *)

LEMMA WrittenIsLine ==
    ASSUME Typed, WriteLine
    PROVE  /\ Cardinality(Written) + 1 \in 1..Lines
           /\ log' \in [Files -> Seq(1..Lines)]
  <1> DEFINE x == Cardinality(Written) + 1
  <1>1. log \in [Files -> Seq(1..Lines)] /\ cur \in Files
    BY DEF Typed
  <1>2. x \in 1..Lines
    <2>1. \A f \in Files : Range(log[f]) \subseteq 1..Lines
      BY <1>1, RangeOfSeq
    <2>2. Written \subseteq 1..Lines
      BY <2>1 DEF Written
    <2>3. IsFiniteSet(1..Lines)
      BY FS_Interval, Constants
    <2>4. Cardinality(Written) \in Nat
      BY <2>2, <2>3, FS_Subset, FS_CardinalityType
    <2>5. Cardinality(Written) < Lines /\ Lines \in Nat
      BY Constants DEF WriteLine
    <2> QED
      BY <2>4, <2>5
  <1>3. log' = [log EXCEPT ![cur] = Append(log[cur], x)]
    BY DEF WriteLine
  <1> HIDE DEF x
  <1>4. Append(log[cur], x) \in Seq(1..Lines)
    BY <1>1, <1>2, AppendProperties
  <1>5. log' \in [Files -> Seq(1..Lines)]
    BY <1>1, <1>3, <1>4
  <1> QED
    BY <1>2, <1>5 DEF x

LEMMA BatchOfRecords ==
    ASSUME Typed
    PROVE  poll.batch \in Seq(Records)
  <1>1. poll.batch \in Seq(1..Lines)
    BY DEF Typed
  <1>2. 1..Lines \subseteq Records
    BY Constants DEF Records
  <1> QED
    BY <1>1, <1>2, SeqMonotonic

\* The spool after a torn append ends with a record that no longer parses.
LEMMA TornSpool ==
    ASSUME Typed, TornAppend
    PROVE  /\ spool' \in Seq(Records)
           /\ (torn => Junk \in Range(spool)) => Junk \in Range(spool')
  <1>1. spool \in Seq(Records) /\ torn \in BOOLEAN /\ Junk \in Records
    BY Constants DEF Typed, Junk, Records
  <1>2. PICK k \in 0..(Len(poll.batch) - 1) :
           spool' = IF torn /\ k = 0 THEN spool
                    ELSE Append(Glued(SubSeq(poll.batch, 1, k)), Junk)
    BY DEF TornAppend
  <1>3. CASE torn /\ k = 0
    BY <1>1, <1>2, <1>3
  <1>4. CASE ~(torn /\ k = 0)
    <2> DEFINE first == SubSeq(poll.batch, 1, k)
    <2>1. poll.batch \in Seq(Records)
      BY BatchOfRecords
    <2>2. Len(poll.batch) \in Nat
      BY <2>1, LenProperties
    <2>3. k \in Nat /\ k <= Len(poll.batch)
      BY <2>2
    <2>4. first \in Seq(Records)
      BY <2>1, <2>3, FirstFacts
    <2> HIDE DEF first
    <2>5. Glued(first) \in Seq(Records)
      BY <1>1, <2>4, GluedFacts
    <2> DEFINE g == Glued(first)
    <2>6. spool' = Append(g, Junk) /\ g \in Seq(Records)
      BY <1>2, <1>4, <2>5 DEF first
    <2> HIDE DEF g
    <2>7. /\ Append(g, Junk) \in Seq(Records) /\ Len(Append(g, Junk)) = Len(g) + 1
          /\ Append(g, Junk)[Len(g) + 1] = Junk /\ Len(g) \in Nat
      BY <1>1, <2>6, AppendProperties, LenProperties
    <2>8. Len(g) + 1 \in 1..Len(Append(g, Junk))
      BY <2>7
    <2> QED
      BY <2>6, <2>7, <2>8, InRange
  <1> QED
    BY <1>3, <1>4

LEMMA RefusedFacts ==
    ASSUME Typed, poll.sent \in Nat, poll.sent <= Len(spool)
    PROVE  /\ RefusedRecords \subseteq Records
           /\ \A i \in 1..poll.sent : Refused(spool[i]) => spool[i] \in RefusedRecords
  <1>1. spool \in Seq(Records)
    BY DEF Typed
  <1>2. /\ SubSeq(spool, 1, poll.sent) \in Seq(Records)
        /\ Range(SubSeq(spool, 1, poll.sent)) = {spool[i] : i \in 1..poll.sent}
    BY <1>1, FirstFacts
  <1>3. Range(SubSeq(spool, 1, poll.sent)) \subseteq Records
    BY <1>2, RangeOfSeq
  <1> QED
    BY <1>2, <1>3 DEF RefusedRecords

LEMMA IngestTyped ==
    ASSUME Typed, NEW h \in Threads, IngestEvent(h)
    PROVE  /\ todo' \in [Threads -> Seq(Records)]
           /\ stored \subseteq stored' /\ stored' \subseteq 1..Lines
           /\ Refused(Head(todo[h])) \/ Head(todo[h]) \in stored'
  <1>1. /\ todo[h] # <<>> /\ todo' = [todo EXCEPT ![h] = Tail(todo[h])]
        /\ stored' = IF Refused(Head(todo[h])) THEN stored ELSE stored \cup {Head(todo[h])}
    BY DEF IngestEvent
  <1>2. /\ todo \in [Threads -> Seq(Records)] /\ todo[h] \in Seq(Records)
        /\ Head(todo[h]) \in Records /\ Tail(todo[h]) \in Seq(Records)
        /\ stored \subseteq 1..Lines
    BY <1>1, HeadTailProperties DEF Typed
  <1>3. ~Refused(Head(todo[h])) => Head(todo[h]) \in 1..Lines
    BY <1>2, Constants DEF Refused, Junk, Records
  <1> QED
    BY <1>1, <1>2, <1>3

LEMMA ForwarderInitial ==
    ASSUME Init
    PROVE  FInv
  <1>1. 1 \in Files /\ Start \in Spots /\ Start.file = 1 /\ Start.off = 0
    BY Constants DEF Files, Start, Spots
  <1>2. /\ <<>> \in Seq(1..Lines) /\ <<>> \in Seq(Records) /\ Len(<<>>) = 0
    BY EmptySeq
  <1>3. Typed
    BY <1>1, <1>2, NoPollTyped DEF Init, Typed
  <1>4. FeedIsSealed
    BY DEF Init, FeedIsSealed
  <1>5. BatchLeadsOn /\ SentIsAnswered /\ TornIsSeen
    BY <1>1, <1>2 DEF Init, BatchLeadsOn, SentIsAnswered, TornIsSeen, Inside
  <1>6. LossIsSeen
    <2>1. checkpoint.file - 1 = 0 /\ checkpoint.off = 0 /\ 1..0 = {}
      BY <1>1 DEF Init
    <2>2. \A x : x \notin Before(log, checkpoint)
      BY <2>1, InBefore
    <2> QED
      BY <2>2 DEF LossIsSeen
  <1> QED
    BY <1>3, <1>4, <1>5, <1>6 DEF FInv, Init

LEMMA ForwarderStutter ==
    ASSUME FInv, UNCHANGED <<vars, faults>>
    PROVE  FInv'
  BY DEF vars, cowrieVars, diskVars, ingestVars, FInv, Typed, FeedIsSealed, BatchLeadsOn,
     SentIsAnswered, TornIsSeen, LossIsSeen, Held, Evidence

\* What Cowrie's steps leave alone.
LEMMA DiskStays ==
    ASSUME UNCHANGED <<diskVars, ingestVars, faults>>
    PROVE  Held' = Held /\ Evidence' = Evidence
  BY DEF diskVars, ingestVars, Held, Evidence

LEMMA WriteKeeps ==
    ASSUME FInv, WriteLine, UNCHANGED faults
    PROVE  FInv'
  <1> DEFINE x == Cardinality(Written) + 1
  <1>1. Typed /\ log \in [Files -> Seq(1..Lines)] /\ cur \in Files
    BY DEF FInv, Typed
  <1>2. x \in 1..Lines
    BY <1>1, WrittenIsLine
  <1>3. /\ log' = [log EXCEPT ![cur] = Append(log[cur], x)]
        /\ UNCHANGED <<cur, present, sealed, pc, poll, checkpoint, spool, torn, shelved,
                       todo, stored>>
        /\ UNCHANGED <<diskVars, ingestVars>>
    BY DEF WriteLine, diskVars, ingestVars
  <1> HIDE DEF x
  <1>4. log' \in [Files -> Seq(1..Lines)]
    BY <1>1, WrittenIsLine
  <1>5. \A p \in Spots : Inside(log, cur, p) =>
           Before(log', p) = Before(log, p) /\ Inside(log', cur, p)
    BY <1>1, <1>2, <1>3, BeforeStays
  <1>6. checkpoint \in Spots /\ poll.next \in Spots
    BY <1>1 DEF Typed
  <1>7. Held' = Held /\ Evidence' = Evidence
    BY <1>3, DiskStays
  <1>8. Typed' /\ FeedIsSealed' /\ TornIsSeen'
    BY <1>3, <1>4 DEF FInv, Typed, FeedIsSealed, TornIsSeen
  <1>9. SentIsAnswered'
    BY <1>3 DEF FInv, SentIsAnswered
  <1>10. BatchLeadsOn'
    BY <1>3, <1>5, <1>6, <1>7 DEF FInv, BatchLeadsOn
  <1>11. LossIsSeen'
    <2>1. Before(log', checkpoint') = Before(log, checkpoint)
      BY <1>3, <1>5, <1>6 DEF FInv, BatchLeadsOn
    <2> QED
      BY <1>7, <2>1 DEF FInv, LossIsSeen
  <1> QED
    BY <1>8, <1>9, <1>10, <1>11 DEF FInv

\* A rotation leads from file to file once the older ones are sealed, and never
\* between the forwarder's look at the feed and its opening.
LEMMA RotationKeeps ==
    ASSUME "rotation_while_opening" \notin Faults, FInv, UNCHANGED faults,
           RenameLog \/ ReopenLog \/ \E f \in Files : SealRotatedFeed(f)
    PROVE  FInv'
  <1>1. /\ UNCHANGED <<log, pc, poll, checkpoint, spool, torn, shelved, todo, stored>>
        /\ UNCHANGED <<diskVars, ingestVars>>
    BY DEF RenameLog, ReopenLog, SealRotatedFeed, diskVars, ingestVars
  <1>2. /\ cur \in Files /\ cur \in Nat /\ cur >= 1 /\ sealed \subseteq Files
        /\ MaxFiles \in Nat
    BY FileFacts, Constants DEF FInv, Typed
  <1>3. /\ cur' \in Files /\ present' \in BOOLEAN /\ sealed' \subseteq Files
        /\ cur <= cur' /\ cur' \in Nat /\ FeedIsSealed'
        /\ pc = "open" => present' = present /\ cur' = cur
    <2>1. CASE RenameLog
      <3>1. /\ UNCHANGED <<cur, sealed>> /\ present' = FALSE
            /\ cur < MaxFiles /\ 1..(cur - 1) \subseteq sealed
            /\ "rotation_while_opening" \in faults \/ pc # "open"
        BY <2>1 DEF RenameLog
      <3>2. "rotation_while_opening" \notin faults
        BY DEF FInv
      <3>3. 1..(cur - 2) \subseteq sealed
        BY DEF FInv, FeedIsSealed
      <3>4. FeedIsSealed'
        BY <3>1, <3>3 DEF FeedIsSealed
      <3>5. pc # "open"
        BY <3>1, <3>2
      <3>6. present' \in BOOLEAN
        BY <3>1
      <3>7. cur' = cur /\ sealed' = sealed
        BY <3>1
      <3> QED
        BY <1>2, <3>4, <3>5, <3>6, <3>7
    <2>2. CASE ReopenLog
      <3>1. ~present /\ cur' = cur + 1 /\ sealed' = sealed /\ present'
        BY <2>2 DEF ReopenLog
      <3>2. cur < MaxFiles /\ 1..(cur - 1) \subseteq sealed /\ pc # "open"
        BY <3>1 DEF FInv, FeedIsSealed, BatchLeadsOn
      <3>3. cur' \in Files
        BY <1>2, <3>1, <3>2 DEF Files
      <3>4. cur' - 2 = cur - 1
        BY <1>2, <3>1
      <3>5. FeedIsSealed'
        BY <3>1, <3>2, <3>4 DEF FeedIsSealed
      <3>6. cur <= cur' /\ cur' \in Nat
        BY <1>2, <3>1
      <3>7. present' \in BOOLEAN
        BY <2>2 DEF ReopenLog
      <3> QED
        BY <1>2, <3>1, <3>2, <3>3, <3>5, <3>6, <3>7
    <2>3. CASE \E f \in Files : SealRotatedFeed(f)
      <3>1. /\ cur' = cur /\ present' = present /\ sealed \subseteq sealed'
            /\ sealed' \subseteq Files
        BY <1>2, <2>3 DEF SealRotatedFeed
      <3> QED
        BY <1>2, <3>1 DEF FInv, Typed, FeedIsSealed
    <2> QED
      BY <2>1, <2>2, <2>3
  <1>4. Held' = Held /\ Evidence' = Evidence
    BY <1>1, DiskStays
  <1>5. \A p \in Spots : Inside(log, cur, p) => Inside(log', cur', p)
    BY <1>1, <1>2, <1>3, SpotFacts DEF Inside
  <1>6. checkpoint \in Spots /\ poll.next \in Spots
    BY DEF FInv, Typed
  <1>7. Typed' /\ TornIsSeen' /\ SentIsAnswered' /\ LossIsSeen'
    BY <1>1, <1>3, <1>4 DEF FInv, Typed, TornIsSeen, SentIsAnswered, LossIsSeen
  <1>8. BatchLeadsOn'
    BY <1>1, <1>3, <1>4, <1>5, <1>6 DEF FInv, BatchLeadsOn
  <1> QED
    BY <1>3, <1>7, <1>8 DEF FInv

\* A poll that ends, or goes on to load its batch, when nothing that was held is lost.
LEMMA EndingKeeps ==
    ASSUME FInv, pc' \in {"idle", "load"}, poll' = NoPoll,
           UNCHANGED <<cowrieVars, checkpoint, faults>>,
           spool' \in Seq(Records), torn' \in BOOLEAN, shelved' \subseteq Records,
           todo' \in [Threads -> Seq(Records)], stored' \subseteq 1..Lines,
           Evidence' \/ (Held \subseteq Held' /\ (Evidence => Evidence')),
           TornIsSeen'
    PROVE  FInv'
  <1>1. UNCHANGED <<log, cur, present, sealed, checkpoint>>
    BY DEF cowrieVars
  <1>2. Typed'
    BY <1>1, NoPollTyped DEF FInv, Typed
  <1>3. FeedIsSealed' /\ BatchLeadsOn' /\ SentIsAnswered'
    BY <1>1 DEF FInv, FeedIsSealed, BatchLeadsOn, SentIsAnswered
  <1>4. LossIsSeen'
    BY <1>1 DEF FInv, LossIsSeen
  <1> QED
    BY <1>2, <1>3, <1>4 DEF FInv

LEMMA QuietEndKeeps ==
    ASSUME FInv, UNCHANGED faults, SpoolIsFull \/ NothingToPost \/ EndPoll
    PROVE  FInv'
  <1>1. /\ pc' = "idle" /\ poll' = NoPoll /\ UNCHANGED <<cowrieVars, checkpoint>>
        /\ UNCHANGED <<diskVars, ingestVars>>
        /\ UNCHANGED <<spool, torn, shelved, todo, stored>>
    BY DEF SpoolIsFull, NothingToPost, EndPoll, PollEnds, diskVars, ingestVars
  <1>2. Held' = Held /\ Evidence' = Evidence
    BY <1>1, DiskStays
  <1>3. TornIsSeen'
    BY <1>1 DEF FInv, TornIsSeen
  <1>4. /\ spool \in Seq(Records) /\ torn \in BOOLEAN /\ shelved \subseteq Records
        /\ todo \in [Threads -> Seq(Records)] /\ stored \subseteq 1..Lines
    BY DEF FInv, Typed
  <1> QED
    BY <1>1, <1>2, <1>3, <1>4, EndingKeeps

LEMMA StatKeeps ==
    ASSUME FInv, UNCHANGED faults, StatLog
    PROVE  FInv'
  <1>1. /\ UNCHANGED <<log, cur, present, sealed, checkpoint, spool, torn, shelved, todo, stored>>
        /\ UNCHANGED <<diskVars, ingestVars>> /\ pc = "idle"
    BY DEF StatLog, cowrieVars, diskVars, ingestVars
  <1>2. Held' = Held /\ Evidence' = Evidence
    BY <1>1, DiskStays
  <1>3. /\ pc' \in {"open", "load"}
        /\ pc' = "open" => /\ present /\ poll'.src = checkpoint.file /\ poll'.target = cur
        /\ poll' \in [src : Files, target : Files, batch : Seq(1..Lines),
                      next : Spots, sent : 0..BatchSize, thread : Threads]
    <2>1. CASE present
      <3>1. pc' = "open" /\ poll' = [NoPoll EXCEPT !.src = checkpoint.file, !.target = cur]
        BY <2>1 DEF StatLog
      <3>2. checkpoint.file \in Files /\ cur \in Files
        BY SpotFacts DEF FInv, Typed
      <3> QED
        BY <2>1, <3>1, <3>2, NoPollTyped
    <2>2. CASE ~present
      <3>1. pc' = "load" /\ poll' = poll
        BY <2>2 DEF StatLog
      <3> QED
        BY <3>1 DEF FInv, Typed
    <2> QED
      BY <2>1, <2>2
  <1>4. Typed' /\ FeedIsSealed' /\ TornIsSeen' /\ LossIsSeen'
    BY <1>1, <1>2, <1>3 DEF FInv, Typed, FeedIsSealed, TornIsSeen, LossIsSeen
  <1>5. BatchLeadsOn' /\ SentIsAnswered'
    BY <1>1, <1>3 DEF FInv, BatchLeadsOn, SentIsAnswered
  <1> QED
    BY <1>4, <1>5 DEF FInv

\* The poll reads on from its checkpoint: a rotated file that can still be read is the
\* one before the current file.
LEMMA ReadKeeps ==
    ASSUME FInv, UNCHANGED faults, ReadLog
    PROVE  FInv'
  <1> DEFINE file == checkpoint.file
             off == checkpoint.off
             b == Slice(log[file], off)
             n == Len(b)
             on == [file |-> file, off |-> off + n]
             over == [file |-> file + 1, off |-> 0]
             next == NextCheckpoint(file, off + n)
  <1>1. /\ UNCHANGED <<log, cur, present, sealed, checkpoint, spool, torn, shelved, todo, stored>>
        /\ UNCHANGED <<diskVars, ingestVars>> /\ pc = "open"
    BY DEF ReadLog, cowrieVars, diskVars, ingestVars
  <1>2. Held' = Held /\ Evidence' = Evidence
    BY <1>1, DiskStays
  <1>3. present /\ poll.src = file /\ poll.target = cur /\ Inside(log, cur, checkpoint)
    BY <1>1 DEF FInv, BatchLeadsOn
  <1>4. /\ checkpoint \in Spots /\ file \in Files /\ file \in Nat /\ file >= 1 /\ off \in Nat
        /\ cur \in Files /\ cur \in Nat /\ log[file] \in Seq(1..Lines)
        /\ file <= cur /\ off <= Len(log[file])
    BY <1>3, SpotFacts, FileFacts DEF FInv, Typed, Inside
  <1>5. /\ b \in Seq(1..Lines) /\ n \in 0..BatchSize /\ n \in Nat /\ off + n <= Len(log[file])
        /\ \A i \in 1..n : b[i] = log[file][off + i]
    <2>1. Len(log[file]) \in Nat
      BY <1>4, LenProperties
    <2>2. /\ Slice(log[file], off) \in Seq(1..Lines)
          /\ Len(Slice(log[file], off)) \in 0..BatchSize
          /\ off + Len(Slice(log[file], off)) <= Len(log[file])
          /\ \A i \in 1..Len(Slice(log[file], off)) :
                Slice(log[file], off)[i] = log[file][off + i]
      BY <1>4, <2>1, SliceFacts
    <2> HIDE DEF b
    <2>3. n \in 0..BatchSize => n \in Nat
      BY Constants
    <2> QED
      BY <2>2, <2>3 DEF b
  <1>6. /\ Before(log, on) \subseteq Before(log, checkpoint) \cup Range(b)
        /\ off + n = Len(log[file]) =>
             Before(log, over) \subseteq Before(log, checkpoint) \cup Range(b)
    <2> HIDE DEF b, n
    <2> QED
      BY <1>3, <1>4, <1>5, ReadOn DEF FInv, Typed, n
  <1>7. Recovering => file + 1 = cur
    <2>1. ASSUME Recovering
          PROVE  file + 1 = cur
      <3>1. file # cur /\ file \notin sealed
        BY <1>3, <2>1 DEF ReadLog, CannotOpen, Recovering
      <3>2. 1..(cur - 2) \subseteq sealed
        BY DEF FInv, FeedIsSealed
      <3>3. file \notin 1..(cur - 2)
        BY <3>1, <3>2
      <3> QED
        BY <1>4, <3>1, <3>3
    <2> QED
      BY <2>1
  <1>8. next = IF Recovering /\ off + n >= Len(log[file]) THEN over ELSE on
    BY <1>3, <1>7 DEF NextCheckpoint
  <1>9. /\ poll' = [NoPoll EXCEPT !.batch = b, !.next = next]
        /\ pc' \in {"append", "commit", "load"}
        /\ pc' = "commit" => b = <<>>
    <2>1. (IF Recovering THEN poll.src ELSE cur) = file
      BY <1>3 DEF Recovering
    <2>2. (IF checkpoint.file = file THEN checkpoint.off ELSE 0) = off
      OBVIOUS
    <2> QED
      BY <2>1, <2>2 DEF ReadLog
  <1>10. /\ next \in Spots /\ Inside(log, cur, next)
         /\ Before(log, next) \subseteq Before(log, checkpoint) \cup Range(b)
         /\ next.file > file \/ (next.file = file /\ next.off >= off)
    <2>1. CASE Recovering /\ off + n >= Len(log[file])
      <3>1. next = over /\ file + 1 = cur
        BY <1>7, <1>8, <2>1
      <3>2. off + n = Len(log[file]) /\ Len(log[cur]) \in Nat
        <4>1. Len(log[file]) \in Nat /\ Len(log[cur]) \in Nat
          BY <1>4, LenProperties DEF FInv, Typed
        <4>2. off + n >= Len(log[file]) /\ off + n <= Len(log[file]) /\ off + n \in Nat
          <5> HIDE DEF n
          <5> QED
            BY <1>4, <1>5, <2>1
        <4> HIDE DEF n, off, file
        <4> QED
          BY <4>1, <4>2
      <3>3. over.file = cur /\ over.off = 0
        BY <3>1
      <3> HIDE DEF over, next, n
      <3>4. over \in Spots
        BY <1>4, <3>1 DEF Spots, over
      <3>5. Before(log, over) \subseteq Before(log, checkpoint) \cup Range(b)
        BY <1>6, <3>2
      <3>6. Inside(log, cur, over)
        <4>1. cur <= cur /\ 0 <= Len(log[cur])
          BY <1>4, <3>2
        <4> QED
          BY <3>3, <4>1 DEF Inside
      <3>7. over.file > file
        BY <1>4, <3>1, <3>3
      <3>8. next = over
        BY <3>1
      <3>9. next \in Spots /\ Inside(log, cur, next) /\ next.file > file
        BY <3>4, <3>6, <3>7, <3>8
      <3>10. Before(log, next) \subseteq Before(log, checkpoint) \cup Range(b)
        BY <3>5, <3>8
      <3> QED
        BY <3>9, <3>10
    <2>2. CASE ~(Recovering /\ off + n >= Len(log[file]))
      <3>1. next = on
        BY <1>8, <2>2
      <3>2. on.file = file /\ on.off = off + n
        OBVIOUS
      <3> HIDE DEF on, next, n
      <3>3. on \in Spots
        BY <1>4, <1>5 DEF Spots, on
      <3> QED
        BY <1>4, <1>5, <1>6, <3>1, <3>2, <3>3 DEF Inside
    <2> QED
      BY <2>1, <2>2
  <1> HIDE DEF b, next
  <1>11. /\ poll' \in [src : Files, target : Files, batch : Seq(1..Lines),
                       next : Spots, sent : 0..BatchSize, thread : Threads]
         /\ poll'.batch = b /\ poll'.next = next
    BY <1>5, <1>9, <1>10, NoPollTyped
  <1>12. Typed' /\ FeedIsSealed' /\ TornIsSeen' /\ LossIsSeen'
    BY <1>1, <1>2, <1>11 DEF FInv, Typed, FeedIsSealed, TornIsSeen, LossIsSeen
  <1>13. BatchLeadsOn'
    <2>1. pc' = "commit" => Range(poll'.batch) \subseteq Held'
      BY <1>9, <1>11, EmptyRange
    <2> QED
      BY <1>1, <1>3, <1>9, <1>10, <1>11, <2>1 DEF BatchLeadsOn
  <1>14. SentIsAnswered'
    BY <1>9 DEF SentIsAnswered
  <1> QED
    BY <1>12, <1>13, <1>14 DEF FInv

LEMMA AppendKeeps ==
    ASSUME FInv, UNCHANGED faults, AppendSpool
    PROVE  FInv'
  <1>1. /\ UNCHANGED <<log, cur, present, sealed, checkpoint, shelved, poll, todo, stored>>
        /\ pc = "append" /\ pc' = "commit" /\ torn' = FALSE
        /\ spool' = Glued(poll.batch)
    BY DEF AppendSpool, cowrieVars, ingestVars
  <1>2. spool \in Seq(Records) /\ torn \in BOOLEAN
    BY DEF FInv, Typed
  <1>3. poll.batch \in Seq(Records)
    BY BatchOfRecords DEF FInv
  <1>4. /\ spool' \in Seq(Records) /\ Range(spool) \subseteq Range(spool')
        /\ ~torn => Range(poll.batch) \subseteq Range(spool')
    BY <1>1, <1>2, <1>3, GluedFacts
  <1>5. Held \subseteq Held' /\ (Evidence => Evidence')
    BY <1>1, <1>4 DEF Held, Evidence
  <1>6. Range(poll'.batch) \subseteq Held' \/ Evidence'
    <2>1. CASE torn
      BY <1>1, <1>4, <2>1 DEF FInv, TornIsSeen, Evidence
    <2>2. CASE ~torn
      BY <1>1, <1>4, <2>2 DEF Held
    <2> QED
      BY <2>1, <2>2
  <1>7. Typed' /\ FeedIsSealed' /\ TornIsSeen'
    BY <1>1, <1>4 DEF FInv, Typed, FeedIsSealed, TornIsSeen
  <1>8. LossIsSeen'
    BY <1>1, <1>5 DEF FInv, LossIsSeen
  <1>9. BatchLeadsOn' /\ SentIsAnswered'
    BY <1>1, <1>6 DEF FInv, BatchLeadsOn, SentIsAnswered
  <1> QED
    BY <1>7, <1>8, <1>9 DEF FInv

\* A torn append leaves an unreadable record behind.
LEMMA TornAppendKeeps ==
    ASSUME FInv, UNCHANGED faults, TornAppend
    PROVE  FInv'
  <1>1. /\ UNCHANGED <<cowrieVars, checkpoint, shelved, todo, stored>>
        /\ pc' = "idle" /\ poll' = NoPoll /\ torn' = TRUE /\ "torn_append" \in faults
    BY DEF TornAppend, PollEnds, cowrieVars, ingestVars
  <1>4. spool' \in Seq(Records) /\ Junk \in Range(spool')
    BY TornSpool DEF FInv, TornIsSeen
  <1>2. Evidence' /\ TornIsSeen'
    BY <1>1, <1>4 DEF Evidence, TornIsSeen
  <1>3. /\ shelved' \subseteq Records /\ stored' \subseteq 1..Lines
        /\ todo' \in [Threads -> Seq(Records)] /\ torn' \in BOOLEAN
    BY <1>1 DEF FInv, Typed
  <1> QED
    BY <1>1, <1>2, <1>3, <1>4, EndingKeeps

\* The checkpoint is committed after the batch is in the spool.
LEMMA CommitKeeps ==
    ASSUME FInv, UNCHANGED faults, CommitCheckpoint
    PROVE  FInv'
  <1>1. /\ UNCHANGED <<log, cur, present, sealed, spool, torn, shelved, todo, stored>>
        /\ pc = "commit" /\ pc' = "load" /\ poll' = NoPoll /\ checkpoint' = poll.next
    BY DEF CommitCheckpoint, cowrieVars, ingestVars
  <1>2. Held' = Held /\ Evidence' = Evidence
    BY <1>1 DEF Held, Evidence
  <1>3. poll.next \in Spots
    BY DEF FInv, Typed
  <1>4. Typed' /\ FeedIsSealed' /\ TornIsSeen'
    BY <1>1, <1>3, NoPollTyped DEF FInv, Typed, FeedIsSealed, TornIsSeen
  <1>5. BatchLeadsOn' /\ SentIsAnswered'
    BY <1>1 DEF FInv, BatchLeadsOn, SentIsAnswered
  <1>6. LossIsSeen'
    <2>1. /\ Before(log, poll.next) \subseteq Before(log, checkpoint) \cup Range(poll.batch)
          /\ Range(poll.batch) \subseteq Held \/ Evidence
          /\ Before(log, checkpoint) \subseteq Held \/ Evidence
      BY <1>1 DEF FInv, BatchLeadsOn, LossIsSeen
    <2> QED
      BY <1>1, <1>2, <2>1 DEF LossIsSeen
  <1> QED
    BY <1>4, <1>5, <1>6 DEF FInv

LEMMA PostKeeps ==
    ASSUME FInv, UNCHANGED faults, PostBatch
    PROVE  FInv'
  <1> DEFINE b == Slice(spool, 0)
  <1>1. PICK h \in Threads :
           /\ todo' = [todo EXCEPT ![h] = b]
           /\ poll' = [NoPoll EXCEPT !.sent = Len(b), !.thread = h]
    BY DEF PostBatch
  <1>2. /\ UNCHANGED <<log, cur, present, sealed, checkpoint, spool, torn, shelved, stored>>
        /\ pc' = "wait"
    BY DEF PostBatch, cowrieVars, diskVars
  <1>3. spool \in Seq(Records) /\ Len(spool) \in Nat /\ todo \in [Threads -> Seq(Records)]
    BY LenProperties DEF FInv, Typed
  <1>4. /\ b \in Seq(Records) /\ Len(b) \in 0..BatchSize /\ 0 + Len(b) <= Len(spool)
        /\ \A i \in 1..Len(b) : b[i] = spool[0 + i]
    BY <1>3, SliceFacts
  <1> HIDE DEF b
  <1>5. /\ poll' \in [src : Files, target : Files, batch : Seq(1..Lines),
                      next : Spots, sent : 0..BatchSize, thread : Threads]
        /\ poll'.sent = Len(b) /\ poll'.thread = h
    BY <1>1, <1>4, NoPollTyped
  <1>6. todo' \in [Threads -> Seq(Records)] /\ todo'[h] = b
    BY <1>1, <1>3, <1>4
  <1>7. Held' = Held /\ Evidence' = Evidence
    BY <1>2 DEF Held, Evidence
  <1>8. Typed' /\ FeedIsSealed' /\ TornIsSeen' /\ LossIsSeen' /\ BatchLeadsOn'
    BY <1>2, <1>5, <1>6, <1>7 DEF FInv, Typed, FeedIsSealed, TornIsSeen, LossIsSeen, BatchLeadsOn
  <1>9. SentIsAnswered'
    <2>1. Len(b) \in Nat
      BY <1>4, Constants
    <2>2. Len(b) <= Len(spool)
      BY <1>3, <1>4, <2>1
    <2>3. \A i \in 1..Len(b) : spool[i] \in Range(b)
      <3>1. ASSUME NEW i \in 1..Len(b)
            PROVE  spool[i] \in Range(b)
        <4>1. 0 + i = i
          BY <2>1
        <4>2. b[i] = spool[i]
          BY <1>4, <4>1
        <4> QED
          BY <1>4, <4>2, InRange
      <3> QED
        BY <3>1
    <2> QED
      BY <1>2, <1>5, <1>6, <2>2, <2>3 DEF SentIsAnswered
  <1> QED
    BY <1>8, <1>9 DEF FInv

LEMMA AckKeeps ==
    ASSUME FInv, UNCHANGED faults, ReceiveAck
    PROVE  FInv'
  <1>1. /\ UNCHANGED <<log, cur, present, sealed, checkpoint, spool, torn, shelved, poll,
                       todo, stored>>
        /\ pc = "wait" /\ todo[poll.thread] = <<>>
        /\ pc' = IF RefusedRecords # {} THEN "shelve" ELSE "shorten"
    BY DEF ReceiveAck, cowrieVars, diskVars, ingestVars
  <1>2. Held' = Held /\ Evidence' = Evidence
    BY <1>1 DEF Held, Evidence
  <1>3. /\ spool \in Seq(Records) /\ poll.sent \in Nat /\ poll.sent <= Len(spool)
        /\ \A i \in 1..poll.sent : Refused(spool[i]) \/ spool[i] \in stored
    BY <1>1, EmptyRange, Constants DEF FInv, Typed, SentIsAnswered
  <1>4. RefusedRecords = {} => \A i \in 1..poll.sent : ~Refused(spool[i])
    BY <1>3, FirstFacts DEF RefusedRecords
  <1>5. Typed' /\ FeedIsSealed' /\ TornIsSeen' /\ LossIsSeen'
    BY <1>1, <1>2 DEF FInv, Typed, FeedIsSealed, TornIsSeen, LossIsSeen
  <1>6. BatchLeadsOn'
    BY <1>1, <1>2 DEF FInv, BatchLeadsOn
  <1>7. SentIsAnswered'
    BY <1>1, <1>3, <1>4 DEF SentIsAnswered
  <1> QED
    BY <1>5, <1>6, <1>7 DEF FInv

LEMMA ShelveKeeps ==
    ASSUME FInv, UNCHANGED faults, ShelveRejected
    PROVE  FInv'
  <1>1. /\ UNCHANGED <<log, cur, present, sealed, checkpoint, spool, torn, poll, todo, stored>>
        /\ pc = "shelve" /\ pc' = "shorten"
        /\ shelved' = shelved \cup RefusedRecords
    BY DEF ShelveRejected, cowrieVars, ingestVars
  <1>2. /\ spool \in Seq(Records) /\ poll.sent \in Nat /\ poll.sent <= Len(spool)
        /\ \A i \in 1..poll.sent : Refused(spool[i]) \/ spool[i] \in stored
    BY <1>1, Constants DEF FInv, Typed, SentIsAnswered
  <1>3. /\ RefusedRecords \subseteq Records
        /\ \A i \in 1..poll.sent : Refused(spool[i]) => spool[i] \in RefusedRecords
    BY <1>2, RefusedFacts DEF FInv
  <1>4. Held \subseteq Held' /\ (Evidence => Evidence')
    BY <1>1 DEF Held, Evidence
  <1>5. Typed' /\ FeedIsSealed' /\ TornIsSeen' /\ LossIsSeen'
    BY <1>1, <1>3, <1>4 DEF FInv, Typed, FeedIsSealed, TornIsSeen, LossIsSeen
  <1>6. BatchLeadsOn' /\ SentIsAnswered'
    BY <1>1, <1>2, <1>3 DEF FInv, BatchLeadsOn, SentIsAnswered
  <1> QED
    BY <1>5, <1>6 DEF FInv

\* The spool is shortened by what was stored or shelved.
LEMMA ShortenKeeps ==
    ASSUME FInv, UNCHANGED faults, ShortenSpool
    PROVE  FInv'
  <1> DEFINE rest == SubSeq(spool, poll.sent + 1, Len(spool))
  <1>1. /\ UNCHANGED <<cowrieVars, checkpoint, shelved, todo, stored>>
        /\ pc = "shorten" /\ pc' = "idle" /\ poll' = NoPoll /\ torn' = FALSE /\ spool' = rest
    BY DEF ShortenSpool, PollEnds, cowrieVars, ingestVars
  <1>2. /\ spool \in Seq(Records) /\ Len(spool) \in Nat /\ poll.sent \in Nat
        /\ poll.sent <= Len(spool)
        /\ \A i \in 1..poll.sent : spool[i] \in stored \cup shelved
    BY <1>1, LenProperties, Constants DEF FInv, Typed, SentIsAnswered
  <1>3. /\ rest \in Seq(Records)
        /\ \A i \in 1..Len(spool) : i > poll.sent => spool[i] \in Range(rest)
    BY <1>2, RestFacts
  <1> HIDE DEF rest
  <1>4. Range(spool) \subseteq Range(rest) \cup stored \cup shelved
    <2>1. ASSUME NEW i \in 1..Len(spool)
          PROVE  spool[i] \in Range(rest) \cup stored \cup shelved
      <3>1. CASE i > poll.sent
        BY <1>3, <3>1
      <3>2. CASE ~(i > poll.sent)
        <4>1. i \in 1..poll.sent
          BY <1>2, <3>2
        <4> QED
          BY <1>2, <4>1
      <3> QED
        BY <3>1, <3>2
    <2> QED
      BY <1>2, <2>1, InRange
  <1>5. stored \subseteq 1..Lines /\ shelved \subseteq Records /\ Junk \notin stored
        /\ todo \in [Threads -> Seq(Records)]
    BY Constants DEF FInv, Typed, Junk
  <1>6. Held \subseteq Held' /\ (Evidence => Evidence')
    BY <1>1, <1>4, <1>5 DEF Held, Evidence
  <1>7. TornIsSeen'
    BY <1>1 DEF TornIsSeen
  <1> QED
    BY <1>1, <1>3, <1>5, <1>6, <1>7, EndingKeeps

\* A thread of the ingest API handles one record, for its poll or for one given up.
LEMMA IngestKeeps ==
    ASSUME FInv, UNCHANGED faults, NEW h \in Threads, IngestEvent(h)
    PROVE  FInv'
  <1>1. /\ UNCHANGED <<log, cur, present, sealed, checkpoint, spool, torn, shelved, pc, poll>>
        /\ todo[h] # <<>> /\ todo' = [todo EXCEPT ![h] = Tail(todo[h])]
        /\ stored' = IF Refused(Head(todo[h])) THEN stored ELSE stored \cup {Head(todo[h])}
    BY DEF IngestEvent, cowrieVars, diskVars
  <1>2. todo \in [Threads -> Seq(Records)] /\ todo[h] \in Seq(Records) /\ Head(todo[h]) \in Records
        /\ Tail(todo[h]) \in Seq(Records) /\ stored \subseteq 1..Lines
    BY <1>1, HeadTailProperties DEF FInv, Typed
  <1>3. Range(todo[h]) \subseteq {Head(todo[h])} \cup Range(Tail(todo[h]))
    <2> DEFINE s == todo[h]
    <2>1. s \in Seq(Records) /\ s # <<>> /\ Len(s) \in Nat /\ Len(Tail(s)) = Len(s) - 1
          /\ \A i \in 1..Len(Tail(s)) : Tail(s)[i] = s[i + 1]
          /\ Tail(s) \in Seq(Records) /\ Head(s) = s[1]
      BY <1>1, <1>2, HeadTailProperties, LenProperties
    <2> HIDE DEF s
    <2>2. ASSUME NEW i \in 1..Len(s)
          PROVE  s[i] \in {Head(s)} \cup Range(Tail(s))
      <3>1. CASE i = 1
        BY <2>1, <3>1
      <3>2. CASE i # 1
        <4>1. i - 1 \in 1..Len(Tail(s)) /\ (i - 1) + 1 = i
          BY <2>1, <3>2
        <4>2. Tail(s)[i - 1] = s[i]
          BY <2>1, <4>1
        <4> QED
          BY <2>1, <4>1, <4>2, InRange
      <3> QED
        BY <3>1, <3>2
    <2>3. Range(s) \subseteq {Head(s)} \cup Range(Tail(s))
      BY <2>1, <2>2, InRange
    <2> QED
      BY <2>3 DEF s
  <1>4. /\ todo' \in [Threads -> Seq(Records)] /\ todo'[h] = Tail(todo[h])
        /\ \A g \in Threads : g # h => todo'[g] = todo[g]
    BY <1>1, <1>2
  <1>5. /\ stored \subseteq stored' /\ stored' \subseteq 1..Lines
        /\ Refused(Head(todo[h])) \/ Head(todo[h]) \in stored'
    BY <1>1, IngestTyped DEF FInv
  <1>6. Held \subseteq Held' /\ Evidence' = Evidence
    BY <1>1, <1>5 DEF Held, Evidence
  <1>7. Typed' /\ FeedIsSealed' /\ TornIsSeen' /\ LossIsSeen'
    BY <1>1, <1>4, <1>5, <1>6 DEF FInv, Typed, FeedIsSealed, TornIsSeen, LossIsSeen
  <1>8. BatchLeadsOn'
    BY <1>1, <1>6 DEF FInv, BatchLeadsOn
  <1>9. SentIsAnswered'
    <2>1. ASSUME pc = "wait", NEW i \in 1..poll.sent
          PROVE  Refused(spool[i]) \/ spool[i] \in stored' \cup Range(todo'[poll.thread])
      <3>1. poll.thread \in Threads
        BY DEF FInv, Typed
      <3>2. Refused(spool[i]) \/ spool[i] \in stored \cup Range(todo[poll.thread])
        BY <2>1 DEF FInv, SentIsAnswered
      <3>3. CASE poll.thread = h
        BY <1>3, <1>4, <1>5, <3>2, <3>3
      <3>4. CASE poll.thread # h
        BY <1>4, <1>5, <3>1, <3>2, <3>4
      <3> QED
        BY <3>3, <3>4
    <2> QED
      BY <1>1, <1>5, <2>1 DEF FInv, SentIsAnswered, Refused
  <1> QED
    BY <1>7, <1>8, <1>9 DEF FInv

LEMMA AbortKeeps ==
    ASSUME FInv, UNCHANGED faults, NEW h \in Threads, IngestAborts(h)
    PROVE  FInv'
  <1>1. /\ UNCHANGED <<cowrieVars, diskVars, checkpoint, spool, torn, shelved, stored>>
        /\ UNCHANGED <<log, cur, present, sealed>>
        /\ todo' = [todo EXCEPT ![h] = <<>>]
    BY DEF IngestAborts, cowrieVars, diskVars
  <1>2. /\ todo' \in [Threads -> Seq(Records)]
        /\ \A g \in Threads : g # h => todo'[g] = todo[g]
    <2>1. <<>> \in Seq(Records)
      BY EmptySeq
    <2> QED
      BY <1>1, <2>1 DEF FInv, Typed
  <1>3. Held' = Held /\ Evidence' = Evidence
    BY <1>1 DEF Held, Evidence
  <1>4. TornIsSeen'
    BY <1>1 DEF FInv, TornIsSeen
  <1>5. CASE pc = "wait" /\ poll.thread = h
    <2>1. pc' = "idle" /\ poll' = NoPoll
      BY <1>5 DEF IngestAborts, PollEnds
    <2>2. spool \in Seq(Records) /\ torn \in BOOLEAN /\ shelved \subseteq Records
          /\ stored \subseteq 1..Lines
      BY DEF FInv, Typed
    <2> QED
      BY <1>1, <1>2, <1>3, <1>4, <2>1, <2>2, EndingKeeps
  <1>6. CASE ~(pc = "wait" /\ poll.thread = h)
    <2>1. UNCHANGED <<pc, poll>>
      BY <1>6 DEF IngestAborts
    <2>2. Typed' /\ FeedIsSealed' /\ LossIsSeen'
      BY <1>1, <1>2, <1>3, <2>1 DEF FInv, Typed, FeedIsSealed, LossIsSeen
    <2>3. BatchLeadsOn'
      BY <1>1, <1>3, <2>1 DEF FInv, BatchLeadsOn
    <2>4. SentIsAnswered'
      <3>1. pc = "wait" => poll.thread \in Threads /\ todo'[poll.thread] = todo[poll.thread]
        BY <1>2, <1>6 DEF FInv, Typed
      <3> QED
        BY <1>1, <2>1, <3>1 DEF FInv, SentIsAnswered
    <2> QED
      BY <1>4, <2>2, <2>3, <2>4 DEF FInv
  <1> QED
    BY <1>5, <1>6

LEMMA ForwarderStepKeeps ==
    ASSUME "rotation_while_opening" \notin Faults, FInv, [Next]_<<vars, faults>>
    PROVE  FInv'
  <1>1. CASE UNCHANGED <<vars, faults>>
    BY <1>1, ForwarderStutter
  <1>2. CASE Next
    <2>1. UNCHANGED faults
      BY <1>2 DEF Next
    <2>2. CASE Cowrie
      BY <2>1, <2>2, WriteKeeps, RotationKeeps DEF Cowrie
    <2>3. CASE Forwarder
      BY <2>1, <2>3, StatKeeps, ReadKeeps, AppendKeeps, QuietEndKeeps, TornAppendKeeps,
         CommitKeeps, PostKeeps, AckKeeps, ShelveKeeps, ShortenKeeps DEF Forwarder
    <2>4. CASE Ingest
      BY <2>1, <2>4, IngestKeeps, AbortKeeps DEF Ingest
    <2> QED
      BY <1>2, <2>2, <2>3, <2>4 DEF Next
  <1> QED
    BY <1>1, <1>2

LEMMA ForwarderInductive ==
    ASSUME "rotation_while_opening" \notin Faults
    PROVE  Spec => []FInv
  <1>1. Init => FInv
    BY ForwarderInitial
  <1>2. FInv /\ [Next]_<<vars, faults>> => FInv'
    BY ForwarderStepKeeps
  <1> QED
    BY <1>1, <1>2, PTL DEF Spec

-----------------------------------------------------------------------------
(* Theorems. *)

\* Unless Cowrie rotates between the forwarder's stat and its open, no line is lost
\* without evidence: what the checkpoint leaves behind is in the spool, stored or
\* shelved, or an unreadable record shows a torn append.
THEOREM NoLineIsLost ==
    ASSUME "rotation_while_opening" \notin Faults
    PROVE  Spec => []NothingIsLost
  <1>1. FInv => NothingIsLost
    <2>1. Passed = Before(log, checkpoint)
      BY DEF Passed, Before
    <2> QED
      BY <2>1 DEF FInv, LossIsSeen, NothingIsLost, Kept, Held, Evidence
  <1> QED
    BY <1>1, ForwarderInductive, PTL

LEMMA StepAdvances ==
    ASSUME FInv, FInv', [Next]_<<vars, faults>>
    PROVE  [Advances]_vars
  <1>1. checkpoint \in Spots /\ checkpoint.off \in Nat /\ checkpoint.file \in Nat
    BY SpotFacts DEF FInv, Typed
  <1>2. checkpoint'.off <= Len(log'[checkpoint'.file])
    BY DEF FInv, BatchLeadsOn, Inside
  <1>3. CASE UNCHANGED checkpoint
    BY <1>1, <1>2, <1>3 DEF Advances
  <1>4. CASE CommitCheckpoint
    <2>1. checkpoint' = poll.next /\ pc = "commit"
      BY <1>4 DEF CommitCheckpoint
    <2>2. \/ poll.next.file > checkpoint.file
          \/ poll.next.file = checkpoint.file /\ poll.next.off >= checkpoint.off
      BY <2>1 DEF FInv, BatchLeadsOn
    <2> QED
      BY <1>2, <2>1, <2>2 DEF Advances
  <1>5. UNCHANGED checkpoint \/ CommitCheckpoint
    <2>1. UNCHANGED vars => UNCHANGED checkpoint
      BY DEF vars, diskVars
    <2>2. Cowrie \/ Ingest => UNCHANGED checkpoint
      BY DEF Cowrie, WriteLine, RenameLog, ReopenLog, SealRotatedFeed, Ingest, IngestEvent,
         IngestAborts, diskVars
    <2>3. Forwarder => UNCHANGED checkpoint \/ CommitCheckpoint
      BY DEF Forwarder, StatLog, ReadLog, AppendSpool, SpoolIsFull, TornAppend, PostBatch,
         NothingToPost, ReceiveAck, ShelveRejected, ShortenSpool, EndPoll, diskVars
    <2> QED
      BY <2>1, <2>2, <2>3 DEF Next
  <1> QED
    BY <1>3, <1>4, <1>5

\* Under the same condition the checkpoint only moves forward, from file to file and
\* never past what is written.
THEOREM CheckpointMovesOn ==
    ASSUME "rotation_while_opening" \notin Faults
    PROVE  Spec => CheckpointAdvances
  <1>1. FInv /\ FInv' /\ [Next]_<<vars, faults>> => [Advances]_vars
    BY StepAdvances
  <1> QED
    BY <1>1, ForwarderInductive, PTL DEF Spec, CheckpointAdvances
-----------------------------------------------------------------------------
(* The order of arrival: while no append is torn, whatever is on its way     *)
(* continues what has arrived.                                               *)

\* The lines the event store takes, and those of them before line r.
Wanted == (1..Lines) \ Rejected
Behind(r) == {q \in Wanted : q < r}

\* Record for record, s continues the lines that are done.
Continues(s, done) ==
    \A i \in 1..Len(s) : Behind(s[i]) \subseteq done \cup {s[j] : j \in 1..(i - 1)}

\* Cowrie numbers the lines from file to file.
FeedIsNumbered ==
    /\ \E n \in 0..Lines : Written = 1..n
    /\ \A f \in Files : f > cur => log[f] = <<>>
    /\ \A f, g \in Files : \A i \in 1..Len(log[f]), j \in 1..Len(log[g]) :
          f < g \/ (f = g /\ i < j) => log[f][i] < log[g][j]

ShelvedIsRefused == shelved \cap Wanted = {}

\* The store has no gap, and neither the spool nor any thread of the ingest API,
\* abandoned or not, can open one.
NoGap ==
    /\ \A q \in stored : q \in Wanted /\ Behind(q) \subseteq stored
    /\ Continues(spool, stored)
    /\ \A h \in Threads : Continues(todo[h], stored)
    /\ pc = "append" => Continues(poll.batch, Before(log, checkpoint))

OInv == /\ FInv
        /\ FeedIsNumbered
        /\ ShelvedIsRefused
        /\ "torn_append" \notin faults => NoGap

-----------------------------------------------------------------------------
(* Sequences that continue what is done. *)

LEMMA EmptyContinues ==
    ASSUME NEW done
    PROVE  Continues(<<>>, done)
  <1>1. Len(<<>>) = 0 /\ 1..0 = {}
    BY EmptySeq
  <1> QED
    BY <1>1 DEF Continues

\* More may be done meanwhile; records nobody wants do not count.
LEMMA ContinuesMore ==
    ASSUME NEW s, NEW done, NEW more, done \cap Wanted \subseteq more,
           Continues(s, done)
    PROVE  Continues(s, more)
  BY DEF Continues, Behind

LEMMA ContinuesFirst ==
    ASSUME NEW S, NEW s \in Seq(S), NEW done, Continues(s, done),
           NEW t \in Seq(S), Len(t) <= Len(s), \A i \in 1..Len(t) : t[i] = s[i]
    PROVE  Continues(t, done)
  <1>1. Len(s) \in Nat /\ Len(t) \in Nat
    BY LenProperties
  <1> SUFFICES ASSUME NEW i \in 1..Len(t)
               PROVE  Behind(t[i]) \subseteq done \cup {t[j] : j \in 1..(i - 1)}
    BY DEF Continues
  <1>2. i \in 1..Len(s) /\ \A j \in 1..(i - 1) : j \in 1..Len(t)
    BY <1>1
  <1>3. {t[j] : j \in 1..(i - 1)} = {s[j] : j \in 1..(i - 1)}
    BY <1>2
  <1> QED
    BY <1>2, <1>3 DEF Continues

\* The rest continues what is done once the first n records are.
LEMMA ContinuesRest ==
    ASSUME NEW S, NEW s \in Seq(S), NEW done, Continues(s, done),
           NEW n \in Nat, n <= Len(s), NEW t \in Seq(S), Len(t) = Len(s) - n,
           \A i \in 1..Len(t) : t[i] = s[n + i],
           \A i \in 1..n : s[i] \in Wanted => s[i] \in done
    PROVE  Continues(t, done)
  <1>1. Len(s) \in Nat /\ Len(t) \in Nat
    BY LenProperties
  <1> SUFFICES ASSUME NEW i \in 1..Len(t), NEW q \in Behind(t[i]), q \notin done
               PROVE  q \in {t[j] : j \in 1..(i - 1)}
    BY DEF Continues
  <1>2. n + i \in 1..Len(s) /\ t[i] = s[n + i]
    BY <1>1
  <1>8. Behind(s[n + i]) \subseteq done \cup {s[j] : j \in 1..(n + i - 1)}
    BY <1>2 DEF Continues
  <1>3. PICK k \in 1..(n + i - 1) : q = s[k]
    BY <1>2, <1>8
  <1>4. q \in Wanted
    BY DEF Behind
  <1>5. k \notin 1..n
    BY <1>3, <1>4
  <1>6. k - n \in 1..(i - 1) /\ k - n \in 1..Len(t) /\ n + (k - n) = k
    BY <1>1, <1>3, <1>5
  <1>7. t[k - n] = q
    BY <1>3, <1>6
  <1> QED
    BY <1>6, <1>7

LEMMA ContinuesOn ==
    ASSUME NEW S, NEW s \in Seq(S), NEW b \in Seq(S), NEW done,
           Continues(s, done), Continues(b, done \cup Range(s))
    PROVE  Continues(s \o b, done)
  <1> DEFINE t == s \o b
             m == Len(s)
  <1>1. /\ m \in Nat /\ Len(b) \in Nat /\ Len(t) = m + Len(b)
        /\ \A i \in 1..m : t[i] = s[i]
        /\ \A i \in 1..Len(b) : t[m + i] = b[i]
    BY LenProperties, ConcatProperties
  <1>2. \A x : x \in Range(s) <=> \E i \in 1..m : s[i] = x
    BY InRange
  <1> HIDE DEF t, m
  <1> SUFFICES ASSUME NEW i \in 1..Len(t), NEW q \in Behind(t[i]), q \notin done
               PROVE  \E j \in 1..(i - 1) : t[j] = q
    BY DEF Continues, t
  <1>3. CASE i \in 1..m
    <2>1. \E j \in 1..(i - 1) : s[j] = q
      BY <1>1, <1>3 DEF Continues, m
    <2> QED
      BY <1>1, <1>3, <2>1
  <1>4. CASE i \notin 1..m
    <2>1. i - m \in 1..Len(b) /\ m + (i - m) = i
      BY <1>1, <1>4
    <2>2. t[i] = b[i - m]
      BY <1>1, <2>1
    <2>3. q \in Range(s) \/ \E j \in 1..(i - m - 1) : b[j] = q
      BY <2>1, <2>2 DEF Continues
    <2>4. CASE q \in Range(s)
      <3>1. PICK j \in 1..m : s[j] = q
        BY <1>2, <2>4
      <3>2. j \in 1..(i - 1) /\ t[j] = q
        BY <1>1, <1>4, <3>1
      <3> QED
        BY <3>2
    <2>5. CASE \E j \in 1..(i - m - 1) : b[j] = q
      <3>1. PICK j \in 1..(i - m - 1) : b[j] = q
        BY <2>5
      <3>2. m + j \in 1..(i - 1) /\ j \in 1..Len(b)
        BY <1>1, <2>1, <3>1
      <3>3. t[m + j] = q
        BY <1>1, <3>1, <3>2
      <3> QED
        BY <3>2, <3>3
    <2> QED
      BY <2>3, <2>4, <2>5
  <1> QED
    BY <1>3, <1>4

LEMMA RestIs ==
    ASSUME NEW S, NEW s \in Seq(S), NEW n \in Nat, n <= Len(s)
    PROVE  LET rest == SubSeq(s, n + 1, Len(s))
           IN  /\ rest \in Seq(S) /\ Len(rest) = Len(s) - n
               /\ \A i \in 1..Len(rest) : rest[i] = s[n + i]
  <1> DEFINE m == n + 1
             last == Len(s)
             rest == SubSeq(s, m, last)
  <1>1. last \in Nat /\ m \in Int /\ last \in Int /\ m = n + 1 /\ n <= last
    BY LenProperties
  <1>2. \A i \in m..last : s[i] \in S
    BY <1>1, ElementOfSeq
  <1> HIDE DEF last, m
  <1>3. /\ rest \in Seq(S)
        /\ Len(rest) = IF m <= last THEN last - m + 1 ELSE 0
        /\ \A i \in 1..(last - m + 1) : rest[i] = s[m + i - 1]
    BY <1>1, <1>2, SubSeqProperties
  <1>4. Len(rest) = last - n /\ last - m + 1 = last - n
    BY <1>1, <1>3
  <1>5. \A i \in 1..(last - n) : m + i - 1 = n + i
    BY <1>1
  <1> QED
    BY <1>3, <1>4, <1>5 DEF m, last

-----------------------------------------------------------------------------
(* The numbering of the lines. *)

LEMMA InWritten ==
    ASSUME NEW l \in [Files -> Seq(1..Lines)]
    PROVE  \A x : x \in UNION {Range(l[f]) : f \in Files}
                     <=> \E f \in Files : \E i \in 1..Len(l[f]) : l[f][i] = x
  <1>1. \A f \in Files : l[f] \in Seq(1..Lines)
    OBVIOUS
  <1>2. \A f \in Files : \A x : x \in Range(l[f]) <=> \E i \in 1..Len(l[f]) : l[f][i] = x
    BY <1>1, InRange
  <1>3. \A x : x \in UNION {Range(l[f]) : f \in Files} <=> \E f \in Files : x \in Range(l[f])
    BY Zenon
  <1> QED
    BY <1>2, <1>3, Zenon

LEMMA WriteNumbers ==
    ASSUME Typed, FeedIsNumbered, WriteLine
    PROVE  FeedIsNumbered'
  <1>1. /\ log \in [Files -> Seq(1..Lines)] /\ cur \in Files /\ cur' = cur
        /\ log[cur] \in Seq(1..Lines) /\ Len(log[cur]) \in Nat
    BY LenProperties DEF Typed, WriteLine
  <1>2. PICK n \in 0..Lines : Written = 1..n
    BY DEF FeedIsNumbered
  <1>3. n \in Nat /\ Lines \in Nat
    BY <1>2, Constants
  <1>4. Cardinality(Written) = n
    BY <1>2, <1>3, FS_Interval
  <1>5. /\ n < Lines /\ n + 1 \in 1..Lines
        /\ log' = [log EXCEPT ![cur] = Append(log[cur], n + 1)]
    <2>1. /\ n < Lines /\ log' = [log EXCEPT ![cur] = Append(log[cur], n + 1)]
      BY <1>4 DEF WriteLine
    <2> QED
      BY <1>3, <2>1
  <1> DEFINE m == Len(log[cur])
  <1>6. /\ Append(log[cur], n + 1) \in Seq(1..Lines)
        /\ Len(Append(log[cur], n + 1)) = m + 1
        /\ \A i \in 1..m : Append(log[cur], n + 1)[i] = log[cur][i]
        /\ Append(log[cur], n + 1)[m + 1] = n + 1
    BY <1>1, <1>5, AppendProperties
  <1>7. /\ log' \in [Files -> Seq(1..Lines)]
        /\ \A f \in Files : f # cur => log'[f] = log[f]
        /\ Len(log'[cur]) = m + 1 /\ log'[cur][m + 1] = n + 1
        /\ \A i \in 1..m : log'[cur][i] = log[cur][i]
    BY <1>1, <1>5, <1>6
  <1>8. \A x : x \in Written <=> \E f \in Files : \E i \in 1..Len(log[f]) : log[f][i] = x
    BY <1>1, InWritten DEF Written
  <1>9. \A f \in Files : \A i \in 1..Len(log[f]) : log[f][i] \in 1..n
    BY <1>2, <1>8
  <1>10. \A x : x \in Written' <=>
             \E f \in Files : \E i \in 1..Len(log'[f]) : log'[f][i] = x
    <2>1. Written' = UNION {Range(log'[f]) : f \in Files}
      BY DEF Written
    <2> QED
      BY <1>7, <2>1, InWritten
  <1>11. Written' = 1..(n + 1)
    <2>1. ASSUME NEW x \in Written' PROVE x \in 1..(n + 1)
      <3>0. PICK f \in Files : \E i \in 1..Len(log'[f]) : log'[f][i] = x
        BY <1>10
      <3>1. PICK i \in 1..Len(log'[f]) : log'[f][i] = x
        BY <3>0
      <3>2. CASE f # cur
        <4>1. x \in 1..n
          BY <1>7, <1>9, <3>1, <3>2
        <4> QED
          BY <1>3, <4>1
      <3>3. CASE f = cur /\ i \in 1..m
        <4>1. x \in 1..n
          BY <1>1, <1>7, <1>9, <3>1, <3>3
        <4> QED
          BY <1>3, <4>1
      <3>4. CASE f = cur /\ i \notin 1..m
        <4>1. i = m + 1
          BY <1>1, <1>7, <3>1, <3>4
        <4> QED
          BY <1>3, <1>7, <3>1, <3>4, <4>1
      <3> QED
        BY <3>2, <3>3, <3>4
    <2>2. ASSUME NEW x \in 1..(n + 1) PROVE x \in Written'
      <3>1. CASE x = n + 1
        <4>1. m + 1 \in 1..Len(log'[cur])
          BY <1>1, <1>7
        <4> QED
          BY <1>1, <1>7, <1>10, <3>1, <4>1
      <3>2. CASE x # n + 1
        <4>1. x \in Written
          BY <1>2, <1>3, <3>2
        <4>0. PICK f \in Files : \E i \in 1..Len(log[f]) : log[f][i] = x
          BY <1>8, <4>1
        <4>2. PICK i \in 1..Len(log[f]) : log[f][i] = x
          BY <4>0
        <4>3. i \in 1..Len(log'[f]) /\ log'[f][i] = x
          BY <1>1, <1>7, <4>2
        <4> QED
          BY <1>10, <4>2, <4>3
      <3> QED
        BY <3>1, <3>2
    <2> QED
      BY <2>1, <2>2
  <1>12. \A f \in Files : f > cur' => log'[f] = <<>>
    <2>1. cur \in Nat /\ ~(cur > cur)
      BY <1>1, FileFacts
    <2> QED
      BY <1>1, <1>7, <2>1 DEF FeedIsNumbered
  <1>13. ASSUME NEW f \in Files, NEW g \in Files, NEW i \in 1..Len(log'[f]),
                NEW j \in 1..Len(log'[g]), f < g \/ (f = g /\ i < j)
         PROVE  log'[f][i] < log'[g][j]
    <2>0. f \in Nat /\ g \in Nat /\ cur \in Nat /\ i \in Nat /\ j \in Nat
      BY <1>1, FileFacts
    <2>1. CASE g = cur /\ j = m + 1
      <3>1. i \in 1..Len(log[f]) /\ log'[f][i] = log[f][i]
        BY <1>1, <1>7, <1>13, <2>0, <2>1
      <3>2. log[f][i] \in 1..n
        BY <1>9, <3>1
      <3> QED
        BY <1>3, <1>7, <2>1, <3>1, <3>2
    <2>2. CASE ~(g = cur /\ j = m + 1)
      <3>1. j \in 1..Len(log[g]) /\ log'[g][j] = log[g][j]
        <4>1. CASE g = cur
          <5>1. j \in 1..(m + 1) /\ j # m + 1
            BY <1>7, <2>2, <4>1
          <5>2. m \in Nat
            BY <1>1
          <5> HIDE DEF m
          <5>3. j \in 1..m
            BY <5>1, <5>2
          <5> QED
            BY <1>7, <4>1, <5>3 DEF m
        <4>2. CASE g # cur
          BY <1>7, <4>2
        <4> QED
          BY <4>1, <4>2
      <3>2. ~(g > cur)
        <4>1. Len(<<>>) = 0
          BY EmptySeq
        <4> QED
          BY <3>1, <4>1 DEF FeedIsNumbered
      <3>3. i \in 1..Len(log[f]) /\ log'[f][i] = log[f][i]
        <4>1. CASE f = cur
          <5>1. g = cur /\ i < j /\ j \in 1..m
            BY <1>13, <2>0, <3>1, <3>2, <4>1
          <5>2. m \in Nat
            BY <1>1
          <5> HIDE DEF m
          <5>3. i \in 1..m
            BY <2>0, <5>1, <5>2
          <5> QED
            BY <1>7, <4>1, <5>3 DEF m
        <4>2. CASE f # cur
          BY <1>7, <1>13, <4>2
        <4> QED
          BY <4>1, <4>2
      <3> QED
        BY <1>13, <3>1, <3>3 DEF FeedIsNumbered
    <2> QED
      BY <2>1, <2>2
  <1>14. n + 1 \in 0..Lines
    BY <1>3, <1>5
  <1> QED
    BY <1>11, <1>12, <1>13, <1>14 DEF FeedIsNumbered

\* What was written before a line lies before its place.
LEMMA WrittenBefore ==
    ASSUME Typed, FeedIsNumbered, NEW f \in Files, NEW i \in 1..Len(log[f]),
           NEW q \in Behind(log[f][i])
    PROVE  \/ \E g \in 1..(f - 1) : q \in Range(log[g])
           \/ \E k \in 1..(i - 1) : q = log[f][k]
  <1>1. log \in [Files -> Seq(1..Lines)]
    BY DEF Typed
  <1>2. \A x : x \in Written <=> \E g \in Files : \E k \in 1..Len(log[g]) : log[g][k] = x
    BY <1>1, InWritten DEF Written
  <1>3. PICK n \in 0..Lines : Written = 1..n
    BY DEF FeedIsNumbered
  <1>4. q \in Written
    <2>1. log[f][i] \in 1..n /\ q \in 1..Lines /\ q < log[f][i]
      BY <1>2, <1>3 DEF Behind, Wanted
    <2> QED
      BY <1>3, <2>1, Constants
  <1>5. PICK g \in Files : \E j \in 1..Len(log[g]) : log[g][j] = q
    BY <1>2, <1>4
  <1>13. PICK k \in 1..Len(log[g]) : log[g][k] = q
    BY <1>5
  <1>6. f \in Nat /\ g \in Nat /\ f >= 1 /\ g >= 1
    BY FileFacts
  <1>7. i \in Nat /\ k \in Nat /\ k >= 1
    BY <1>1, LenProperties
  <1>8. q < log[f][i] /\ q \in Nat /\ log[f][i] \in Nat
    <2>1. log[f][i] \in 1..n
      BY <1>2, <1>3
    <2>2. q \in 1..Lines /\ q < log[f][i]
      BY DEF Behind, Wanted
    <2> QED
      BY <2>1, <2>2
  <1>9. ~(f < g \/ (f = g /\ i < k))
    BY <1>8, <1>13 DEF FeedIsNumbered
  <1>10. ~(f = g /\ i = k)
    BY <1>8, <1>13
  <1>11. CASE g < f
    <2>1. g \in 1..(f - 1)
      BY <1>6, <1>11
    <2>2. q \in Range(log[g])
      BY <1>1, <1>13, InRange
    <2> QED
      BY <2>1, <2>2
  <1>12. CASE g = f
    <2>1. k \in 1..(i - 1)
      BY <1>7, <1>9, <1>10, <1>12
    <2> QED
      BY <1>12, <1>13, <2>1
  <1> QED
    BY <1>6, <1>9, <1>11, <1>12

-----------------------------------------------------------------------------
(* Steps. *)

LEMMA OInitial ==
    ASSUME Init
    PROVE  OInv
  <1>1. FInv
    BY ForwarderInitial
  <1>2. /\ log = [f \in Files |-> <<>>] /\ cur = 1 /\ spool = <<>> /\ stored = {}
        /\ todo = [h \in Threads |-> <<>>] /\ shelved = {} /\ pc = "idle"
    BY DEF Init
  <1>3. \A f \in Files : log[f] = <<>> /\ Len(log[f]) = 0
    BY <1>2, EmptySeq
  <1>4. Written = {}
    <2>1. log \in [Files -> Seq(1..Lines)]
      BY <1>1 DEF FInv, Typed
    <2>2. \A f \in Files : 1..Len(log[f]) = {}
      BY <1>3
    <2>3. \A x : x \in Written <=> \E f \in Files : \E i \in 1..Len(log[f]) : log[f][i] = x
      BY <2>1, InWritten DEF Written
    <2> QED
      BY <2>2, <2>3
  <1>5. FeedIsNumbered
    <2>1. 0 \in 0..Lines /\ Written = 1..0
      BY <1>4, Constants
    <2> QED
      BY <1>3, <2>1 DEF FeedIsNumbered
  <1>6. ShelvedIsRefused
    BY <1>2 DEF ShelvedIsRefused
  <1>7. NoGap
    BY <1>2, EmptyContinues DEF NoGap
  <1> QED
    BY <1>1, <1>5, <1>6, <1>7 DEF OInv

\* Where nothing is read, spooled, sent or stored, there is no gap to open.
LEMMA GapStays ==
    ASSUME OInv, UNCHANGED <<spool, stored, todo, faults>>, pc' # "append"
    PROVE  "torn_append" \notin faults' => NoGap'
  BY DEF OInv, NoGap

LEMMA NumbersStay ==
    ASSUME FeedIsNumbered, UNCHANGED <<log, cur>>
    PROVE  FeedIsNumbered'
  BY DEF FeedIsNumbered, Written

\* Cowrie's steps: what lies before the checkpoint stays.
LEMMA CowrieInOrder ==
    ASSUME OInv, Cowrie, UNCHANGED faults
    PROVE  /\ FeedIsNumbered'
           /\ ShelvedIsRefused'
           /\ "torn_append" \notin faults' => NoGap'
  <1>1. UNCHANGED <<spool, stored, todo, faults, pc, poll, checkpoint, shelved>>
    BY DEF Cowrie, WriteLine, RenameLog, ReopenLog, SealRotatedFeed, diskVars, ingestVars
  <1>2. ShelvedIsRefused'
    BY <1>1 DEF OInv, ShelvedIsRefused
  <1>3. FeedIsNumbered'
    <2>1. CASE WriteLine
      BY <2>1, WriteNumbers DEF OInv, FInv
    <2>2. CASE ReopenLog
      <3>1. log' = log /\ cur' = cur + 1 /\ Written' = Written
        BY <2>2 DEF ReopenLog, Written
      <3>2. cur \in Nat /\ \A f \in Files : f \in Nat
        BY FileFacts DEF OInv, FInv, Typed
      <3>3. \A f \in Files : f > cur' => f > cur
        BY <3>1, <3>2
      <3> QED
        BY <3>1, <3>3 DEF OInv, FeedIsNumbered
    <2>3. CASE RenameLog \/ \E f \in Files : SealRotatedFeed(f)
      BY <2>3, NumbersStay DEF OInv, RenameLog, SealRotatedFeed
    <2> QED
      BY <2>1, <2>2, <2>3 DEF Cowrie
  <1>4. Before(log', checkpoint) = Before(log, checkpoint)
    <2>1. CASE WriteLine
      <3>1. /\ log \in [Files -> Seq(1..Lines)] /\ cur \in Files /\ checkpoint \in Spots
            /\ Inside(log, cur, checkpoint)
        BY DEF OInv, FInv, Typed, BatchLeadsOn
      <3>2. PICK x \in 1..Lines : log' = [log EXCEPT ![cur] = Append(log[cur], x)]
        <4>1. PICK n \in 0..Lines : Written = 1..n
          BY DEF OInv, FeedIsNumbered
        <4>2. n \in Nat /\ Lines \in Nat
          BY <4>1, Constants
        <4>3. Cardinality(Written) = n
          BY <4>1, <4>2, FS_Interval
        <4>4. n < Lines /\ log' = [log EXCEPT ![cur] = Append(log[cur], n + 1)]
          BY <2>1, <4>3 DEF WriteLine
        <4>5. n + 1 \in 1..Lines
          BY <4>2, <4>4
        <4> QED
          BY <4>4, <4>5
      <3> QED
        BY <3>1, <3>2, BeforeStays
    <2>2. CASE log' = log
      BY <2>2
    <2> QED
      BY <2>1, <2>2 DEF Cowrie, RenameLog, ReopenLog, SealRotatedFeed
  <1>5. "torn_append" \notin faults' => NoGap'
    BY <1>1, <1>4 DEF OInv, NoGap
  <1> QED
    BY <1>2, <1>3, <1>5

\* What the poll reads continues what lies before the checkpoint.
LEMMA ReadInOrder ==
    ASSUME OInv, UNCHANGED faults, ReadLog
    PROVE  "torn_append" \notin faults' => NoGap'
  <1> DEFINE file == checkpoint.file
             off == checkpoint.off
             b == Slice(log[file], off)
             n == Len(b)
  <1>1. /\ UNCHANGED <<log, checkpoint, spool, todo, stored>> /\ pc = "open"
    BY DEF ReadLog, cowrieVars, diskVars, ingestVars
  <1>2. present /\ poll.src = file /\ poll.target = cur /\ Inside(log, cur, checkpoint)
    BY <1>1 DEF OInv, FInv, BatchLeadsOn
  <1>3. /\ checkpoint \in Spots /\ file \in Files /\ file \in Nat /\ off \in Nat
        /\ log \in [Files -> Seq(1..Lines)] /\ log[file] \in Seq(1..Lines)
        /\ off <= Len(log[file]) /\ Len(log[file]) \in Nat
    BY <1>2, SpotFacts, LenProperties DEF OInv, FInv, Typed, Inside
  <1>4. /\ b \in Seq(1..Lines) /\ n \in 0..BatchSize /\ off + n <= Len(log[file])
        /\ \A i \in 1..n : b[i] = log[file][off + i]
    BY <1>3, SliceFacts
  <1>5. n \in Nat
    BY <1>4, Constants
  <1>6. poll'.batch = b
    <2>1. (IF Recovering THEN poll.src ELSE cur) = file
      BY <1>2 DEF Recovering
    <2>2. (IF checkpoint.file = file THEN checkpoint.off ELSE 0) = off
      OBVIOUS
    <2>3. \E next : poll' = [NoPoll EXCEPT !.batch = b, !.next = next]
      BY <2>1, <2>2 DEF ReadLog
    <2> HIDE DEF b
    <2> QED
      BY <2>3 DEF NoPoll
  <1> HIDE DEF b
  <1>7. Continues(b, Before(log, checkpoint))
    <2> SUFFICES ASSUME NEW i \in 1..n, NEW q \in Behind(b[i])
                 PROVE  q \in Before(log, checkpoint) \/ \E j \in 1..(i - 1) : b[j] = q
      BY DEF Continues
    <2>1. off + i \in 1..Len(log[file]) /\ b[i] = log[file][off + i]
      BY <1>3, <1>4, <1>5
    <2>2. \/ \E g \in 1..(file - 1) : q \in Range(log[g])
          \/ \E k \in 1..(off + i - 1) : q = log[file][k]
      <3>1. PICK k \in 1..Len(log[file]) : k = off + i
        BY <2>1
      <3>2. q \in Behind(log[file][k])
        BY <2>1, <3>1
      <3>3. Typed /\ FeedIsNumbered
        BY DEF OInv, FInv
      <3>4. \/ \E g \in 1..(file - 1) : q \in Range(log[g])
            \/ \E j \in 1..(k - 1) : q = log[file][j]
        BY <1>3, <3>2, <3>3, WrittenBefore
      <3>5. k - 1 = off + i - 1
        BY <1>3, <1>5, <3>1
      <3> HIDE DEF file, off
      <3> QED
        BY <3>4, <3>5
    <2>3. CASE \E g \in 1..(file - 1) : q \in Range(log[g])
      BY <2>3, InBefore
    <2>4. CASE \E k \in 1..(off + i - 1) : q = log[file][k]
      <3>1. PICK k \in 1..(off + i - 1) : q = log[file][k]
        BY <2>4
      <3>2. CASE k <= off
        <4>1. k \in 1..off
          BY <1>3, <3>1, <3>2
        <4> QED
          BY <3>1, <4>1, InBefore
      <3>3. CASE k > off
        <4>1. k - off \in 1..(i - 1) /\ k - off \in 1..n /\ off + (k - off) = k
          BY <1>3, <1>5, <3>1, <3>3
        <4>2. b[k - off] = q
          BY <1>4, <3>1, <4>1
        <4> QED
          BY <4>1, <4>2
      <3> QED
        BY <1>3, <3>1, <3>2, <3>3
    <2> QED
      BY <2>2, <2>3, <2>4
  <1> QED
    BY <1>1, <1>6, <1>7 DEF OInv, NoGap

\* An append continues the spool: what lies before the checkpoint is stored, or in
\* the spool, or nobody wants it.
LEMMA AppendInOrder ==
    ASSUME OInv, UNCHANGED faults, AppendSpool
    PROVE  "torn_append" \notin faults' => NoGap'
  <1> SUFFICES ASSUME "torn_append" \notin faults PROVE NoGap'
    OBVIOUS
  <1>1. /\ UNCHANGED <<todo, stored>> /\ pc = "append" /\ pc' = "commit"
        /\ spool' = Glued(poll.batch)
    BY DEF AppendSpool, ingestVars
  <1>2. ~torn /\ Before(log, checkpoint) \subseteq Held
    BY DEF OInv, FInv, TornIsSeen, LossIsSeen, Evidence
  <1>3. spool' = spool \o poll.batch
    BY <1>1, <1>2 DEF Glued
  <1>4. spool \in Seq(Records) /\ poll.batch \in Seq(Records)
    <2>1. poll.batch \in Seq(1..Lines) /\ spool \in Seq(Records)
      BY DEF OInv, FInv, Typed
    <2>2. 1..Lines \subseteq Records
      BY Constants DEF Records
    <2> QED
      BY <2>1, <2>2, SeqMonotonic
  <1>5. Continues(poll.batch, stored \cup Range(spool))
    <2>1. Continues(poll.batch, Before(log, checkpoint))
      BY <1>1 DEF OInv, NoGap
    <2>2. Before(log, checkpoint) \cap Wanted \subseteq stored \cup Range(spool)
      BY <1>2 DEF OInv, ShelvedIsRefused, Held
    <2> QED
      BY <2>1, <2>2, ContinuesMore
  <1>6. Continues(spool \o poll.batch, stored)
    BY <1>4, <1>5, ContinuesOn DEF OInv, NoGap
  <1> QED
    BY <1>1, <1>3, <1>6 DEF OInv, NoGap

LEMMA PostInOrder ==
    ASSUME OInv, UNCHANGED faults, PostBatch
    PROVE  "torn_append" \notin faults' => NoGap'
  <1> SUFFICES ASSUME "torn_append" \notin faults PROVE NoGap'
    OBVIOUS
  <1> DEFINE b == Slice(spool, 0)
  <1>1. PICK h \in Threads : todo' = [todo EXCEPT ![h] = b]
    BY DEF PostBatch
  <1>2. /\ UNCHANGED <<spool, stored>> /\ pc' = "wait"
    BY DEF PostBatch, diskVars
  <1>3. spool \in Seq(Records) /\ Len(spool) \in Nat /\ todo \in [Threads -> Seq(Records)]
    BY LenProperties DEF OInv, FInv, Typed
  <1>4. /\ b \in Seq(Records) /\ 0 + Len(b) <= Len(spool)
        /\ \A i \in 1..Len(b) : b[i] = spool[0 + i]
    BY <1>3, SliceFacts
  <1> HIDE DEF b
  <1>5. Len(b) <= Len(spool) /\ \A i \in 1..Len(b) : b[i] = spool[i]
    <2>1. Len(b) \in Nat
      BY <1>4, LenProperties
    <2>2. \A i \in 1..Len(b) : 0 + i = i
      BY <2>1
    <2> QED
      BY <1>3, <1>4, <2>1, <2>2
  <1>6. Continues(b, stored)
    BY <1>3, <1>4, <1>5, ContinuesFirst DEF OInv, NoGap
  <1>7. \A g \in Threads : todo'[g] = IF g = h THEN b ELSE todo[g]
    BY <1>1, <1>3
  <1> QED
    BY <1>2, <1>6, <1>7 DEF OInv, NoGap

\* A batch leaves the spool when every record of it is stored or was shelved.
LEMMA ShortenInOrder ==
    ASSUME OInv, UNCHANGED faults, ShortenSpool
    PROVE  "torn_append" \notin faults' => NoGap'
  <1> SUFFICES ASSUME "torn_append" \notin faults PROVE NoGap'
    OBVIOUS
  <1> DEFINE n == poll.sent
             rest == SubSeq(spool, n + 1, Len(spool))
  <1>1. /\ UNCHANGED <<todo, stored>> /\ pc = "shorten" /\ pc' = "idle" /\ spool' = rest
    BY DEF ShortenSpool, PollEnds, ingestVars
  <1>2. /\ spool \in Seq(Records) /\ Len(spool) \in Nat /\ n \in Nat /\ n <= Len(spool)
    <2>1. spool \in Seq(Records) /\ n \in 0..BatchSize
      BY DEF OInv, FInv, Typed
    <2>2. n <= Len(spool)
      BY <1>1 DEF OInv, FInv, SentIsAnswered
    <2> QED
      BY <2>1, <2>2, LenProperties, Constants
  <1>3. /\ rest \in Seq(Records) /\ Len(rest) = Len(spool) - n
        /\ \A i \in 1..Len(rest) : rest[i] = spool[n + i]
    BY <1>2, RestIs
  <1>4. \A i \in 1..n : spool[i] \in Wanted => spool[i] \in stored
    <2>1. \A i \in 1..n : spool[i] \in stored \cup shelved
      BY <1>1 DEF OInv, FInv, SentIsAnswered
    <2> QED
      BY <2>1 DEF OInv, ShelvedIsRefused
  <1> HIDE DEF rest, n
  <1>5. Continues(rest, stored)
    BY <1>2, <1>3, <1>4, ContinuesRest DEF OInv, NoGap
  <1> QED
    BY <1>1, <1>5 DEF OInv, NoGap

\* The first record of a thread is the next line of all: what lies behind it is
\* stored.
LEMMA HeadIsNext ==
    ASSUME OInv, "torn_append" \notin faults, NEW h \in Threads, todo[h] # <<>>
    PROVE  Behind(Head(todo[h])) \subseteq stored
  <1>1. todo[h] \in Seq(Records) /\ Continues(todo[h], stored)
    BY DEF OInv, FInv, Typed, NoGap
  <1>2. Len(todo[h]) \in Nat /\ Len(todo[h]) # 0 /\ Head(todo[h]) = todo[h][1]
    BY <1>1, EmptySeq, LenProperties, HeadTailProperties
  <1>3. 1 \in 1..Len(todo[h]) /\ 1..(1 - 1) = {}
    BY <1>2
  <1> QED
    BY <1>1, <1>2, <1>3 DEF Continues

\* A thread takes its first record; the others continue what is stored all the more.
LEMMA IngestInOrder ==
    ASSUME OInv, UNCHANGED faults, NEW h \in Threads, IngestEvent(h)
    PROVE  "torn_append" \notin faults' => NoGap'
  <1> SUFFICES ASSUME "torn_append" \notin faults PROVE NoGap'
    OBVIOUS
  <1> DEFINE r == Head(todo[h])
             rest == Tail(todo[h])
  <1>1. /\ UNCHANGED <<spool, log, checkpoint, pc, poll>> /\ todo[h] # <<>>
        /\ todo' = [todo EXCEPT ![h] = rest]
        /\ stored' = IF Refused(r) THEN stored ELSE stored \cup {r}
    BY DEF IngestEvent, cowrieVars, diskVars
  <1>2. todo \in [Threads -> Seq(Records)] /\ todo[h] \in Seq(Records)
    BY DEF OInv, FInv, Typed
  <1>3. /\ rest \in Seq(Records) /\ Len(rest) = Len(todo[h]) - 1
        /\ \A i \in 1..Len(rest) : rest[i] = todo[h][i + 1]
        /\ r \in Records /\ r = todo[h][1]
        /\ Len(todo[h]) \in Nat /\ 1 <= Len(todo[h])
    <2>1. Len(todo[h]) \in Nat /\ Len(todo[h]) # 0
      BY <1>1, <1>2, EmptySeq, LenProperties
    <2> QED
      BY <1>1, <1>2, <2>1, HeadTailProperties
  <1>4. \A g \in Threads : todo'[g] = IF g = h THEN rest ELSE todo[g]
    BY <1>1, <1>2
  <1>5. Behind(r) \subseteq stored
    BY <1>1, HeadIsNext
  <1>6. ~Refused(r) <=> r \in Wanted
    BY <1>3, Constants DEF Refused, Junk, Records, Wanted
  <1> HIDE DEF r, rest
  <1>7. stored \subseteq stored' /\ (r \in Wanted => r \in stored')
    BY <1>1, <1>6
  <1>8. \A q \in stored' : q \in Wanted /\ Behind(q) \subseteq stored'
    BY <1>1, <1>5, <1>6, <1>7 DEF OInv, NoGap
  <1>9. ASSUME NEW s, Continues(s, stored) PROVE Continues(s, stored')
    BY <1>7, <1>9, ContinuesMore
  <1>10. Continues(rest, stored')
    <2>1. Continues(todo[h], stored')
      BY <1>9 DEF OInv, NoGap
    <2>2. \A i \in 1..Len(rest) : rest[i] = todo[h][1 + i]
      <3>1. \A i \in 1..Len(rest) : i + 1 = 1 + i
        BY <1>3
      <3> QED
        BY <1>3, <3>1
    <2>3. \A i \in 1..1 : todo[h][i] \in Wanted => todo[h][i] \in stored'
      BY <1>3, <1>7
    <2> QED
      BY <1>2, <1>3, <2>1, <2>2, <2>3, ContinuesRest
  <1>11. \A g \in Threads : Continues(todo'[g], stored')
    BY <1>4, <1>9, <1>10 DEF OInv, NoGap
  <1> QED
    BY <1>1, <1>8, <1>9, <1>11 DEF OInv, NoGap

LEMMA AbortInOrder ==
    ASSUME OInv, UNCHANGED faults, NEW h \in Threads, IngestAborts(h)
    PROVE  "torn_append" \notin faults' => NoGap'
  <1> SUFFICES ASSUME "torn_append" \notin faults PROVE NoGap'
    OBVIOUS
  <1>1. /\ UNCHANGED <<spool, log, checkpoint, stored>>
        /\ todo' = [todo EXCEPT ![h] = <<>>]
        /\ UNCHANGED <<pc, poll>> \/ pc' = "idle"
    BY DEF IngestAborts, PollEnds, cowrieVars, diskVars
  <1>2. \A g \in Threads : Continues(todo'[g], stored)
    <2>1. todo \in [Threads -> Seq(Records)]
      BY DEF OInv, FInv, Typed
    <2>2. \A g \in Threads : todo'[g] = IF g = h THEN <<>> ELSE todo[g]
      BY <1>1, <2>1
    <2> QED
      BY <2>2, EmptyContinues DEF OInv, NoGap
  <1> QED
    BY <1>1, <1>2 DEF OInv, NoGap

\* Only the shelving step shelves, and only what the API refuses.
LEMMA ShelvedStays ==
    ASSUME OInv, Forwarder \/ Ingest
    PROVE  ShelvedIsRefused'
  <1>1. CASE UNCHANGED shelved
    BY <1>1 DEF OInv, ShelvedIsRefused
  <1>2. CASE ShelveRejected
    <2>1. shelved' = shelved \cup RefusedRecords
      BY <1>2 DEF ShelveRejected
    <2>2. \A r \in RefusedRecords : r \notin Wanted
      BY Constants DEF RefusedRecords, Refused, Junk, Wanted
    <2> QED
      BY <2>1, <2>2 DEF OInv, ShelvedIsRefused
  <1>3. UNCHANGED shelved \/ ShelveRejected
    <2>1. Ingest => UNCHANGED shelved
      BY DEF Ingest, IngestEvent, IngestAborts, diskVars
    <2>2. Forwarder => UNCHANGED shelved \/ ShelveRejected
      BY DEF Forwarder, StatLog, ReadLog, AppendSpool, SpoolIsFull, TornAppend,
         CommitCheckpoint, PostBatch, NothingToPost, ReceiveAck, ShortenSpool, EndPoll,
         diskVars
    <2> QED
      BY <2>1, <2>2
  <1> QED
    BY <1>1, <1>2, <1>3

LEMMA FeedStays ==
    ASSUME Forwarder \/ Ingest
    PROVE  UNCHANGED <<log, cur>>
  <1>1. Ingest => UNCHANGED <<log, cur>>
    BY DEF Ingest, IngestEvent, IngestAborts, cowrieVars
  <1>2. Forwarder => UNCHANGED <<log, cur>>
    BY DEF Forwarder, StatLog, ReadLog, AppendSpool, SpoolIsFull, TornAppend,
       CommitCheckpoint, PostBatch, NothingToPost, ReceiveAck, ShelveRejected,
       ShortenSpool, EndPoll, cowrieVars
  <1> QED
    BY <1>1, <1>2

\* The other steps of a poll read, spool, send and store nothing.
LEMMA QuietInOrder ==
    ASSUME OInv, UNCHANGED faults,
           \/ StatLog \/ SpoolIsFull \/ CommitCheckpoint \/ NothingToPost
           \/ ReceiveAck \/ ShelveRejected \/ EndPoll
    PROVE  "torn_append" \notin faults' => NoGap'
  <1>1. UNCHANGED <<spool, stored, todo>> /\ pc' # "append"
    BY DEF StatLog, SpoolIsFull, CommitCheckpoint, NothingToPost, ReceiveAck,
       ShelveRejected, EndPoll, PollEnds, diskVars, ingestVars
  <1> QED
    BY <1>1, GapStays

LEMMA ForwarderInOrder ==
    ASSUME OInv, UNCHANGED faults, Forwarder
    PROVE  "torn_append" \notin faults' => NoGap'
  <1>1. CASE StatLog \/ SpoolIsFull \/ CommitCheckpoint \/ NothingToPost \/ ReceiveAck
             \/ ShelveRejected \/ EndPoll
    BY <1>1, QuietInOrder
  <1>2. CASE ReadLog
    BY <1>2, ReadInOrder
  <1>3. CASE AppendSpool
    BY <1>3, AppendInOrder
  <1>4. CASE TornAppend
    BY <1>4 DEF TornAppend
  <1>5. CASE PostBatch
    BY <1>5, PostInOrder
  <1>6. CASE ShortenSpool
    BY <1>6, ShortenInOrder
  <1> QED
    BY <1>1, <1>2, <1>3, <1>4, <1>5, <1>6 DEF Forwarder

LEMMA OrderStepKeeps ==
    ASSUME "rotation_while_opening" \notin Faults, OInv, [Next]_<<vars, faults>>
    PROVE  OInv'
  <1>1. FInv'
    BY ForwarderStepKeeps DEF OInv
  <1>2. CASE UNCHANGED <<vars, faults>>
    <2>1. UNCHANGED <<log, cur, checkpoint, spool, shelved, todo, stored, pc, poll, faults>>
      BY <1>2 DEF vars, cowrieVars, diskVars, ingestVars
    <2>2. FeedIsNumbered' /\ ShelvedIsRefused'
      BY <2>1, NumbersStay DEF OInv, ShelvedIsRefused
    <2>3. "torn_append" \notin faults' => NoGap'
      BY <2>1 DEF OInv, NoGap
    <2> QED
      BY <1>1, <2>2, <2>3 DEF OInv
  <1>3. CASE Next
    <2>1. UNCHANGED faults
      BY <1>3 DEF Next
    <2>2. CASE Cowrie
      BY <1>1, <2>1, <2>2, CowrieInOrder DEF OInv
    <2>3. CASE Forwarder \/ Ingest
      <3>1. FeedIsNumbered' /\ ShelvedIsRefused'
        BY <2>3, FeedStays, NumbersStay, ShelvedStays DEF OInv
      <3>2. CASE Forwarder
        BY <1>1, <2>1, <3>1, <3>2, ForwarderInOrder DEF OInv
      <3>3. CASE Ingest
        <4>1. PICK h \in Threads : IngestEvent(h) \/ IngestAborts(h)
          BY <3>3 DEF Ingest
        <4>2. "torn_append" \notin faults' => NoGap'
          BY <2>1, <4>1, IngestInOrder, AbortInOrder
        <4> QED
          BY <1>1, <3>1, <4>2 DEF OInv
      <3> QED
        BY <2>3, <3>2, <3>3
    <2> QED
      BY <1>3, <2>2, <2>3 DEF Next
  <1> QED
    BY <1>2, <1>3

\* A line that is stored is the next one wanted after all that were.
LEMMA NextIsStored ==
    ASSUME OInv, [Next]_<<vars, faults>>
    PROVE  [\A r \in stored' \ stored : \A q \in stored :
              "torn_append" \in faults \/ q < r]_stored
  <1> SUFFICES ASSUME stored' # stored, NEW r \in stored' \ stored, NEW q \in stored,
                      "torn_append" \notin faults
               PROVE  q < r
    OBVIOUS
  <1>1. Ingest
    <2>1. ~UNCHANGED <<vars, faults>>
      BY DEF vars, ingestVars
    <2>2. ~Cowrie
      BY DEF Cowrie, WriteLine, RenameLog, ReopenLog, SealRotatedFeed, ingestVars
    <2>3. ~Forwarder
      BY DEF Forwarder, StatLog, ReadLog, AppendSpool, SpoolIsFull, TornAppend,
         CommitCheckpoint, PostBatch, NothingToPost, ReceiveAck, ShelveRejected,
         ShortenSpool, EndPoll, ingestVars
    <2> QED
      BY <2>1, <2>2, <2>3 DEF Next
  <1>2. PICK h \in Threads : IngestEvent(h)
    BY <1>1 DEF Ingest, IngestAborts
  <1>3. r = Head(todo[h]) /\ todo[h] # <<>> /\ ~Refused(r)
    BY <1>2 DEF IngestEvent
  <1>4. r \in Wanted
    <2>1. todo[h] \in Seq(Records)
      BY DEF OInv, FInv, Typed
    <2>2. r \in Records
      BY <1>3, <2>1, HeadTailProperties
    <2> QED
      BY <1>3, <2>2, Constants DEF Refused, Junk, Records, Wanted
  <1>5. q \in Wanted /\ Behind(q) \subseteq stored
    BY DEF OInv, NoGap
  <1>6. ~(r < q) /\ r # q
    BY <1>4, <1>5 DEF Behind
  <1>7. q \in Nat /\ r \in Nat
    BY <1>4, <1>5 DEF Wanted
  <1> QED
    BY <1>6, <1>7

\* Under the same condition the lines are stored in the order they were written,
\* unless an append was torn: whatever crashes, times out and is sent again, an
\* earlier line never arrives after a later one, though threads of abandoned
\* requests store beside the retry.
THEOREM LinesAreStoredInOrder ==
    ASSUME "rotation_while_opening" \notin Faults
    PROVE  Spec => StoredInOrder
  <1>1. Init => OInv
    BY OInitial
  <1>2. OInv /\ [Next]_<<vars, faults>> => OInv'
    BY OrderStepKeeps
  <1>3. OInv /\ [Next]_<<vars, faults>> =>
          [\A r \in stored' \ stored : \A q \in stored :
              "torn_append" \in faults \/ q < r]_stored
    BY NextIsStored
  <1> QED
    BY <1>1, <1>2, <1>3, PTL DEF Spec, StoredInOrder

-----------------------------------------------------------------------------
(* Types.  They hold whenever Cowrie rotates, so the argument does without   *)
(* FInv; what it needs beside TypeOK is that offsets stay inside the files   *)
(* and that the lines are numbered, which bounds the length of a file.       *)

OnFile(l, p) == p.off <= Len(l[p.file])

KInv ==
    /\ Typed
    /\ pc \in {"idle", "open", "append", "commit", "load", "wait", "shelve", "shorten"}
    /\ quarantine \in Seq(Records) /\ Len(quarantine) <= MaxQuarantine
    /\ IsInjective(quarantine)
    /\ ~present => cur < MaxFiles
    /\ OnFile(log, checkpoint) /\ OnFile(log, poll.next)
    /\ pc \in {"wait", "shelve", "shorten"} => poll.sent <= Len(spool)
    /\ FeedIsNumbered
    /\ faults \subseteq Faults

\* No file is longer than what Cowrie writes in all.
LEMMA FileFits ==
    ASSUME Typed, FeedIsNumbered, NEW f \in Files
    PROVE  Len(log[f]) <= Lines
  <1> DEFINE n == Len(log[f])
             at == [i \in 1..n |-> log[f][i]]
  <1>1. log[f] \in Seq(1..Lines) /\ n \in Nat /\ Lines \in Nat
    BY LenProperties, Constants DEF Typed
  <1>2. \A i \in 1..n : log[f][i] \in 1..Lines
    BY <1>1, ElementOfSeq
  <1>3. \A i, j \in 1..n : i < j => log[f][i] < log[f][j]
    BY DEF FeedIsNumbered
  <1> HIDE DEF n
  <1>4. \A i, j \in 1..n : log[f][i] = log[f][j] => i = j
    <2>1. ASSUME NEW i \in 1..n, NEW j \in 1..n, log[f][i] = log[f][j], i # j
          PROVE  FALSE
      <3>1. i < j \/ j < i
        BY <1>1, <2>1
      <3>2. log[f][i] \in Nat /\ log[f][j] \in Nat
        BY <1>2
      <3> QED
        BY <1>3, <2>1, <3>1, <3>2
    <2> QED
      BY <2>1
  <1>5. at \in Injection(1..n, 1..Lines)
    BY <1>2, <1>4 DEF Injection, IsInjective
  <1>6. /\ IsFiniteSet(1..Lines) /\ Cardinality(1..Lines) = Lines /\ Cardinality(1..n) = n
    BY <1>1, FS_Interval
  <1>7. Cardinality(1..n) <= Cardinality(1..Lines)
    BY <1>5, <1>6, FS_Injection
  <1> QED
    BY <1>6, <1>7 DEF n

\* Numbering the positions of the newly refused records in their order reaches each
\* of them: what is added to the quarantine are records of the batch, each once, and
\* none that it holds.
LEMMA NewlyRefusedFacts ==
    ASSUME spool \in Seq(Records), poll.sent \in Nat, poll.sent <= Len(spool)
    PROVE  /\ NewlyRefused \in Seq(Records)
           /\ \A i, j \in 1..Len(NewlyRefused) : i < j => NewlyRefused[i] # NewlyRefused[j]
           /\ \A i \in 1..Len(NewlyRefused) : ~Contains(quarantine, NewlyRefused[i])
  <1> DEFINE S == NewlyRefusedAt
             n == Cardinality(S)
             upto(i) == {j \in S : j <= i}
             rank == [i \in S |-> Cardinality(upto(i))]
             nth(m) == CHOOSE i \in S : Cardinality(upto(i)) = m
  <1>1. S \subseteq 1..poll.sent
    BY DEF NewlyRefusedAt
  <1>2. S \subseteq Nat /\ \A i \in S : i \in 1..Len(spool)
    BY <1>1, LenProperties
  <1>3. IsFiniteSet(1..poll.sent)
    BY FS_Interval
  <1>4. IsFiniteSet(S) /\ n \in Nat
    BY <1>1, <1>3, FS_Subset, FS_CardinalityType
  <1>5. NewlyRefused = [m \in 1..n |-> spool[nth(m)]]
    BY DEF NewlyRefused
  <1>15. \A i \in S : ~Contains(quarantine, spool[i])
    BY DEF NewlyRefusedAt
  <1>16. ASSUME NEW i \in S, NEW k \in S, i < k
         PROVE  spool[i] # spool[k]
    <2>1. i \in 1..(k - 1)
      BY <1>1, <1>16
    <2> QED
      BY <2>1 DEF NewlyRefusedAt
  <1> HIDE DEF S
  <1>6. ASSUME NEW i \in S
        PROVE  /\ IsFiniteSet(upto(i)) /\ Cardinality(upto(i)) \in 1..n
    <2>1. upto(i) \in SUBSET S
      OBVIOUS
    <2>2. i \in upto(i)
      BY <1>2
    <2> DEFINE U == upto(i)
    <2>3. IsFiniteSet(U) /\ Cardinality(U) <= n /\ Cardinality(U) \in Nat
      BY <1>4, <2>1, FS_Subset, FS_CardinalityType
    <2>4. Cardinality(U) # 0
      <3> HIDE DEF U
      <3>1. U # {}
        BY <2>2 DEF U
      <3> QED
        BY <2>3, <3>1, FS_EmptySet
    <2> HIDE DEF U, n
    <2>5. Cardinality(U) \in 1..n
      BY <1>4, <2>3, <2>4
    <2> QED
      BY <2>3, <2>5 DEF U
  <1>7. ASSUME NEW i \in S, NEW k \in S, i < k
        PROVE  Cardinality(upto(i)) # Cardinality(upto(k))
    <2> DEFINE U == upto(i)
               V == upto(k)
    <2>0. i \in Nat /\ k \in Nat /\ \A j \in S : j \in Nat
      BY <1>2
    <2>1. U \subseteq V /\ k \in V /\ k \notin U
      <3>1. \A j \in S : j <= i => j <= k
        BY <1>7, <2>0
      <3>2. k <= k /\ ~(k <= i)
        BY <1>7, <2>0
      <3> QED
        BY <3>1, <3>2
    <2>2. IsFiniteSet(V)
      BY <1>6
    <2> HIDE DEF U, V
    <2>3. Cardinality(V) # Cardinality(U)
      BY <2>1, <2>2, FS_Subset
    <2> QED
      BY <2>3 DEF U, V
  <1>8. ASSUME NEW i \in S, NEW k \in S, Cardinality(upto(i)) = Cardinality(upto(k))
        PROVE  i = k
    <2>1. i < k \/ k < i \/ i = k
      BY <1>2
    <2> QED
      BY <1>7, <1>8, <2>1
  <1> HIDE DEF n, upto
  <1>9. rank \in Injection(S, 1..n)
    BY <1>6, <1>8 DEF Injection, IsInjective
  <1>10. IsFiniteSet(1..n) /\ Cardinality(1..n) = n
    <2>1. 1 \in Int /\ n \in Int /\ (IF 1 > n THEN 0 ELSE n - 1 + 1) = n
      BY <1>4
    <2> QED
      BY <2>1, FS_Interval
  <1>11. rank \in Surjection(S, 1..n)
    <2>1. Cardinality(S) = Cardinality(1..n)
      BY <1>10 DEF n
    <2> HIDE DEF rank
    <2> QED
      BY <1>9, <1>10, <2>1, FS_Injection
  <1>12. \A m \in 1..n : \E i \in S : rank[i] = m
    <2> HIDE DEF rank
    <2> QED
      BY <1>11 DEF Surjection
  <1>13. ASSUME NEW m \in 1..n
         PROVE  nth(m) \in S /\ Cardinality(upto(nth(m))) = m /\ spool[nth(m)] \in Records
    <2>1. \E i \in S : Cardinality(upto(i)) = m
      BY <1>12
    <2>2. nth(m) \in S /\ Cardinality(upto(nth(m))) = m
      BY <2>1
    <2> HIDE DEF nth
    <2> QED
      BY <1>2, <2>2, ElementOfSeq
  <1> HIDE DEF nth
  <1>14. [m \in 1..n |-> spool[nth(m)]] \in [1..n -> Records]
    BY <1>13
  <1>17. NewlyRefused \in Seq(Records) /\ Len(NewlyRefused) = n
    <2>1. NewlyRefused \in [1..n -> Records]
      BY <1>5, <1>14
    <2>2. NewlyRefused \in Seq(Records)
      BY <1>4, <2>1, SeqDef
    <2> QED
      BY <1>4, <2>1, <2>2, LenProperties
  <1>18. ASSUME NEW i \in 1..n, NEW j \in 1..n, i < j
         PROVE  NewlyRefused[i] # NewlyRefused[j]
    <2>1. /\ nth(i) \in S /\ nth(j) \in S
          /\ Cardinality(upto(nth(i))) = i /\ Cardinality(upto(nth(j))) = j
      BY <1>13
    <2>2. nth(i) # nth(j)
      <3>1. i # j
        BY <1>18
      <3> QED
        BY <2>1, <3>1
    <2>3. nth(i) < nth(j) \/ nth(j) < nth(i)
      <3>1. \A k, l \in S : k < l \/ l < k \/ k = l
        <4>1. \A k \in S : k \in Nat
          BY <1>2
        <4> QED
          BY <4>1
      <3> QED
        BY <2>1, <2>2, <3>1
    <2>4. spool[nth(i)] # spool[nth(j)]
      BY <1>16, <2>1, <2>3
    <2> QED
      BY <1>5, <2>4
  <1>19. \A i \in 1..n : ~Contains(quarantine, NewlyRefused[i])
    BY <1>5, <1>13, <1>15
  <1> QED
    BY <1>17, <1>18, <1>19

\* Evicting the oldest keeps the quarantine within its limit, and no record is in it
\* twice.
LEMMA QuarantineFits ==
    ASSUME KInv, ShelveRejected
    PROVE  /\ quarantine' \in Seq(Records) /\ Len(quarantine') <= MaxQuarantine
           /\ IsInjective(quarantine')
  <1> DEFINE new == NewlyRefused
             all == quarantine \o new
             over == IF Len(all) > MaxQuarantine THEN Len(all) - MaxQuarantine ELSE 0
             m == over + 1
             last == Len(all)
             n == Len(quarantine)
             rest == SubSeq(all, m, last)
  <1>1. quarantine' = rest
    BY DEF ShelveRejected
  <1>2. poll.sent \in Nat /\ poll.sent <= Len(spool) /\ spool \in Seq(Records)
    BY Constants DEF KInv, Typed, ShelveRejected
  <1>3. /\ new \in Seq(Records)
        /\ \A i, j \in 1..Len(new) : i < j => new[i] # new[j]
        /\ \A i \in 1..Len(new) : ~Contains(quarantine, new[i])
    BY <1>2, NewlyRefusedFacts
  <1>4. MaxQuarantine \in Nat
    BY ForwarderAssumption
  <1>5. /\ quarantine \in Seq(Records) /\ DOMAIN quarantine = 1..n /\ n \in Nat
        /\ \A i, j \in 1..n : quarantine[i] = quarantine[j] => i = j
    BY LenProperties DEF KInv, IsInjective
  <1> HIDE DEF new
  <1>6. /\ all \in Seq(Records) /\ Len(all) = n + Len(new) /\ Len(new) \in Nat
        /\ \A i \in 1..Len(all) : all[i] = IF i <= n THEN quarantine[i] ELSE new[i - n]
    BY <1>3, <1>5, ConcatProperties, LenProperties
  <1>7. \A i \in 1..n, k \in 1..Len(new) : quarantine[i] # new[k]
    BY <1>3 DEF Contains
  <1> HIDE DEF all, n
  <1>8. last \in Nat
    BY <1>6, LenProperties
  <1>9. ASSUME NEW i \in 1..last, NEW j \in 1..last, i < j
        PROVE  all[i] # all[j]
    <2>1. /\ all[i] = IF i <= n THEN quarantine[i] ELSE new[i - n]
          /\ all[j] = IF j <= n THEN quarantine[j] ELSE new[j - n]
      BY <1>6
    <2>2. CASE j <= n
      <3>1. i \in 1..n /\ j \in 1..n /\ i # j
        BY <1>5, <1>8, <1>9, <2>2
      <3>2. all[i] = quarantine[i] /\ all[j] = quarantine[j]
        BY <2>1, <3>1
      <3> QED
        BY <1>5, <3>1, <3>2
    <2>3. CASE i <= n /\ ~(j <= n)
      <3>1. i \in 1..n /\ j - n \in 1..Len(new)
        BY <1>5, <1>6, <1>8, <2>3
      <3> QED
        BY <1>7, <2>1, <2>3, <3>1
    <2>4. CASE ~(i <= n) /\ ~(j <= n)
      <3>1. i - n \in 1..Len(new) /\ j - n \in 1..Len(new) /\ i - n < j - n
        BY <1>5, <1>6, <1>8, <1>9, <2>4
      <3> QED
        BY <1>3, <2>1, <2>4, <3>1
    <2>5. ~(i <= n) => ~(j <= n)
      BY <1>5, <1>8, <1>9
    <2> QED
      BY <2>2, <2>3, <2>4, <2>5
  <1>10. m \in Nat /\ m >= 1 /\ last - m + 1 <= MaxQuarantine
    BY <1>4, <1>8
  <1>11. m \in Int /\ last \in Int /\ \A i \in m..last : all[i] \in Records
    <2>1. \A i \in m..last : i \in 1..Len(all)
      BY <1>8, <1>10
    <2> QED
      BY <1>6, <1>8, <1>10, <2>1, ElementOfSeq
  <1> HIDE DEF m, last
  <1>12. /\ rest \in Seq(Records)
         /\ Len(rest) = IF m <= last THEN last - m + 1 ELSE 0
         /\ \A i \in 1..(last - m + 1) : rest[i] = all[m + i - 1]
    BY <1>11, SubSeqProperties
  <1>13. Len(rest) <= MaxQuarantine
    BY <1>4, <1>10, <1>12
  <1> HIDE DEF rest
  <1>14. IsInjective(rest)
    <2>1. DOMAIN rest = 1..Len(rest)
      BY <1>12, LenProperties
    <2>2. ASSUME NEW i \in 1..Len(rest), NEW j \in 1..Len(rest), i < j
          PROVE  rest[i] # rest[j]
      <3>1. i \in 1..(last - m + 1) /\ j \in 1..(last - m + 1)
        BY <1>8, <1>10, <1>12
      <3>2. /\ m + i - 1 \in 1..last /\ m + j - 1 \in 1..last
            /\ m + i - 1 < m + j - 1
        BY <1>8, <1>10, <2>2, <3>1
      <3>3. all[m + i - 1] # all[m + j - 1]
        BY <1>9, <3>2
      <3> QED
        BY <1>12, <3>1, <3>3
    <2>3. \A i, j \in 1..Len(rest) : i < j \/ j < i \/ i = j
      BY <1>12, LenProperties
    <2> QED
      BY <2>1, <2>2, <2>3 DEF IsInjective
  <1> QED
    BY <1>1, <1>12, <1>13, <1>14

LEMMA KInitial ==
    ASSUME Init
    PROVE  KInv
  <1>1. OInv
    BY OInitial
  <1>2. Len(<<>>) = 0 /\ <<>> \in Seq(Records) /\ 1 \in Files
    BY EmptySeq, Constants DEF Files
  <1>3. /\ log = [f \in Files |-> <<>>] /\ checkpoint = Start /\ poll.next = Start
        /\ present = TRUE /\ quarantine = <<>> /\ pc = "idle" /\ faults \subseteq Faults
    BY DEF Init, NoPoll
  <1>4. OnFile(log, checkpoint) /\ OnFile(log, poll.next)
    BY <1>2, <1>3 DEF OnFile, Start
  <1>5. MaxQuarantine \in Nat
    BY ForwarderAssumption
  <1>6. IsInjective(quarantine)
    <2>1. DOMAIN quarantine = 1..0
      BY <1>2, <1>3, LenProperties
    <2> QED
      BY <2>1 DEF IsInjective
  <1> QED
    BY <1>1, <1>2, <1>3, <1>4, <1>5, <1>6 DEF KInv, OInv, FInv

\* Files only grow, so positions stay on them.
LEMMA StayOnFile ==
    ASSUME Typed, WriteLine, NEW p \in Spots, OnFile(log, p)
    PROVE  OnFile(log', p)
  <1> DEFINE x == Cardinality(Written) + 1
  <1>1. x \in 1..Lines /\ log' = [log EXCEPT ![cur] = Append(log[cur], x)]
    BY WrittenIsLine DEF WriteLine
  <1>2. /\ log \in [Files -> Seq(1..Lines)] /\ cur \in Files /\ p.file \in Files
        /\ p.off \in Nat
    BY SpotFacts DEF Typed
  <1> HIDE DEF x
  <1>3. Len(Append(log[cur], x)) = Len(log[cur]) + 1
    BY <1>1, <1>2, AppendProperties
  <1>4. Len(log[cur]) \in Nat
    BY <1>2, LenProperties
  <1>5. CASE p.file = cur
    <2>1. Len(log'[p.file]) = Len(log[cur]) + 1 /\ p.off <= Len(log[cur])
      BY <1>1, <1>2, <1>3, <1>5 DEF OnFile
    <2> QED
      BY <1>2, <1>4, <2>1 DEF OnFile
  <1>6. CASE p.file # cur
    BY <1>1, <1>2, <1>6 DEF OnFile
  <1> QED
    BY <1>5, <1>6

LEMMA CowrieTyped ==
    ASSUME KInv, Cowrie, UNCHANGED faults
    PROVE  KInv'
  <1>1. /\ UNCHANGED <<pc, poll, checkpoint, spool, torn, quarantine, shelved, todo, stored>>
        /\ UNCHANGED faults
    BY DEF Cowrie, WriteLine, RenameLog, ReopenLog, SealRotatedFeed, diskVars, ingestVars
  <1>2. checkpoint \in Spots /\ poll.next \in Spots
    BY DEF KInv, Typed
  <1>3. CASE WriteLine
    <2>1. /\ log' \in [Files -> Seq(1..Lines)] /\ UNCHANGED <<cur, present, sealed>>
      BY <1>3, WrittenIsLine DEF KInv, WriteLine
    <2>2. Typed'
      BY <1>1, <2>1 DEF KInv, Typed
    <2>3. FeedIsNumbered'
      BY <1>3, WriteNumbers DEF KInv
    <2>4. OnFile(log', checkpoint') /\ OnFile(log', poll'.next)
      BY <1>1, <1>2, <1>3, StayOnFile DEF KInv
    <2> QED
      BY <1>1, <2>1, <2>2, <2>3, <2>4 DEF KInv
  <1>4. CASE RenameLog \/ \E f \in Files : SealRotatedFeed(f)
    <2>1. /\ UNCHANGED <<log, cur>> /\ present' \in BOOLEAN /\ sealed' \subseteq Files
          /\ ~present' => cur < MaxFiles
      BY <1>4 DEF KInv, Typed, RenameLog, SealRotatedFeed
    <2>2. Typed' /\ FeedIsNumbered'
      BY <1>1, <2>1, NumbersStay DEF KInv, Typed
    <2> QED
      BY <1>1, <2>1, <2>2 DEF KInv, OnFile
  <1>5. CASE ReopenLog
    <2>1. /\ UNCHANGED <<log, sealed>> /\ present' = TRUE /\ cur' = cur + 1 /\ cur < MaxFiles
      BY <1>5 DEF KInv, ReopenLog
    <2>2. cur \in Nat /\ cur >= 1 /\ MaxFiles \in Nat /\ \A f \in Files : f \in Nat
      BY FileFacts, Constants DEF KInv, Typed
    <2>3. cur' \in Files
      BY <2>1, <2>2 DEF Files
    <2>4. \A f \in Files : f > cur' => f > cur
      BY <2>1, <2>2
    <2>5. Typed'
      BY <1>1, <2>1, <2>3 DEF KInv, Typed
    <2>6. FeedIsNumbered'
      BY <2>1, <2>4 DEF KInv, FeedIsNumbered, Written
    <2> QED
      BY <1>1, <2>1, <2>5, <2>6 DEF KInv, OnFile
  <1> QED
    BY <1>3, <1>4, <1>5 DEF Cowrie

\* What a poll reads and where it will go on, whichever file log_path names by then.
LEMMA ReadTyped ==
    ASSUME KInv, ReadLog
    PROVE  /\ poll' \in [src : Files, target : Files, batch : Seq(1..Lines),
                         next : Spots, sent : 0..BatchSize, thread : Threads]
           /\ OnFile(log, poll'.next)
           /\ pc' \in {"append", "commit", "load"}
  <1> DEFINE file == IF Recovering THEN poll.src ELSE cur
             start == IF checkpoint.file = file THEN checkpoint.off ELSE 0
             b == Slice(log[file], start)
             next == NextCheckpoint(file, start + Len(b))
  <1>1. /\ poll' = [NoPoll EXCEPT !.batch = b, !.next = next]
        /\ pc' \in {"append", "commit", "load"}
    BY DEF ReadLog
  <1>2. /\ checkpoint \in Spots /\ poll.src \in Files /\ poll.target \in Files
        /\ cur \in Files /\ log \in [Files -> Seq(1..Lines)]
    BY DEF KInv, Typed
  <1>3. file \in Files /\ log[file] \in Seq(1..Lines) /\ Len(log[file]) \in Nat
    BY <1>2, LenProperties
  <1>4. start \in Nat /\ start <= Len(log[file])
    <2>1. CASE checkpoint.file = file
      BY <1>2, <2>1, SpotFacts DEF KInv, OnFile
    <2>2. CASE checkpoint.file # file
      BY <1>3, <2>2
    <2> QED
      BY <2>1, <2>2
  <1> HIDE DEF file, start
  <1>5. b \in Seq(1..Lines) /\ Len(b) \in 0..BatchSize /\ start + Len(b) <= Len(log[file])
    BY <1>3, <1>4, SliceFacts
  <1> HIDE DEF b
  <1>6. start + Len(b) \in Nat
    BY <1>4, <1>5, Constants
  <1>7. next \in Spots /\ OnFile(log, next)
    <2> DEFINE end == start + Len(b)
    <2> HIDE DEF end
    <2>1. end \in Nat /\ end <= Len(log[file])
      BY <1>5, <1>6 DEF end
    <2>2. [file |-> file, off |-> end] \in Spots /\ OnFile(log, [file |-> file, off |-> end])
      BY <1>3, <2>1 DEF Spots, OnFile
    <2>3. Len(log[poll.target]) \in Nat
      BY <1>2, LenProperties
    <2>4. /\ [file |-> poll.target, off |-> 0] \in Spots
          /\ OnFile(log, [file |-> poll.target, off |-> 0])
      BY <1>2, <2>3 DEF Spots, OnFile
    <2>5. NextCheckpoint(file, end) \in
             {[file |-> poll.target, off |-> 0], [file |-> file, off |-> end]}
      BY DEF NextCheckpoint
    <2> QED
      BY <2>2, <2>4, <2>5 DEF end
  <1> HIDE DEF next
  <1>8. poll'.next = next
    BY <1>1 DEF NoPoll
  <1>9. poll' \in [src : Files, target : Files, batch : Seq(1..Lines),
                   next : Spots, sent : 0..BatchSize, thread : Threads]
    BY <1>1, <1>5, <1>7, NoPollTyped
  <1> QED
    BY <1>1, <1>7, <1>8, <1>9

\* No step of the forwarder or the ingest API touches the feed.
LEMMA FeedNumbersStay ==
    ASSUME KInv, Forwarder \/ Ingest
    PROVE  /\ UNCHANGED <<log, cur, present, sealed>> /\ FeedIsNumbered'
  <1>1. UNCHANGED <<log, cur, present, sealed>>
    BY DEF Forwarder, Ingest, StatLog, ReadLog, AppendSpool, SpoolIsFull, TornAppend,
       CommitCheckpoint, PostBatch, NothingToPost, ReceiveAck, ShelveRejected, ShortenSpool,
       EndPoll, IngestEvent, IngestAborts, cowrieVars
  <1> QED
    BY <1>1, NumbersStay DEF KInv

\* The start of the feed is on its file.
LEMMA NoPollOnFile ==
    ASSUME Typed
    PROVE  OnFile(log, NoPoll.next)
  <1>1. 1 \in Files /\ log[1] \in Seq(1..Lines)
    BY Constants DEF Files, Typed
  <1>2. 0 <= Len(log[1])
    BY <1>1, LenProperties
  <1>3. NoPoll.next.file = 1 /\ NoPoll.next.off = 0
    BY DEF NoPoll, Start
  <1> QED
    BY <1>2, <1>3 DEF OnFile

LEMMA ForwarderTyped ==
    ASSUME KInv, Forwarder, UNCHANGED faults
    PROVE  KInv'
  <1>1. UNCHANGED <<log, cur, present, sealed, faults>> /\ FeedIsNumbered'
    BY FeedNumbersStay
  <1>2. Typed
    BY DEF KInv
  <1>3. OnFile(log, NoPoll.next)
    BY <1>2, NoPollOnFile
  <1>4. spool \in Seq(Records) /\ Len(spool) \in Nat /\ poll.sent \in Nat
    BY LenProperties, Constants DEF KInv, Typed
  <1>5. CASE StatLog
    <2>1. UNCHANGED <<checkpoint, spool, torn, quarantine, shelved, todo, stored>>
      BY <1>5 DEF StatLog, diskVars, ingestVars
    <2>2. CASE present
      <3>1. pc' = "open" /\ poll' = [NoPoll EXCEPT !.src = checkpoint.file, !.target = cur]
        BY <1>5, <2>2 DEF StatLog
      <3>2. checkpoint.file \in Files /\ cur \in Files
        BY SpotFacts DEF KInv, Typed
      <3>3. poll' \in [src : Files, target : Files, batch : Seq(1..Lines),
                      next : Spots, sent : 0..BatchSize, thread : Threads]
        BY <3>1, <3>2, NoPollTyped
      <3>4. poll'.next = NoPoll.next
        BY <3>1 DEF NoPoll
      <3>5. Typed'
        BY <1>1, <2>1, <3>3 DEF KInv, Typed
      <3> QED
        BY <1>1, <1>3, <2>1, <3>1, <3>4, <3>5 DEF KInv, OnFile
    <2>3. CASE ~present
      <3>1. pc' = "load" /\ poll' = poll
        BY <1>5, <2>3 DEF StatLog
      <3>2. Typed'
        BY <1>1, <2>1, <3>1 DEF KInv, Typed
      <3> QED
        BY <1>1, <2>1, <3>1, <3>2 DEF KInv, OnFile
    <2> QED
      BY <2>2, <2>3
  <1>6. CASE ReadLog
    <2>1. UNCHANGED <<checkpoint, spool, torn, quarantine, shelved, todo, stored>>
      BY <1>6 DEF ReadLog, diskVars, ingestVars
    <2>2. /\ poll' \in [src : Files, target : Files, batch : Seq(1..Lines),
                        next : Spots, sent : 0..BatchSize, thread : Threads]
          /\ OnFile(log, poll'.next) /\ pc' \in {"append", "commit", "load"}
      BY <1>6, ReadTyped
    <2>3. Typed'
      BY <1>1, <2>1, <2>2 DEF KInv, Typed
    <2> QED
      BY <1>1, <2>1, <2>2, <2>3 DEF KInv, OnFile
  <1>7. CASE AppendSpool
    <2>1. UNCHANGED <<checkpoint, quarantine, shelved, poll, todo, stored>>
          /\ torn' = FALSE /\ pc' = "commit" /\ spool' = Glued(poll.batch)
      BY <1>7 DEF AppendSpool, ingestVars
    <2>2. spool' \in Seq(Records)
      BY <1>2, <2>1, BatchOfRecords, GluedFacts DEF Typed
    <2>3. Typed'
      BY <1>1, <2>1, <2>2 DEF KInv, Typed
    <2> QED
      BY <1>1, <2>1, <2>3 DEF KInv, OnFile
  <1>8. CASE TornAppend
    <2>1. UNCHANGED <<checkpoint, quarantine, shelved, todo, stored>>
          /\ torn' = TRUE /\ pc' = "idle" /\ poll' = NoPoll
      BY <1>8 DEF TornAppend, PollEnds, ingestVars
    <2>2. spool' \in Seq(Records)
      BY <1>2, <1>8, TornSpool
    <2>3. Typed'
      BY <1>1, <2>1, <2>2, NoPollTyped DEF KInv, Typed
    <2> QED
      BY <1>1, <1>3, <2>1, <2>3 DEF KInv, OnFile
  <1>9. CASE CommitCheckpoint
    <2>1. UNCHANGED <<spool, torn, quarantine, shelved, todo, stored>>
          /\ pc' = "load" /\ poll' = NoPoll /\ checkpoint' = poll.next
      BY <1>9 DEF CommitCheckpoint, ingestVars
    <2>2. poll.next \in Spots
      BY DEF KInv, Typed
    <2>3. Typed'
      BY <1>1, <2>1, <2>2, NoPollTyped DEF KInv, Typed
    <2> QED
      BY <1>1, <1>3, <2>1, <2>3 DEF KInv, OnFile
  <1>10. CASE PostBatch
    <2> DEFINE b == Slice(spool, 0)
    <2>1. /\ UNCHANGED <<checkpoint, spool, torn, quarantine, shelved, stored>> /\ pc' = "wait"
      BY <1>10 DEF PostBatch, diskVars
    <2>2. PICK h \in Threads :
             /\ todo' = [todo EXCEPT ![h] = b]
             /\ poll' = [NoPoll EXCEPT !.sent = Len(b), !.thread = h]
      BY <1>10 DEF PostBatch
    <2>3. b \in Seq(Records) /\ Len(b) \in 0..BatchSize /\ 0 + Len(b) <= Len(spool)
      BY <1>4, SliceFacts
    <2> HIDE DEF b
    <2>4. Len(b) <= Len(spool)
      BY <1>4, <2>3, Constants
    <2>5. /\ poll' \in [src : Files, target : Files, batch : Seq(1..Lines),
                        next : Spots, sent : 0..BatchSize, thread : Threads]
          /\ poll'.sent = Len(b) /\ poll'.next = NoPoll.next
      BY <2>2, <2>3, NoPollTyped DEF NoPoll
    <2>6. todo' \in [Threads -> Seq(Records)]
      BY <2>2, <2>3 DEF KInv, Typed
    <2>7. Typed'
      BY <1>1, <2>1, <2>5, <2>6 DEF KInv, Typed
    <2> QED
      BY <1>1, <1>3, <2>1, <2>4, <2>5, <2>7 DEF KInv, OnFile
  <1>11. CASE ReceiveAck
    <2>1. UNCHANGED <<checkpoint, spool, torn, quarantine, shelved, poll, todo, stored>>
          /\ pc = "wait" /\ pc' \in {"shelve", "shorten"}
      BY <1>11 DEF ReceiveAck, diskVars, ingestVars
    <2>2. Typed'
      BY <1>1, <2>1 DEF KInv, Typed
    <2> QED
      BY <1>1, <2>1, <2>2 DEF KInv, OnFile
  <1>12. CASE ShelveRejected
    <2>1. UNCHANGED <<checkpoint, spool, torn, poll, todo, stored>>
          /\ pc = "shelve" /\ pc' = "shorten" /\ shelved' = shelved \cup RefusedRecords
      BY <1>12 DEF ShelveRejected, ingestVars
    <2>2. /\ quarantine' \in Seq(Records) /\ Len(quarantine') <= MaxQuarantine
          /\ IsInjective(quarantine')
      BY <1>12, QuarantineFits
    <2>3. poll.sent <= Len(spool)
      BY <2>1 DEF KInv
    <2>4. RefusedRecords \subseteq Records
      BY <1>2, <1>4, <2>3, RefusedFacts
    <2>5. Typed'
      BY <1>1, <2>1, <2>4 DEF KInv, Typed
    <2> QED
      BY <1>1, <2>1, <2>2, <2>3, <2>5 DEF KInv, OnFile
  <1>13. CASE ShortenSpool
    <2>1. UNCHANGED <<checkpoint, quarantine, shelved, todo, stored>>
          /\ torn' = FALSE /\ pc = "shorten" /\ pc' = "idle" /\ poll' = NoPoll
          /\ spool' = SubSeq(spool, poll.sent + 1, Len(spool))
      BY <1>13 DEF ShortenSpool, PollEnds, ingestVars
    <2>2. poll.sent <= Len(spool)
      BY <2>1 DEF KInv
    <2>3. spool' \in Seq(Records)
      BY <1>4, <2>1, <2>2, RestFacts
    <2>4. Typed'
      BY <1>1, <2>1, <2>3, NoPollTyped DEF KInv, Typed
    <2> QED
      BY <1>1, <1>3, <2>1, <2>4 DEF KInv, OnFile
  <1>14. CASE SpoolIsFull \/ NothingToPost \/ EndPoll
    <2>1. UNCHANGED <<checkpoint, spool, torn, quarantine, shelved, todo, stored>>
          /\ pc' = "idle" /\ poll' = NoPoll
      BY <1>14 DEF SpoolIsFull, NothingToPost, EndPoll, PollEnds, diskVars, ingestVars
    <2>2. Typed'
      BY <1>1, <2>1, NoPollTyped DEF KInv, Typed
    <2> QED
      BY <1>1, <1>3, <2>1, <2>2 DEF KInv, OnFile
  <1> QED
    BY <1>5, <1>6, <1>7, <1>8, <1>9, <1>10, <1>11, <1>12, <1>13, <1>14 DEF Forwarder

LEMMA IngestStaysTyped ==
    ASSUME KInv, Ingest, UNCHANGED faults
    PROVE  KInv'
  <1>1. UNCHANGED <<log, cur, present, sealed, faults>> /\ FeedIsNumbered'
    BY FeedNumbersStay
  <1>2. Typed /\ OnFile(log, NoPoll.next)
    BY NoPollOnFile DEF KInv
  <1>3. PICK h \in Threads : IngestEvent(h) \/ IngestAborts(h)
    BY DEF Ingest
  <1>4. UNCHANGED <<checkpoint, spool, torn, quarantine, shelved>>
    BY <1>3 DEF IngestEvent, IngestAborts, diskVars
  <1>5. CASE IngestEvent(h)
    <2>1. UNCHANGED <<pc, poll>>
      BY <1>5 DEF IngestEvent
    <2>2. todo' \in [Threads -> Seq(Records)] /\ stored' \subseteq 1..Lines
      BY <1>2, <1>5, IngestTyped
    <2>3. Typed'
      BY <1>1, <1>4, <2>1, <2>2 DEF KInv, Typed
    <2> QED
      BY <1>1, <1>4, <2>1, <2>3 DEF KInv, OnFile
  <1>6. CASE IngestAborts(h)
    <2>1. todo' = [todo EXCEPT ![h] = <<>>] /\ stored' = stored
      BY <1>6 DEF IngestAborts
    <2>2. todo' \in [Threads -> Seq(Records)]
      <3>1. <<>> \in Seq(Records)
        BY EmptySeq
      <3> QED
        BY <2>1, <3>1 DEF KInv, Typed
    <2>3. (pc' = "idle" /\ poll' = NoPoll) \/ UNCHANGED <<pc, poll>>
      BY <1>6 DEF IngestAborts, PollEnds
    <2>4. Typed'
      BY <1>1, <1>4, <2>1, <2>2, <2>3, NoPollTyped DEF KInv, Typed
    <2> QED
      BY <1>1, <1>2, <1>4, <2>3, <2>4 DEF KInv, OnFile
  <1> QED
    BY <1>3, <1>5, <1>6

LEMMA TypeStepKeeps ==
    ASSUME KInv, [Next]_<<vars, faults>>
    PROVE  KInv'
  <1>1. CASE UNCHANGED <<vars, faults>>
    <2>1. UNCHANGED <<log, cur, present, sealed, checkpoint, spool, torn, quarantine, shelved>>
      BY <1>1 DEF vars, cowrieVars, diskVars
    <2>2. UNCHANGED <<todo, stored, pc, poll, faults>>
      BY <1>1 DEF vars, ingestVars
    <2>3. Typed'
      BY <2>1, <2>2 DEF KInv, Typed
    <2>4. FeedIsNumbered'
      BY <2>1, NumbersStay DEF KInv
    <2> QED
      BY <2>1, <2>2, <2>3, <2>4 DEF KInv, OnFile
  <1>2. CASE Next
    <2>1. UNCHANGED faults
      BY <1>2 DEF Next
    <2> QED
      BY <1>2, <2>1, CowrieTyped, ForwarderTyped, IngestStaysTyped DEF Next
  <1> QED
    BY <1>1, <1>2

\* A position on its file is one of TypeOK's: the file is no longer than the feed.
LEMMA TypesFollow ==
    ASSUME KInv
    PROVE  TypeOK
  <1>1. \A p \in Spots : OnFile(log, p) => p \in Positions
    <2>1. ASSUME NEW p \in Spots, OnFile(log, p)
          PROVE  p \in Positions
      <3>1. p.file \in Files /\ p.off \in Nat /\ log[p.file] \in Seq(1..Lines)
        BY SpotFacts DEF KInv, Typed
      <3>2. Len(log[p.file]) <= Lines /\ Len(log[p.file]) \in Nat /\ Lines \in Nat
        BY <3>1, FileFits, LenProperties, Constants DEF KInv
      <3>3. p.off \in 0..Lines
        BY <2>1, <3>1, <3>2 DEF OnFile
      <3>4. p = [file |-> p.file, off |-> p.off]
        BY DEF Spots
      <3> QED
        BY <3>1, <3>3, <3>4 DEF Positions
    <2> QED
      BY <2>1
  <1>2. checkpoint \in Positions /\ poll.next \in Positions
    BY <1>1 DEF KInv, Typed
  <1>3. poll \in [src : Files, target : Files, batch : Seq(1..Lines),
                  next : Positions, sent : 0..BatchSize, thread : Threads]
    BY <1>2 DEF KInv, Typed
  <1> QED
    BY <1>2, <1>3 DEF KInv, Typed, TypeOK

\* The disk, the poll and the ingest threads stay well typed for any number of lines,
\* files and threads, whenever Cowrie rotates: offsets never pass the end of a file,
\* a batch never exceeds its limit, the quarantine never outgrows its own and holds no
\* record twice.
THEOREM ForwarderTypeCorrect == Spec => []TypeOK
  <1>1. Init => KInv
    BY KInitial
  <1>2. KInv /\ [Next]_<<vars, faults>> => KInv'
    BY TypeStepKeeps
  <1>3. KInv => TypeOK
    BY TypesFollow
  <1> QED
    BY <1>1, <1>2, <1>3, PTL DEF Spec
=============================================================================
