------------------------------ MODULE SessionLog ------------------------------
(***************************************************************************)
(* What queue and session worker promise together, without processes,      *)
(* memories, claims or crashes: every session has one log, the events are  *)
(* written to it one by one in the order of the queue, an event succeeds   *)
(* while it ends its log, and a log that is closed is announced and never  *)
(* written again.  An event that was given up after it was written may     *)
(* stay in its log or be taken back by the next one.                       *)
(***************************************************************************)
EXTENDS SessionQueue, Sequences

CONSTANT Closing     \* events that close their session

VARIABLES
    row,         \* row[s]: the log of session s
    announced    \* sessions whose end was announced

logVars == <<queueVars, row, announced>>

LogInit ==
    /\ Init
    /\ row = [s \in Sessions |-> <<>>]
    /\ announced = {}

Closed(s) == \E i \in DOMAIN row[s] : row[s][i] \in Closing

EndsWith(s, e) == row[s] # <<>> /\ row[s][Len(row[s])] = e

\* The queue alone moves.
Arrive(e) == Store(e) /\ UNCHANGED <<row, announced>>
GiveUp(D) == SettleAll(D, "dead_letter") /\ UNCHANGED <<row, announced>>

\* What a row may keep when it is written: all of it, or all but its last event
\* if that was given up.
Kept(s) ==
    {row[s]} \cup
    {SubSeq(row[s], 1, Len(row[s]) - 1) :
        x \in {e \in Events : EndsWith(s, e) /\ status[e] = "dead_letter"}}

\* The next event of an open session is written, once.
Write(e) ==
    LET s == SessionOf[e] IN
    /\ Unsettled(e)
    /\ \A p \in Events : Unsettled(p) => ~Before(p, e)
    /\ ~Closed(s)
    /\ \E kept \in Kept(s) :
          /\ \A i \in DOMAIN kept : kept[i] # e
          /\ row' = [row EXCEPT ![s] = Append(kept, e)]
    /\ UNCHANGED <<queueVars, announced>>

Announce(s) ==
    /\ Closed(s)
    /\ announced' = announced \cup {s}
    /\ UNCHANGED <<queueVars, row>>

\* An event succeeds when it was written and, if it closes its session, announced.
Succeed(e) ==
    /\ EndsWith(SessionOf[e], e)
    /\ e \in Closing => SessionOf[e] \in announced
    /\ SettleAll({e}, "succeeded")
    /\ UNCHANGED <<row, announced>>

LogNext ==
    \/ \E e \in Events : Arrive(e) \/ Write(e) \/ Succeed(e)
    \/ \E s \in Sessions : Announce(s)
    \/ \E D \in SUBSET Events : GiveUp(D)

LogSpec == LogInit /\ [][LogNext]_logVars
=============================================================================
