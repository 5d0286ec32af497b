---------------------------- MODULE AnalysisLedger ----------------------------
(***************************************************************************)
(* What the analysis queue promises: a session's analysis is opened once,  *)
(* settled, and reopened only after it failed; a report exists exactly for *)
(* a session whose analysis succeeded, and there is one.                   *)
(***************************************************************************)
EXTENDS Naturals

CONSTANT Sessions

VARIABLES state, reports

ledgerVars == <<state, reports>>

LedgerInit ==
    /\ state = [s \in Sessions |-> "none"]
    /\ reports = {}

Open(s) ==
    /\ state[s] = "none"
    /\ state' = [state EXCEPT ![s] = "open"]
    /\ UNCHANGED reports

\* The only step that files a report: a pair of the session and an attempt.
Succeed(s) ==
    /\ state[s] = "open"
    /\ \A r \in reports : r[1] # s
    /\ state' = [state EXCEPT ![s] = "succeeded"]
    /\ \E r \in reports' : r[1] = s /\ reports' = reports \cup {r}

Skip(s) ==
    /\ state[s] = "open"
    /\ state' = [state EXCEPT ![s] = "skipped"]
    /\ UNCHANGED reports

\* Attempts may run out for several sessions at once.
Fail(some) ==
    /\ \A s \in some : state[s] = "open"
    /\ state' = [s \in Sessions |-> IF s \in some THEN "failed" ELSE state[s]]
    /\ UNCHANGED reports

Reopen(s) ==
    /\ state[s] = "failed"
    /\ state' = [state EXCEPT ![s] = "open"]
    /\ UNCHANGED reports

LedgerNext ==
    \/ \E s \in Sessions : Open(s) \/ Succeed(s) \/ Skip(s) \/ Reopen(s)
    \/ \E some \in SUBSET Sessions : Fail(some)

LedgerSpec == LedgerInit /\ [][LedgerNext]_ledgerVars
=============================================================================
