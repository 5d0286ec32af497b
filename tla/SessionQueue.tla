---------------------------- MODULE SessionQueue ----------------------------
(***************************************************************************)
(* What the event queue promises, without claims, leases, attempts or      *)
(* time: stored events get places, ascending within their session, and     *)
(* each is settled exactly once, one way or the other, never before its    *)
(* predecessors in the session.  Several may be given up in one step, one  *)
(* succeeds at a time.                                                     *)
(***************************************************************************)
EXTENDS Naturals

CONSTANTS Events, Places, Sessions, SessionOf

VARIABLES
    place,   \* place[e]: position of e in the order of the queue, 0: not stored
    status   \* how e was settled

queueVars == <<place, status>>

Init ==
    /\ place = [e \in Events |-> 0]
    /\ status = [e \in Events |-> "unsettled"]

Store(e) ==
    /\ place[e] = 0
    /\ \E n \in Places :
          /\ \A f \in Events : SessionOf[f] = SessionOf[e] => place[f] < n
          /\ place' = [place EXCEPT ![e] = n]
    /\ UNCHANGED status

Unsettled(e) == place[e] # 0 /\ status[e] = "unsettled"

Before(p, e) == SessionOf[p] = SessionOf[e] /\ place[p] < place[e]

\* D is settled as r: with each event, everything still open before it.
SettleAll(D, r) ==
    /\ \A e \in D :
          /\ Unsettled(e)
          /\ \A p \in Events : Unsettled(p) /\ Before(p, e) => p \in D
    /\ status' = [e \in Events |-> IF e \in D THEN r ELSE status[e]]
    /\ UNCHANGED place

Next ==
    \/ \E e \in Events : Store(e) \/ SettleAll({e}, "succeeded")
    \/ \E D \in SUBSET Events : SettleAll(D, "dead_letter")

Spec == Init /\ [][Next]_queueVars
=============================================================================
