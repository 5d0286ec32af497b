---------------------------- MODULE MCRetention ----------------------------
(* Instances of Retention for TLC. *)
EXTENDS Retention, TLC

Symmetry == Permutations(Processes) \cup Permutations(Archives)

\* Ids in time order, and ids of which the last document has the first.
IdsByTime == [d \in Docs |-> d]
LastIdFirst == [d \in Docs |-> IF \A e \in Docs : e <= d THEN 0 ELSE d]

\* Bound: cycles are disturbed while there are at most documents 1 and 2, and go on
\* alone with any three.
Seen == {d \in Docs : source[d] # 0 \/ purged[d] # 0}
TwoOrCalm == Cardinality(Seen) <= 3 /\ (Seen \subseteq {1, 2} \/ Calm)
=============================================================================
