--------------------------- MODULE MCSessionWorker ---------------------------
(* Small instances of SessionWorker: one session whose last or middle event *)
(* closes it.                                                               *)
EXTENDS SessionWorker, TLC

OneSession == [e \in Events |-> "s1"]
WorkerSymmetry == Permutations(Workers)
=============================================================================
