--------------------------- MODULE MCAnalysisQueue ---------------------------
(* A small instance of AnalysisQueue.                                       *)
EXTENDS AnalysisQueue
=============================================================================
