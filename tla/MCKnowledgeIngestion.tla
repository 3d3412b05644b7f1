------------------------ MODULE MCKnowledgeIngestion ------------------------
(***************************************************************************)
(* Instances of KnowledgeIngestion for TLC.  Worker processes are alike,   *)
(* so permuting them leaves the behaviours unchanged.                      *)
(***************************************************************************)
EXTENDS KnowledgeIngestion, TLC

CONSTANTS w1, w2

OneWorker  == {w1}
TwoWorkers == {w1, w2}

WorkerSymmetry == Permutations(TwoWorkers)
=============================================================================
