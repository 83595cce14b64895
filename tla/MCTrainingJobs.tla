--------------------------- MODULE MCTrainingJobs ---------------------------
(***************************************************************************)
(* TrainingJobs for TLC: the cancel requests are interchangeable; of two   *)
(* jobs one has a distributed plan.                                        *)
(***************************************************************************)
EXTENDS TrainingJobs, TLC

Symmetry == Permutations(Cancels)
=============================================================================
