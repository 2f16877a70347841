-------------------------- MODULE MCAlertPipeline --------------------------
(* Instances of AlertPipeline for TLC.                                     *)
EXTENDS AlertPipelineInv, TLC

(* The tasks are interchangeable: no property below is temporal beyond a   *)
(* box where this set is used.                                             *)
TaskSymmetry == Permutations(Tasks)

=============================================================================
