------------------------ MODULE MCFlowInstallation ------------------------
(* Model-checking instance of one Flow installation. *)
EXTENDS FlowInstallation, TLC

CallerSymmetry == Permutations(Callers)
===========================================================================
