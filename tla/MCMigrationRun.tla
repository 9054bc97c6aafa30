-------------------------- MODULE MCMigrationRun --------------------------
(* Instances of MigrationRun for TLC: a few records and commands. *)
EXTENDS MigrationRun, TLC

(* The first route's source object is still empty. *)
LastRouteOnly == {{<<MaxRoute, 1>>}}
CallerSymmetry == Permutations(Callers)
=============================================================================
