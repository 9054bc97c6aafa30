----------------------- MODULE MCContinuousExecution -----------------------
EXTENDS ContinuousExecution, TLC

CONSTANTS w1, w2, a1, a2

OneRoute == <<"r1">>
Numbers == (a1 :> 1) @@ (a2 :> 2)
(* A retry beside its first attempt, and two calls under one identity. *)
RetryOrTwin == {(w1 :> a1) @@ (w2 :> a2), (w1 :> a1) @@ (w2 :> a1)}
EverySource == [Routes -> {{}, Records}]
=============================================================================
