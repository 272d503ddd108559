---------------------------- MODULE MCWeightStage ----------------------------
(* Instances of WeightStage for TLC; the bounds are explained in the README. *)
EXTENDS WeightStage, TLC

Tensors3 == (0 :> <<3, 4>>) @@ (1 :> <<5>>) @@ (2 :> <<1, 2, 1>>)

\* The norms of each layer weigh at least what alignment adds to it; with
\* Align = 4 the third layer needs exactly the 12 bytes that are allocated.
Norms3 == (0 :> 2) @@ (1 :> 4) @@ (2 :> 8)
Hybrid == {0, 2}

ASSUME PaddingFitsHere == PaddingFits
=============================================================================
