------------------------------- MODULE MCTxPool ------------------------------
(***************************************************************************)
(* Scenarios on which TLC checks module TxPool: t comes again while it is  *)
(* being packaged, or is in a block of another node.                       *)
(***************************************************************************)
EXTENDS TxPool, TLC

CONSTANTS t, u

TwoScenarios ==
  {<<t :> 0 @@ u :> 0, t :> 2 @@ u :> 1, {}>>,
   <<t :> 1 @@ u :> 0, t :> 0 @@ u :> 1, {{t}}>>}
=============================================================================
