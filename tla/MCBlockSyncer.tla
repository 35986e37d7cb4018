---------------------------- MODULE MCBlockSyncer ----------------------------
(***************************************************************************)
(* Networks on which TLC checks module BlockSyncer: p is ahead of q.       *)
(***************************************************************************)
EXTENDS BlockSyncer, TLC

CONSTANTS p, q

(* p is ahead; q gets its genesis block late and stays behind.             *)
AheadEnd == p :> 2 @@ q :> -1
GrownEnd == p :> 2 @@ q :> 0
LoneEnd == p :> 1
LoneGrown == p :> 4
Fresh == -1
=============================================================================
