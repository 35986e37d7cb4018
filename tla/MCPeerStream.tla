---------------------------- MODULE MCPeerStream -----------------------------
(***************************************************************************)
(* The stream on which TLC checks module PeerStream: the genesis node a    *)
(* and a node b whose clock is ahead by an odd number of units.            *)
(***************************************************************************)
EXTENDS PeerStream, TLC

CONSTANTS a, b

FewTicks == a :> 4 @@ b :> 0
AheadSkew == a :> 0 @@ b :> 5

ASSUME ClearSkew == OffsetClear
=============================================================================
