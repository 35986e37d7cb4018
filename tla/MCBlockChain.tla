----------------------------- MODULE MCBlockChain ----------------------------
(***************************************************************************)
(* Block trees and scenarios on which TLC checks module BlockChain: the    *)
(* genesis g with a chain and a fork, and a second genesis h.              *)
(***************************************************************************)
EXTENDS BlockChain, TLC

CONSTANTS g, h, a1, a2, b1

TreeBlock == {g, h, a1, a2, b1}
TreePrev == g :> Nil @@ h :> Nil @@ a1 :> g @@ a2 :> a1 @@ b1 :> g
TreeHeight == g :> 0 @@ h :> 0 @@ a1 :> 1 @@ a2 :> 2 @@ b1 :> 1
TreeTasks == g :> 0 @@ h :> 0 @@ a1 :> 1 @@ a2 :> 2 @@ b1 :> 1

(* Another genesis is made while g is synced and gossiped; with a failing  *)
(* disk or a late reader only the first two meet.                          *)
RivalOffers == {<<"maker", h>>, <<"caller", g>>, <<"routine", g>>}
TwoOffers == {<<"maker", h>>, <<"caller", g>>}
FaultOffers ==
  "crash" :> RivalOffers @@ "disk" :> TwoOffers @@ "reader" :> TwoOffers
=============================================================================
