---------------------------- MODULE MCBlockBuffer ----------------------------
(***************************************************************************)
(* Block trees on which TLC checks module BlockBuffer.  All of them hang   *)
(* from g; a block's letter names its branch and the digit its height.     *)
(***************************************************************************)
EXTENDS BlockBuffer, TLC

CONSTANTS g, a1, a2, a3, a4, a5, b1, b2, c2, c5

AllPrev == g :> Nil @@ a1 :> g @@ a2 :> a1 @@ a3 :> a2 @@ a4 :> a3 @@ a5 :> a4
           @@ b1 :> g @@ b2 :> b1 @@ c2 :> a1 @@ c5 :> a4
AllHeight == g :> 0 @@ a1 :> 1 @@ a2 :> 2 @@ a3 :> 3 @@ a4 :> 4 @@ a5 :> 5
             @@ b1 :> 1 @@ b2 :> 2 @@ c2 :> 2 @@ c5 :> 5
(* b1 beats a1 by its transactions, c2 and c5 beat a2 and a5 by their      *)
(* timestamps.                                                             *)
AllTxs == [b \in {g, a1, a2, a3, a4, a5, b2, c2, c5} |-> 1] @@ b1 :> 2
AllTimestamp == [b \in {g, a1, a2, a3, a4, a5, b1, b2} |-> 2]
                @@ c2 :> 1 @@ c5 :> 1

Restricted(f, S) == [b \in S |-> f[b]]
Deliveries(S, twice) ==
  [b \in S |-> IF b = g THEN 0 ELSE IF b = twice THEN 2 ELSE 1]

(* A long branch, a better root that the VDF may reject, a better tip; a2  *)
(* comes twice.                                                            *)
RootBlock == {g, a1, a2, a3, a4, a5, b1, c5}
RootPrev == Restricted(AllPrev, RootBlock)
RootHeight == Restricted(AllHeight, RootBlock)
RootTxs == Restricted(AllTxs, RootBlock)
RootTimestamp == Restricted(AllTimestamp, RootBlock)
RootCopies == Deliveries(RootBlock, a2)
RootRejectable == {b1}

ASSUME RootAssumption ==
  Block = RootBlock => TakenOnce /\ RoomForOrphans

(* The same branch with forks at heights 1 and 2.                          *)
LongBlock == {g, a1, a2, a3, a4, a5, b1, b2, c2}
LongPrev == Restricted(AllPrev, LongBlock)
LongHeight == Restricted(AllHeight, LongBlock)
LongTxs == Restricted(AllTxs, LongBlock)
LongTimestamp == Restricted(AllTimestamp, LongBlock)
LongCopies == Deliveries(LongBlock, a2)
NoBlock == {}
=============================================================================
