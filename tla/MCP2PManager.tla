---------------------------- MODULE MCP2PManager -----------------------------
(***************************************************************************)
(* The plans on which TLC checks module P2PManager: streams that stop and  *)
(* a node that leaves; a topic with forged, repeated and genesis blocks;   *)
(* transactions from both sides beside blocks of the node's own.           *)
(***************************************************************************)
EXTENDS P2PManager

CONSTANTS p1, p2, good, late, forged, zero, t1, t2

Quiet == [genesis |-> FALSE, regular |-> TRUE, syncs |-> FALSE,
          bounds |-> [streams |-> 5, leaving |-> {p1, p2}],
          packages |-> 0, messages |-> [b \in Block |-> 0],
          udp |-> [t \in Tx |-> 0], rpc |-> [t \in Tx |-> 0]]

Genesis == [Quiet EXCEPT !.genesis = TRUE, !.syncs = TRUE,
                         !.bounds = [streams |-> 0, leaving |-> {}]]
Joining == [Quiet EXCEPT !.syncs = TRUE,
                         !.bounds = [streams |-> 1, leaving |-> {p1}]]

Topics ==
  {[Genesis EXCEPT !.messages = [b \in Block |-> IF b = zero THEN 0 ELSE 1]],
   [Genesis EXCEPT !.messages = [b \in Block |-> IF b = good THEN 2 ELSE 1],
                   !.regular = FALSE]}

Traffic ==
  {[p EXCEPT !.packages = 2, !.udp = [t \in Tx |-> IF t = t1 THEN 2 ELSE 1],
             !.rpc = [t \in Tx |-> IF t = t1 THEN 1 ELSE 0]] :
     p \in {Genesis, Joining}}

TestPlans == {Quiet} \cup Topics \cup Traffic
=============================================================================
