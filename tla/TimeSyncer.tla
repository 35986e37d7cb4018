----------------------------- MODULE TimeSyncer ------------------------------
(***************************************************************************)
(* The time syncer of a node (node/time_syncer.go) as a function from one  *)
(* answer to the next state of the syncer.  Module PeerStream runs it over *)
(* the streams that carry its messages.                                    *)
(*                                                                         *)
(* The clocks run at one speed, so an answer is known by two differences   *)
(* of logic clocks: out = RecReqTime - ReqTime, back = RspTime -           *)
(* RecRspTime.  The time a message travels is left out: it is far below    *)
(* availableThreshold.                                                     *)
(***************************************************************************)
EXTENDS Integers

CONSTANTS
  availableThreshold,  \* largest adjustment of a syncer that confirms
  confirmThreshold     \* near answers in a row until the node is synced

ASSUME TimeAssumption ==
  availableThreshold \in Nat /\ confirmThreshold \in Nat \ {0}

(* Start: the genesis node is synced at once.                              *)
NewTimeSyncer(genesis) ==
  [status |-> IF genesis THEN "SYNCED" ELSE "INITIAL",
   delta |-> 0, confirmTimes |-> 0]

abs(x) == IF x < 0 THEN -x ELSE x

(* Go's x / 2, which rounds towards zero.                                  *)
Half(x) == IF x < 0 THEN -((-x) \div 2) ELSE x \div 2

Delta(m) == Half(m.back) + Half(m.out)

(* Mutant: every answer adjusts the clock.                                 *)
AlwaysNear(d) == TRUE

Near(d) == abs(d) < availableThreshold

FirstAnswer(ts, d) ==
  [ts EXCEPT !.status = "CONFIRMING", !.delta = @ + d]

Confirm(ts, d) ==
  LET confirming == ts.status = "CONFIRMING"
      times == IF ~Near(d) THEN 0
               ELSE ts.confirmTimes + (IF confirming THEN 1 ELSE 0)
  IN [status |-> IF confirming /\ times = confirmThreshold THEN "SYNCED"
                 ELSE ts.status,
      delta |-> ts.delta + (IF Near(d) THEN d ELSE 0),
      confirmTimes |-> times]

ProcessSyncRespond(ts, m) ==
  IF ts.status = "INITIAL" THEN FirstAnswer(ts, Delta(m))
  ELSE Confirm(ts, Delta(m))
=============================================================================
