------------------------------ MODULE PopStream ------------------------------
(***************************************************************************)
(* What the block buffer promises to the rest of the node: it advances     *)
(* along one branch of the block tree, one child at a time, and delivers   *)
(* exactly those blocks, in that order, through a bounded channel.  How    *)
(* forks are resolved above the last popped block is not visible here.     *)
(***************************************************************************)
EXTENDS Integers, Sequences

CONSTANTS Block, Nil, Base, Prev, PopQueueCap

VARIABLES
  latestBlock,   \* the last block the buffer has committed to
  unsent,        \* that block while it still has to enter the channel, or Nil
  popChan,       \* blocks on their way to the consumer, oldest first
  consumed       \* the last block the consumer took

streamVars == <<latestBlock, unsent, popChan, consumed>>

StreamInit ==
  /\ latestBlock = Base
  /\ unsent = Nil
  /\ popChan = <<>>
  /\ consumed = Base

Advance(b) ==
  /\ unsent = Nil
  /\ Prev[b] = latestBlock
  /\ latestBlock' = b
  /\ unsent' = b
  /\ UNCHANGED <<popChan, consumed>>

Send ==
  /\ unsent # Nil
  /\ Len(popChan) < PopQueueCap
  /\ popChan' = Append(popChan, unsent)
  /\ unsent' = Nil
  /\ UNCHANGED <<latestBlock, consumed>>

Receive ==
  /\ popChan # <<>>
  /\ consumed' = Head(popChan)
  /\ popChan' = Tail(popChan)
  /\ UNCHANGED <<latestBlock, unsent>>

StreamNext == (\E b \in Block : Advance(b)) \/ Send \/ Receive

StreamSpec == StreamInit /\ [][StreamNext]_streamVars

-----------------------------------------------------------------------------
(* The newest block that has entered the channel.                          *)
StreamEnd == IF popChan = <<>> THEN consumed ELSE popChan[Len(popChan)]

(* The consumer's last block, the channel and the block being sent form    *)
(* one chain that ends in latestBlock: nothing is skipped, repeated or     *)
(* reordered between the buffer and the database.                          *)
StreamLinked ==
  /\ popChan # <<>> => Prev[popChan[1]] = consumed
  /\ \A i \in 1..(Len(popChan) - 1) : Prev[popChan[i + 1]] = popChan[i]
  /\ IF unsent = Nil THEN latestBlock = StreamEnd
     ELSE latestBlock = unsent /\ Prev[unsent] = StreamEnd
=============================================================================
