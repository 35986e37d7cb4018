-------------------------------- MODULE Ledger -------------------------------
(***************************************************************************)
(* What the chain store promises: the durable chain only grows, by one     *)
(* child at a time, and a crash takes nothing of it away.                  *)
(***************************************************************************)
EXTENDS Integers, Sequences

CONSTANTS Block, Nil, Prev

VARIABLE chain   \* the stored blocks, genesis first

LedgerInit == chain = <<>>

Extend(b) ==
  /\ Prev[b] = IF chain = <<>> THEN Nil ELSE chain[Len(chain)]
  /\ chain' = Append(chain, b)

LedgerNext == \E b \in Block : Extend(b)

LedgerSpec == LedgerInit /\ [][LedgerNext]_chain
=============================================================================
