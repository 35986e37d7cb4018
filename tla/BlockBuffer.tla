----------------------------- MODULE BlockBuffer -----------------------------
(***************************************************************************)
(* The block buffer of a node (core/buffer.go): a window of at most one    *)
(* selected block per height above the last block handed to the database.  *)
(* Two goroutines fill the window.  Process reads blockChan, secondProcess *)
(* retries the blocks whose parent was not there yet, from secondChan.     *)
(* Both decide about a block under updateLock, and both keep that lock     *)
(* while they send on a bounded channel.  When a block is accepted more    *)
(* than MaxBufferSize above the last popped height, the lowest selected    *)
(* block is popped and sent on popChan.                                    *)
(*                                                                         *)
(* Left out: blockMark, latestBlockHash and bufferFull, which nothing in   *)
(* the program reads, metrics and logging.  The VDF calculator is behind   *)
(* VerifyBlockVDF (a verdict) and AppendNewSeed (a call that may block);   *)
(* module Calculator models both.                                          *)
(***************************************************************************)
EXTENDS Integers, Sequences, FiniteSets

CONSTANTS
  Block,           \* every block of the scenario, the base included
  Nil,             \* Go's nil block
  Base,            \* the block the buffer is created on
  Prev,            \* parent of a block, or Nil
  Height,          \* header height
  Txs,             \* number of transactions
  Timestamp,       \* header timestamp
  Rejectable,      \* blocks whose VDF result the calculator may refuse
  Copies,          \* how often the network delivers a block
  MaxHeight,       \* bound of the scenario: the largest header height
  MaxBufferSize,   \* maxBufferSize
  BlockQueueCap,   \* capacity of blockChan (maxQueueBlock)
  SecondQueueCap,  \* capacity of secondChan (maxQueueBlock)
  PopQueueCap,     \* capacity of popChan (maxBlockChannel)
  KnownCap,        \* maxKnownBlock
  ProcessedCap     \* maxProcessedBlock

(***************************************************************************)
(* PackageNewBlock gives a block the height of its parent plus one         *)
(* (core/blockchain.go:189); blocks are identified by their hash.          *)
(***************************************************************************)
ASSUME BlockAssumption ==
  /\ Base \in Block
  /\ Nil \notin Block
  /\ Prev \in [Block -> Block \cup {Nil}]
  /\ MaxHeight \in Nat
  /\ Height \in [Block -> 0..MaxHeight]
  /\ \A b \in Block : Prev[b] # Nil => Height[b] = Height[Prev[b]] + 1
  /\ Txs \in [Block -> Nat]
  /\ Timestamp \in [Block -> Nat]
  /\ Rejectable \subseteq Block
  /\ Copies \in [Block -> Nat]

ASSUME BoundAssumption ==
  /\ MaxBufferSize \in Nat \ {0}
  /\ BlockQueueCap \in Nat \ {0}
  /\ SecondQueueCap \in Nat \ {0}
  /\ PopQueueCap \in Nat \ {0}
  /\ KnownCap \in Nat \ {0}
  /\ ProcessedCap \in Nat \ {0}

(***************************************************************************)
(* Hypotheses of two theorems, which the runs that check the properties    *)
(* satisfy: no block is looked at twice, because no known block is         *)
(* forgotten or because none is delivered again; and secondChan is large   *)
(* enough for the orphans of the scenario.  A child of the base is no      *)
(* orphan before the first pop; after it the base, the popped block and    *)
(* the one whose acceptance popped it are decided.                         *)
(***************************************************************************)
NoneForgotten == IsFiniteSet(Block) /\ Cardinality(Block) <= KnownCap
NoneRepeated == \A b \in Block : Copies[b] <= 1
TakenOnce == NoneForgotten \/ NoneRepeated

RoomForOrphans ==
  /\ IsFiniteSet(Block)
  /\ Cardinality({b \in Block \ {Base} : Prev[b] # Base}) <= SecondQueueCap
  /\ Cardinality(Block) <= SecondQueueCap + 3

Proc == {"process", "second"}
Heights == 0..(MaxHeight + 1)

VARIABLES
  blockChan, secondChan, popChan,   \* the three channels, oldest first
  selectedBlock,                    \* height -> selected block or Nil
  knownBlocks, processedBlocks,     \* the two LRU caches
  latestBlock, latestBlockHeight,   \* the last popped block
  bufferedHeight,                   \* height of the last replacement
  updateLock,                       \* its holder, or "free"
  pc, cur,                          \* where each goroutine is, and its block
  consumed,                         \* the last block taken from popChan
  pending,                          \* deliveries the network still makes
  accepted,                         \* history: blocks that entered selection
  panicked                          \* a nil block was dereferenced

chans == <<blockChan, secondChan, popChan>>
view == <<selectedBlock, latestBlock, latestBlockHeight, bufferedHeight>>
vars == <<chans, view, knownBlocks, processedBlocks, updateLock, pc, cur,
          consumed, pending, accepted, panicked>>

TypeOK ==
  /\ blockChan \in Seq(Block)
  /\ secondChan \in Seq(Block)
  /\ popChan \in Seq(Block)
  /\ selectedBlock \in [Heights -> Block \cup {Nil}]
  /\ knownBlocks \subseteq Block
  /\ processedBlocks \subseteq Block
  /\ latestBlock \in Block
  /\ latestBlockHeight \in 0..MaxHeight
  /\ bufferedHeight \in 0..MaxHeight
  /\ updateLock \in Proc \cup {"free"}
  /\ pc \in [Proc -> {"recv", "lock", "requeue", "send", "seed"}]
  /\ cur \in [Proc -> Block \cup {Nil}]
  /\ consumed \in Block
  /\ pending \in [Block -> Nat]
  /\ accepted \subseteq Block
  /\ panicked \in BOOLEAN

-----------------------------------------------------------------------------
(* Mutant: the younger block wins a tie.                                   *)
YoungerOutranks(block, origin) ==
  /\ Prev[block] = Prev[origin]
  /\ \/ Txs[block] > Txs[origin]
     \/ Txs[block] = Txs[origin] /\ Timestamp[block] >= Timestamp[origin]

(***************************************************************************)
(* compareBlock: siblings only; more transactions win, then the older      *)
(* timestamp, and on a full tie the block that comes later.                *)
(***************************************************************************)
Outranks(block, origin) ==
  /\ Prev[block] = Prev[origin]
  /\ \/ Txs[block] > Txs[origin]
     \/ Txs[block] = Txs[origin] /\ Timestamp[block] <= Timestamp[origin]

(***************************************************************************)
(* The caches are github.com/hashicorp/golang-lru.  The victim of an       *)
(* eviction is any entry: a superset of least-recently-used.               *)
(***************************************************************************)
LruAdd(cache, b, cap) ==
  IF b \in cache THEN {cache}
  ELSE IF Cardinality(cache) < cap THEN {cache \cup {b}}
  ELSE {(cache \ {v}) \cup {b} : v \in cache}

(* The parent is the last popped block or the selected block one below.    *)
ParentInView(b) ==
  \/ Prev[b] = latestBlock
  \/ /\ selectedBlock[Height[b] - 1] # Nil
     /\ Prev[b] = selectedBlock[Height[b] - 1]

Replaced(b) ==
  \/ selectedBlock[Height[b]] = Nil
  \/ Outranks(b, selectedBlock[Height[b]])

(* Mutant: the replaced block's child stays selected.                      *)
KeepChild(selected, start) == selected

(***************************************************************************)
(* updateTreeView(start): its loop compares height with the bufferedHeight *)
(* it has just lowered to start, so it runs once and clears one height.    *)
(***************************************************************************)
updateTreeView(selected, start) == [selected EXCEPT ![start + 1] = Nil]

(* The window once b has been compared with the block at its height.       *)
Selection(b) ==
  IF Replaced(b)
  THEN updateTreeView([selectedBlock EXCEPT ![Height[b]] = b], Height[b])
  ELSE selectedBlock

(* Mutant: off by one, the pop comes a height late.                        *)
PopLate(b) == Height[b] - latestBlockHeight > MaxBufferSize + 1

MustPop(b) == Height[b] - latestBlockHeight > MaxBufferSize

(* GetPriorityLeaf(nowHeight), read by PackageNewBlock.                    *)
GetPriorityLeaf(nowHeight) ==
  LET candidates == {h \in Heights : /\ latestBlockHeight < h
                                     /\ h <= bufferedHeight
                                     /\ h < nowHeight
                                     /\ selectedBlock[h] # Nil}
  IN IF candidates = {} THEN latestBlock
     ELSE selectedBlock[CHOOSE h \in candidates :
                          \A g \in candidates : g <= h]

-----------------------------------------------------------------------------
(* NewBlockBuffer                                                          *)
Init ==
  /\ blockChan = <<>> /\ secondChan = <<>> /\ popChan = <<>>
  /\ selectedBlock = [h \in Heights |-> Nil]
  /\ knownBlocks = {} /\ processedBlocks = {}
  /\ latestBlock = Base
  /\ latestBlockHeight = Height[Base]
  /\ bufferedHeight = Height[Base]
  /\ updateLock = "free"
  /\ pc = [p \in Proc |-> "recv"]
  /\ cur = [p \in Proc |-> Nil]
  /\ consumed = Base
  /\ pending = Copies
  /\ accepted = {}
  /\ panicked = FALSE

(* AppendBlock, called for a block from the network, gossip or packaging.  *)
AppendBlock(b) ==
  /\ ~panicked
  /\ pending[b] > 0
  /\ Len(blockChan) < BlockQueueCap
  /\ pending' = [pending EXCEPT ![b] = @ - 1]
  /\ blockChan' = Append(blockChan, b)
  /\ UNCHANGED <<secondChan, popChan, view, knownBlocks, processedBlocks,
                 updateLock, pc, cur, consumed, accepted, panicked>>

(* Too low or known: dropped without the lock.                             *)
ProcessDrop ==
  /\ ~panicked
  /\ pc["process"] = "recv" /\ blockChan # <<>>
  /\ \/ Height[Head(blockChan)] <= latestBlockHeight
     \/ Head(blockChan) \in knownBlocks
  /\ blockChan' = Tail(blockChan)
  /\ UNCHANGED <<secondChan, popChan, view, knownBlocks, processedBlocks,
                 updateLock, pc, cur, consumed, pending, accepted, panicked>>

(* Mutant: the block is not recorded as known.                             *)
TakeUnrecorded ==
  /\ ~panicked
  /\ pc["process"] = "recv" /\ blockChan # <<>>
  /\ Height[Head(blockChan)] > latestBlockHeight
  /\ Head(blockChan) \notin knownBlocks
  /\ cur' = [cur EXCEPT !["process"] = Head(blockChan)]
  /\ blockChan' = Tail(blockChan)
  /\ pc' = [pc EXCEPT !["process"] = "lock"]
  /\ UNCHANGED <<secondChan, popChan, view, knownBlocks, processedBlocks,
                 updateLock, consumed, pending, accepted, panicked>>

ProcessTake ==
  /\ ~panicked
  /\ pc["process"] = "recv" /\ blockChan # <<>>
  /\ LET b == Head(blockChan) IN
       /\ Height[b] > latestBlockHeight
       /\ b \notin knownBlocks
       /\ knownBlocks' \in LruAdd(knownBlocks, b, KnownCap)
       /\ cur' = [cur EXCEPT !["process"] = b]
  /\ blockChan' = Tail(blockChan)
  /\ pc' = [pc EXCEPT !["process"] = "lock"]
  /\ UNCHANGED <<secondChan, popChan, view, processedBlocks, updateLock,
                 consumed, pending, accepted, panicked>>

(* The ticker of secondProcess is always ready again; only the order of    *)
(* the steps matters.                                                      *)
SecondDrop ==
  /\ ~panicked
  /\ pc["second"] = "recv" /\ secondChan # <<>>
  /\ Height[Head(secondChan)] <= latestBlockHeight
  /\ secondChan' = Tail(secondChan)
  /\ UNCHANGED <<blockChan, popChan, view, knownBlocks, processedBlocks,
                 updateLock, pc, cur, consumed, pending, accepted, panicked>>

SecondTake ==
  /\ ~panicked
  /\ pc["second"] = "recv" /\ secondChan # <<>>
  /\ Height[Head(secondChan)] > latestBlockHeight
  /\ cur' = [cur EXCEPT !["second"] = Head(secondChan)]
  /\ secondChan' = Tail(secondChan)
  /\ pc' = [pc EXCEPT !["second"] = "lock"]
  /\ UNCHANGED <<blockChan, popChan, view, knownBlocks, processedBlocks,
                 updateLock, consumed, pending, accepted, panicked>>

-----------------------------------------------------------------------------
(* What follows is the locked part of both goroutines, for goroutine p.    *)

AtLock(p) == ~panicked /\ pc[p] = "lock" /\ updateLock = "free"

Release(p) ==
  /\ pc' = [pc EXCEPT ![p] = "recv"]
  /\ cur' = [cur EXCEPT ![p] = Nil]

(* The parent was never processed: back to secondChan, with the lock held. *)
Orphan(p) ==
  /\ AtLock(p)
  /\ ~ParentInView(cur[p])
  /\ Prev[cur[p]] \notin processedBlocks
  /\ updateLock' = p
  /\ pc' = [pc EXCEPT ![p] = "requeue"]
  /\ UNCHANGED <<chans, view, knownBlocks, processedBlocks, cur, consumed,
                 pending, accepted, panicked>>

(* Mutant: the orphan is dropped.                                          *)
DropOrphan(p) ==
  /\ ~panicked
  /\ pc[p] = "requeue"
  /\ updateLock' = "free"
  /\ Release(p)
  /\ UNCHANGED <<chans, view, knownBlocks, processedBlocks, consumed,
                 pending, accepted, panicked>>

Requeue(p) ==
  /\ ~panicked
  /\ pc[p] = "requeue"
  /\ Len(secondChan) < SecondQueueCap
  /\ secondChan' = Append(secondChan, cur[p])
  /\ updateLock' = "free"
  /\ Release(p)
  /\ UNCHANGED <<blockChan, popChan, view, knownBlocks, processedBlocks,
                 consumed, pending, accepted, panicked>>

(* The parent was processed and is not in the view: a losing branch.       *)
LowPriority(p) ==
  /\ AtLock(p)
  /\ ~ParentInView(cur[p])
  /\ Prev[cur[p]] \in processedBlocks
  /\ processedBlocks' \in LruAdd(processedBlocks, cur[p], ProcessedCap)
  /\ Release(p)
  /\ UNCHANGED <<chans, view, knownBlocks, updateLock, consumed, pending,
                 accepted, panicked>>

(* VerifyBlockVDF fails after the block was marked processed.              *)
VdfReject(p) ==
  /\ AtLock(p)
  /\ ParentInView(cur[p])
  /\ cur[p] \in Rejectable
  /\ processedBlocks' \in LruAdd(processedBlocks, cur[p], ProcessedCap)
  /\ Release(p)
  /\ UNCHANGED <<chans, view, knownBlocks, updateLock, consumed, pending,
                 accepted, panicked>>

(* Selection and view update common to the three outcomes of acceptance.   *)
Select(p) ==
  /\ AtLock(p)
  /\ ParentInView(cur[p])
  /\ processedBlocks' \in LruAdd(processedBlocks, cur[p], ProcessedCap)
  /\ accepted' = accepted \cup {cur[p]}
  /\ updateLock' = p
  /\ bufferedHeight' = IF Replaced(cur[p]) THEN Height[cur[p]]
                       ELSE bufferedHeight
  /\ UNCHANGED <<chans, knownBlocks, cur, consumed, pending>>

AcceptNoPop(p) ==
  /\ Select(p)
  /\ ~MustPop(cur[p])
  /\ selectedBlock' = Selection(cur[p])
  /\ pc' = [pc EXCEPT ![p] = "seed"]
  /\ UNCHANGED <<latestBlock, latestBlockHeight, panicked>>

(* Mutant: pops nil instead of failing on it.                              *)
PopUnchecked(p) ==
  /\ Select(p)
  /\ MustPop(cur[p])
  /\ latestBlock' = Selection(cur[p])[latestBlockHeight + 1]
  /\ latestBlockHeight' = latestBlockHeight + 1
  /\ selectedBlock' = [Selection(cur[p]) EXCEPT ![latestBlockHeight] = Nil]
  /\ pc' = [pc EXCEPT ![p] = "send"]
  /\ UNCHANGED panicked

AcceptPop(p) ==
  /\ Select(p)
  /\ MustPop(cur[p])
  /\ LET selected == Selection(cur[p])[latestBlockHeight + 1] IN
       /\ selected # Nil
       /\ latestBlock' = selected
  /\ latestBlockHeight' = latestBlockHeight + 1
  /\ selectedBlock' = [Selection(cur[p]) EXCEPT ![latestBlockHeight] = Nil]
  /\ pc' = [pc EXCEPT ![p] = "send"]
  /\ UNCHANGED panicked

(* PopSelectedBlock dereferences nil: the whole process dies.              *)
PopPanic(p) ==
  /\ Select(p)
  /\ MustPop(cur[p])
  /\ Selection(cur[p])[latestBlockHeight + 1] = Nil
  /\ selectedBlock' = Selection(cur[p])
  /\ panicked' = TRUE
  /\ UNCHANGED <<latestBlock, latestBlockHeight, pc>>

(* Mutant: sends the block just accepted.                                  *)
SendAccepted(p) ==
  /\ ~panicked
  /\ pc[p] = "send"
  /\ Len(popChan) < PopQueueCap
  /\ popChan' = Append(popChan, cur[p])
  /\ pc' = [pc EXCEPT ![p] = "seed"]
  /\ UNCHANGED <<blockChan, secondChan, view, knownBlocks, processedBlocks,
                 updateLock, cur, consumed, pending, accepted, panicked>>

SendPop(p) ==
  /\ ~panicked
  /\ pc[p] = "send"
  /\ Len(popChan) < PopQueueCap
  /\ popChan' = Append(popChan, latestBlock)
  /\ pc' = [pc EXCEPT ![p] = "seed"]
  /\ UNCHANGED <<blockChan, secondChan, view, knownBlocks, processedBlocks,
                 updateLock, cur, consumed, pending, accepted, panicked>>

(* AppendNewSeed has returned; Unlock.                                     *)
AppendSeed(p) ==
  /\ ~panicked
  /\ pc[p] = "seed"
  /\ updateLock' = "free"
  /\ Release(p)
  /\ UNCHANGED <<chans, view, knownBlocks, processedBlocks, consumed,
                 pending, accepted, panicked>>

(* BlockProcessRoutine takes the next popped block (module BlockChain).    *)
ReceivePop ==
  /\ ~panicked
  /\ popChan # <<>>
  /\ consumed' = Head(popChan)
  /\ popChan' = Tail(popChan)
  /\ UNCHANGED <<blockChan, secondChan, view, knownBlocks, processedBlocks,
                 updateLock, pc, cur, pending, accepted, panicked>>

Locked(p) ==
  \/ Orphan(p) \/ Requeue(p) \/ LowPriority(p) \/ VdfReject(p)
  \/ AcceptNoPop(p) \/ AcceptPop(p) \/ PopPanic(p) \/ SendPop(p)
  \/ AppendSeed(p)

(* Nothing left to do: both goroutines wait on empty channels for ever.    *)
Idle ==
  /\ pending = [b \in Block |-> 0]
  /\ chans = <<<<>>, <<>>, <<>>>>
  /\ pc = [p \in Proc |-> "recv"]
  /\ UNCHANGED vars

Crashed == panicked /\ UNCHANGED vars

Next ==
  \/ \E b \in Block : AppendBlock(b)
  \/ ProcessDrop
  \/ ProcessTake
  \/ SecondDrop
  \/ SecondTake
  \/ \E p \in Proc : Locked(p)
  \/ ReceivePop
  \/ Idle
  \/ Crashed

(***************************************************************************)
(* Each goroutine keeps running; a goroutine waiting for updateLock gets   *)
(* it (Go's mutexes hand over to a waiter after a millisecond), hence the  *)
(* strong fairness of the steps that acquire it.                           *)
(***************************************************************************)
Fairness ==
  /\ WF_vars(ProcessDrop \/ ProcessTake)
  /\ WF_vars(SecondDrop \/ SecondTake)
  /\ \A p \in Proc : SF_vars(Locked(p))
  /\ WF_vars(ReceivePop)
  /\ \A b \in Block : WF_vars(AppendBlock(b))

Spec == Init /\ [][Next]_vars
FairSpec == Spec /\ Fairness

-----------------------------------------------------------------------------
(***************************************************************************)
(* The inductive invariant, as a conjunction of its parts.                 *)
(***************************************************************************)

(* A goroutine past Lock holds a block above height 0.                     *)
CurrentOK ==
  \A p \in Proc : pc[p] # "recv" => cur[p] \in Block /\ Height[cur[p]] > 0

(* A goroutine that blocks on a channel or on the calculator inside the    *)
(* critical section is the holder of updateLock: never both of them.       *)
LockHeld ==
  /\ \A p \in Proc : pc[p] \in {"requeue", "send", "seed"} => updateLock = p
  /\ panicked => updateLock # "free"

(* Every selected block sits at its own height, the last popped block too. *)
HeightsMatch ==
  /\ latestBlockHeight = Height[latestBlock]
  /\ \A h \in Heights : selectedBlock[h] # Nil => Height[selectedBlock[h]] = h

(* Nothing is selected at or below the last popped height except that      *)
(* block itself: the height test before Lock may be stale, and a block     *)
(* that passed it and lost the race to a pop must not re-enter the window. *)
NothingBelowLatest ==
  \A h \in Heights :
    /\ h < latestBlockHeight => selectedBlock[h] = Nil
    /\ h = latestBlockHeight => selectedBlock[h] \in {Nil, latestBlock}

(* Two selected blocks at neighbouring heights are parent and child, and   *)
(* the lowest one is a child of the last popped block: replacing a block   *)
(* never leaves its former child directly above the replacement.           *)
WindowLinked ==
  /\ \A h \in Heights :
       /\ h >= latestBlockHeight /\ h + 1 \in Heights
       /\ selectedBlock[h] # Nil /\ selectedBlock[h + 1] # Nil
       => Prev[selectedBlock[h + 1]] = selectedBlock[h]
  /\ selectedBlock[latestBlockHeight + 1] # Nil
       => Prev[selectedBlock[latestBlockHeight + 1]] = latestBlock

(* One pop per accepted block is enough: the window never holds a block    *)
(* more than MaxBufferSize above the last popped one.                      *)
WindowBounded ==
  ~panicked =>
    \A h \in Heights : selectedBlock[h] # Nil
                          => h <= latestBlockHeight + MaxBufferSize

(* bufferedHeight, from which GetPriorityLeaf starts and which a node      *)
(* announces to its peers, names a selected block above the last popped    *)
(* one, although replacements lower it and pops raise the floor.           *)
BufferedHeightSelected ==
  ~panicked =>
    \/ /\ bufferedHeight > latestBlockHeight
       /\ selectedBlock[bufferedHeight] # Nil
    \/ /\ bufferedHeight = latestBlockHeight
       /\ latestBlock = Base

IndInv ==
  /\ TypeOK
  /\ CurrentOK
  /\ LockHeld
  /\ HeightsMatch
  /\ NothingBelowLatest
  /\ WindowLinked
  /\ WindowBounded
  /\ BufferedHeightSelected

-----------------------------------------------------------------------------
(***************************************************************************)
(* The buffer implements PopStream: a block popped under the lock is       *)
(* unsent until SendPop finds room for it.                                 *)
(***************************************************************************)
Unsent == IF \E p \in Proc : pc[p] = "send" THEN latestBlock ELSE Nil
PS == INSTANCE PopStream WITH unsent <- Unsent

(* Every step is a step of PopStream or invisible to it: pops follow one   *)
(* branch, child by child, whichever goroutine pops and however the window *)
(* is rearranged above.                                                    *)
ImplementsPopStream == PS!StreamSpec

(* The last block the consumer took, popChan and the block being sent are  *)
(* one chain that ends in latestBlock.                                     *)
StreamIntact == PS!StreamLinked

Better(b, c) ==
  /\ Prev[b] = Prev[c]
  /\ \/ Txs[b] > Txs[c]
     \/ Txs[b] = Txs[c] /\ Timestamp[b] < Timestamp[c]

(* No sibling that was ever compared is better than the selected block of  *)
(* a height: the winner does not depend on which goroutine compared the    *)
(* siblings, in which order, and how often the window was rebuilt below.   *)
SelectedIsBest ==
  \A h \in Heights : h > latestBlockHeight /\ selectedBlock[h] # Nil =>
    \A b \in accepted : ~Better(b, selectedBlock[h])

(* A goroutine never waits for room in secondChan: the lock is released    *)
(* soon, as long as the queue can hold every block in flight.              *)
SecondQueueHasRoom ==
  \A p \in Proc : pc[p] = "requeue" => Len(secondChan) < SecondQueueCap

(* An orphan whose parent has been processed is decided, whatever happens  *)
(* around it: it is processed too, or the chain has grown past it, or the  *)
(* nil pop has ended the process.  (While the parent is missing, or came   *)
(* too late to be looked at, the orphan circulates between secondChan and  *)
(* secondProcess.)                                                         *)
OrphansResolved ==
  \A b \in Block :
    b \in knownBlocks /\ Prev[b] \in processedBlocks \cup {Base}
      ~> b \in processedBlocks \/ Height[b] <= latestBlockHeight \/ panicked

(* What core/buffer_test.go:151 expects of a pop: there is a block.        *)
PopNeverNil == ~panicked
=============================================================================
