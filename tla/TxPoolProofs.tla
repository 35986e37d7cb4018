----------------------------- MODULE TxPoolProofs ----------------------------
(***************************************************************************)
(* The transaction pool, for all transactions, limits and interleavings:   *)
(* Package empties its queue, and the block it makes holds no transaction  *)
(* twice and none that was on the chain when it began.                     *)
(***************************************************************************)
EXTENDS TxPool, SequenceTheorems, FiniteSetTheorems, TLAPS

(* Where Package is with the transaction of a round.                       *)
Before == {"chain"}
Decided == {"delete", "load", "write", "append"}
InRound == pc["package"] \in Before \cup Decided

PoolType ==
  /\ pc \in [Thread -> {"idle", "mark", "check", "store",
                        "range", "loop", "chain", "delete", "load", "write",
                        "append", "next"}]
  /\ pc["package"] \in {"idle", "range", "loop"} \cup Before \cup Decided
  /\ cur \in [Thread -> Tx]
  /\ txs \subseteq Tx /\ txQueue \in Seq(Tx) /\ result \in Seq(Tx)
  /\ idx \in Nat /\ found \in BOOLEAN

(***************************************************************************)
(* The rounds done and the hashes left are at most MaxTxPackage, so that   *)
(* the last round leaves no hash behind, and the next Package starts with  *)
(* an empty queue.                                                         *)
(***************************************************************************)
RoundsInv ==
  /\ idx + Len(txQueue) <= MaxTxPackage
  /\ pc["package"] \in {"idle", "range"} => idx = 0 /\ result = <<>>
  /\ pc["package"] = "idle" => txQueue = <<>>

(* A hash is either left in the queue, or the round's own, or in result.   *)
DistinctInv ==
  /\ \A i, j \in 1..Len(txQueue) : txQueue[i] = txQueue[j] => i = j
  /\ pc["package"] = "range" => \A i \in 1..Len(txQueue) : txQueue[i] \in seen
  /\ \A i \in 1..Len(result) : \A j \in 1..Len(txQueue) : result[i] # txQueue[j]
  /\ \A i, j \in 1..Len(result) : result[i] = result[j] => i = j
  /\ InRound =>
       /\ \A i \in 1..Len(result) : result[i] # cur["package"]
       /\ \A i \in 1..Len(txQueue) : txQueue[i] # cur["package"]

(* The chain only grows while Package runs.                                *)
ChainInv ==
  /\ before \subseteq chain
  /\ pc["package"] \in Decided /\ ~found => cur["package"] \notin before
  /\ \A i \in 1..Len(result) : result[i] \notin before

PInv == PoolType /\ RoundsInv /\ DistinctInv /\ ChainInv

packageVars == <<pc["package"], cur["package"], txQueue, seen, idx, found,
                 result, before>>

(***************************************************************************)
(* The other threads touch nothing of Package's, except the pool itself    *)
(* and the chain, to which they add.                                       *)
(***************************************************************************)
LEMMA OthersKeep ==
  ASSUME PInv, PoolType', UNCHANGED packageVars, chain \subseteq chain'
  PROVE  PInv'
  BY DEF PInv, RoundsInv, DistinctInv, ChainInv, InRound, packageVars

LEMMA ThreadFacts ==
  /\ "package" \in Thread /\ "insert" \in Thread /\ Adder \subseteq Thread
  /\ Thread = {"rpc", "udp", "package", "insert"} /\ Adder = {"rpc", "udp"}
  /\ AnyTx \in Tx
  BY PoolAssumption DEF Thread, Adder, AnyTx

LEMMA InitPInv ==
  ASSUME Init
  PROVE  PInv
  <1>1. PoolType
    <2>1. <<>> \in Seq(Tx)
      OBVIOUS
    <2>2. cur \in [Thread -> Tx] /\ pc["package"] = "idle"
      BY ThreadFacts DEF Init
    <2> QED
      BY <2>1, <2>2 DEF Init, PoolType
  <1>2. RoundsInv
    BY PoolAssumption DEF Init, RoundsInv
  <1>3. DistinctInv
    BY ThreadFacts DEF Init, DistinctInv, InRound, Before, Decided
  <1>4. ChainInv
    BY ThreadFacts DEF Init, ChainInv, Decided
  <1> QED
    BY <1>1, <1>2, <1>3, <1>4 DEF PInv

(* RPC handler and UDP listener.                                           *)
LEMMA AddersKeep ==
  ASSUME PInv,
         \/ \E t \in Tx : SubmitTransaction(t) \/ TransactionUDP(t)
         \/ \E a \in Adder : AddTransaction(a)
  PROVE  PInv'
  <1> USE ThreadFacts DEF PInv, PoolType, Goto, Hold, Drop
  <1>1. ASSUME NEW t \in Tx, SubmitTransaction(t) \/ TransactionUDP(t)
        PROVE  PInv'
    <2>1. PoolType'
      BY <1>1 DEF SubmitTransaction, TransactionUDP, pool, packaging
    <2>2. UNCHANGED packageVars
      BY <1>1 DEF SubmitTransaction, TransactionUDP, packaging, packageVars
    <2>3. chain' = chain
      BY <1>1 DEF SubmitTransaction, TransactionUDP, inserting
    <2> QED
      BY <2>1, <2>2, <2>3, OthersKeep
  <1>2. ASSUME NEW a \in Adder, AddTransaction(a)
        PROVE  PInv'
    <2>1. PoolType'
      BY <1>2 DEF AddTransaction, markTransaction, AddCheck, AddStore, pool,
           packaging
    <2>2. UNCHANGED packageVars
      BY <1>2 DEF AddTransaction, markTransaction, AddCheck, AddStore,
           packaging, packageVars
    <2>3. chain' = chain
      BY <1>2 DEF AddTransaction, markTransaction, AddCheck, AddStore, inserting
    <2> QED
      BY <2>1, <2>2, <2>3, OthersKeep
  <1> QED
    BY <1>1, <1>2

(* insertBlock and the fate of packaged blocks.                            *)
LEMMA InsertKeeps ==
  ASSUME PInv,
         \/ \E b \in inFlight \cup peerBlocks : InsertStart(b) \/ BlockLost(b)
         \/ insertBlock
  PROVE  PInv'
  <1> USE ThreadFacts DEF PInv, PoolType, Goto, Hold, Drop
  <1>1. ASSUME NEW b, InsertStart(b) \/ BlockLost(b)
        PROVE  PInv'
    <2>1. PoolType' /\ UNCHANGED packageVars /\ chain' = chain
      BY <1>1 DEF InsertStart, BlockLost, pool, threads, packaging, packageVars
    <2> QED
      BY <2>1, OthersKeep
  <1>2. ASSUME insertBlock
        PROVE  PInv'
    <2>1. PoolType'
      BY <1>2 DEF insertBlock, RemoveTx, RemoveDelete, BatchInsert, pool,
           packaging
    <2>2. UNCHANGED packageVars
      BY <1>2 DEF insertBlock, RemoveTx, RemoveDelete, BatchInsert, packaging,
           packageVars
    <2>3. chain \subseteq chain'
      BY <1>2 DEF insertBlock, RemoveTx, RemoveDelete, BatchInsert, inserting
    <2> QED
      BY <2>1, <2>2, <2>3, OthersKeep
  <1> QED
    BY <1>1, <1>2

(* The counter: only where Package stands with its round changes.          *)
LEMMA CountKeeps ==
  ASSUME PInv, NEW x \in Thread, CountLoad(x) \/ CountStore(x)
  PROVE  PInv'
  <1> USE ThreadFacts DEF PInv, PoolType
  <1>1. /\ UNCHANGED <<txs, packaging, chain>>
        /\ cur'["package"] = cur["package"] /\ cur' \in [Thread -> Tx]
    BY DEF CountLoad, CountStore, Drop, Hold, inserting, pool
  <1>2. /\ PoolType'
        /\ \/ pc'["package"] = pc["package"]
           \/ pc["package"] \in Decided /\ pc'["package"] \in Decided
    BY <1>1 DEF CountLoad, CountStore, Goto, Decided, packaging
  <1>3. InRound' = InRound /\ (pc'["package"] \in Decided <=> pc["package"] \in Decided)
    BY <1>2 DEF InRound, Decided, Before
  <1>4. RoundsInv'
    BY <1>1, <1>2 DEF RoundsInv, packaging, Decided
  <1>5. DistinctInv'
    BY <1>1, <1>2, <1>3 DEF DistinctInv, packaging, Decided
  <1>6. ChainInv'
    BY <1>1, <1>3 DEF ChainInv, packaging
  <1> QED
    BY <1>2, <1>4, <1>5, <1>6

(***************************************************************************)
(* Package, step by step.                                                  *)
(***************************************************************************)
LEMMA PackageType ==
  ASSUME PInv, Package
  PROVE  PoolType'
  <1> USE ThreadFacts DEF PInv, PoolType, Goto, Hold, Drop, Before, Decided
  <1>1. CASE PackageStart
    BY <1>1 DEF PackageStart, pool
  <1>2. ASSUME NEW t \in Tx, rangeFunc(t)
        PROVE  PoolType'
    <2>1. txQueue' \in Seq(Tx)
      BY <1>2 DEF rangeFunc
    <2> QED
      BY <1>2, <2>1 DEF rangeFunc, pool, threads
  <1>3. CASE RangeEnd
    BY <1>3 DEF RangeEnd, pool
  <1>4. CASE PackageNext
    <2>1. Head(txQueue) \in Tx /\ Tail(txQueue) \in Seq(Tx)
      BY <1>4 DEF PackageNext
    <2> QED
      BY <1>4, <2>1 DEF PackageNext, pool
  <1>5. CASE PackageLookup
    <2>1. found' \in BOOLEAN
      BY <1>5 DEF PackageLookup, GetTransactionByHash
    <2> QED
      BY <1>5, <2>1 DEF PackageLookup, pool
  <1>6. CASE PackageDelete
    BY <1>6 DEF PackageDelete, packaging
  <1>7. CASE PackageAppend
    <2>1. result' \in Seq(Tx)
      <3>1. cur["package"] \in Tx
        OBVIOUS
      <3>2. result' = result \/ result' = Append(result, cur["package"])
        BY <1>7 DEF PackageAppend
      <3>3. Append(result, cur["package"]) \in Seq(Tx)
        BY <3>1, AppendProperties
      <3> QED
        BY <3>2, <3>3
    <2> QED
      BY <1>7, <2>1 DEF PackageAppend, pool
  <1>8. CASE PackageEnd
    <2>1. result' \in Seq(Tx)
      BY <1>8 DEF PackageEnd, NextResult
    <2> QED
      BY <1>8, <2>1 DEF PackageEnd, pool
  <1> QED
    BY <1>1, <1>2, <1>3, <1>4, <1>5, <1>6, <1>7, <1>8 DEF Package

LEMMA PackageKeeps ==
  ASSUME PInv, Package
  PROVE  PInv'
  <1> USE ThreadFacts DEF PInv, Goto, Hold, Drop
  <1>0. /\ pc \in [Thread -> {"idle", "mark", "check", "store",
                              "range", "loop", "chain", "delete", "load",
                              "write", "append", "next"}]
        /\ cur \in [Thread -> Tx]
        /\ txQueue \in Seq(Tx) /\ Len(txQueue) \in Nat
        /\ result \in Seq(Tx) /\ Len(result) \in Nat
        /\ idx \in Nat /\ MaxTxPackage \in Nat
    BY PoolAssumption DEF PoolType
  <1>a. PoolType'
    BY PackageType
  <1>1. CASE PackageStart
    <2>1. /\ pc["package"] = "idle" /\ pc'["package"] = "range"
          /\ txQueue = <<>> /\ before' = chain
          /\ UNCHANGED <<cur, txQueue, idx, result, chain>>
      BY <1>0, <1>1 DEF PackageStart, RoundsInv, inserting
    <2>2. RoundsInv' /\ result = <<>>
      BY <2>1 DEF RoundsInv
    <2>3. DistinctInv'
      BY <2>1, <2>2 DEF DistinctInv, InRound, Before, Decided
    <2>4. ChainInv'
      BY <2>1, <2>2 DEF ChainInv, Decided
    <2> QED
      BY <1>a, <2>2, <2>3, <2>4
  <1>2. ASSUME NEW t \in Tx, rangeFunc(t)
        PROVE  PInv'
    <2>1. /\ pc["package"] = "range" /\ t \notin seen
          /\ Len(txQueue) < MaxTxPackage
          /\ txQueue' = Append(txQueue, t) /\ seen' = seen \cup {t}
          /\ UNCHANGED <<pc, cur, idx, found, result, before, chain>>
      BY <1>2 DEF rangeFunc, threads, inserting
    <2>2. /\ Len(txQueue') = Len(txQueue) + 1
          /\ txQueue'[Len(txQueue) + 1] = t
          /\ \A i \in 1..Len(txQueue) : txQueue'[i] = txQueue[i]
      BY <1>0, <2>1
    <2>3. RoundsInv' /\ result = <<>>
      BY <1>0, <2>1, <2>2 DEF RoundsInv
    <2>4. \A i \in 1..Len(txQueue) : txQueue'[i] \in seen
      BY <2>1, <2>2 DEF DistinctInv
    <2>5. \A i, j \in 1..Len(txQueue') : txQueue'[i] = txQueue'[j] => i = j
      BY <1>0, <2>1, <2>2, <2>4 DEF DistinctInv
    <2>6. \A i \in 1..Len(txQueue') : txQueue'[i] \in seen'
      BY <1>0, <2>1, <2>2, <2>4
    <2>7. DistinctInv'
      BY <2>1, <2>3, <2>5, <2>6 DEF DistinctInv, InRound, Before, Decided
    <2>8. ChainInv'
      BY <2>1 DEF ChainInv
    <2> QED
      BY <1>a, <2>3, <2>7, <2>8
  <1>3. CASE RangeEnd
    <2>1. /\ pc["package"] = "range" /\ pc'["package"] = "loop"
          /\ UNCHANGED <<cur, txQueue, idx, found, result, before, chain>>
      BY <1>0, <1>3 DEF RangeEnd, inserting
    <2> QED
      BY <1>a, <2>1 DEF RoundsInv, DistinctInv, ChainInv, InRound, Before, Decided
  <1>4. CASE PackageNext
    <2>1. /\ pc["package"] = "loop" /\ txQueue # <<>>
          /\ txQueue' = Tail(txQueue) /\ idx' = idx + 1
          /\ UNCHANGED <<found, result, before, chain>>
      BY <1>4 DEF PackageNext, inserting
    <2>2. /\ Len(txQueue) >= 1 /\ Head(txQueue) = txQueue[1]
          /\ Len(txQueue') = Len(txQueue) - 1
          /\ \A i \in 1..Len(txQueue') : txQueue'[i] = txQueue[i + 1]
      BY <1>0, <2>1
    <2>3. /\ 1 \in 1..Len(txQueue)
          /\ \A i \in 1..Len(txQueue') : i + 1 \in 1..Len(txQueue) /\ i + 1 # 1
      BY <1>0, <2>2
    <2>4. \/ pc'["package"] = "chain" /\ cur'["package"] = txQueue[1]
          \/ pc'["package"] = "loop" /\ cur' = cur
      BY <1>0, <1>4, <2>2 DEF PackageNext
    <2>5. RoundsInv'
      BY <1>0, <2>1, <2>2, <2>4 DEF RoundsInv
    <2>6. \A i \in 1..Len(txQueue') : txQueue'[i] # txQueue[1]
      BY <2>2, <2>3 DEF DistinctInv
    <2>7. \A i \in 1..Len(result) : result[i] # txQueue[1]
      BY <2>3 DEF DistinctInv
    <2>8. \A i \in 1..Len(result) : \A j \in 1..Len(txQueue') :
            result[i] # txQueue'[j]
      BY <2>2, <2>3 DEF DistinctInv
    <2>9. \A i, j \in 1..Len(txQueue') : txQueue'[i] = txQueue'[j] => i = j
      <3> SUFFICES ASSUME NEW i \in 1..Len(txQueue'), NEW j \in 1..Len(txQueue'),
                          txQueue'[i] = txQueue'[j]
                   PROVE  i = j
        OBVIOUS
      <3>1. i + 1 = j + 1
        BY <2>2, <2>3 DEF DistinctInv
      <3> QED
        BY <3>1
    <2>10. DistinctInv'
      BY <2>1, <2>4, <2>6, <2>7, <2>8, <2>9
         DEF DistinctInv, InRound, Before, Decided
    <2>11. ChainInv'
      BY <2>1, <2>4 DEF ChainInv, Decided
    <2> QED
      BY <1>a, <2>5, <2>10, <2>11
  <1>5. CASE PackageLookup
    <2>1. /\ pc["package"] = "chain" /\ pc'["package"] = "delete"
          /\ ~found' => cur["package"] \notin chain
          /\ UNCHANGED <<cur, txQueue, idx, result, before, chain>>
      BY <1>0, <1>5 DEF PackageLookup, GetTransactionByHash, inserting
    <2>2. ~found' => cur["package"] \notin before
      BY <2>1 DEF ChainInv
    <2> QED
      BY <1>a, <2>1, <2>2
         DEF RoundsInv, DistinctInv, ChainInv, InRound, Before, Decided
  <1>6. CASE PackageDelete
    <2>1. /\ pc["package"] = "delete" /\ pc'["package"] = "load"
          /\ UNCHANGED <<cur, txQueue, idx, found, result, before, chain>>
      BY <1>0, <1>6 DEF PackageDelete, packaging, inserting
    <2> QED
      BY <1>a, <2>1
         DEF RoundsInv, DistinctInv, ChainInv, InRound, Before, Decided
  <1>7. CASE PackageAppend
    <2>1. /\ pc["package"] = "append" /\ pc'["package"] = "loop"
          /\ \/ result' = result
             \/ ~found /\ result' = Append(result, cur["package"])
          /\ UNCHANGED <<txQueue, idx, before, chain>>
      BY <1>0, <1>7 DEF PackageAppend, Kept, inserting
    <2>2. /\ \A i \in 1..Len(result) : result[i] # cur["package"]
          /\ \A i \in 1..Len(txQueue) : txQueue[i] # cur["package"]
          /\ ~found => cur["package"] \notin before
      BY <2>1 DEF DistinctInv, ChainInv, InRound, Decided
    <2>3. RoundsInv'
      BY <2>1 DEF RoundsInv
    <2>4. CASE result' = result
      BY <1>a, <2>1, <2>3, <2>4
         DEF DistinctInv, ChainInv, InRound, Before, Decided
    <2>5. CASE ~found /\ result' = Append(result, cur["package"])
      <3>1. /\ Len(result') = Len(result) + 1
            /\ result'[Len(result) + 1] = cur["package"]
            /\ \A i \in 1..Len(result) : result'[i] = result[i]
        BY <1>0, <2>5
      <3>2. \A i, j \in 1..Len(result') : result'[i] = result'[j] => i = j
        BY <1>0, <2>2, <3>1 DEF DistinctInv
      <3>3. \A i \in 1..Len(result') : \A j \in 1..Len(txQueue) :
              result'[i] # txQueue[j]
        BY <1>0, <2>2, <3>1 DEF DistinctInv
      <3>4. \A i \in 1..Len(result') : result'[i] \notin before
        BY <1>0, <2>2, <2>5, <3>1 DEF ChainInv
      <3>5. DistinctInv'
        BY <2>1, <3>2, <3>3 DEF DistinctInv, InRound, Before, Decided
      <3>6. ChainInv'
        BY <2>1, <3>4 DEF ChainInv, Decided
      <3> QED
        BY <1>a, <2>3, <3>5, <3>6
    <2> QED
      BY <2>1, <2>4, <2>5
  <1>8. CASE PackageEnd
    <2>1. /\ pc["package"] = "loop" /\ pc'["package"] = "idle"
          /\ idx = MaxTxPackage \/ txQueue = <<>>
          /\ idx' = 0 /\ result' = <<>> /\ before' = {}
          /\ UNCHANGED <<cur, txQueue, found, chain>>
      BY <1>0, <1>8 DEF PackageEnd, LastRound, NextResult
    <2>2. txQueue = <<>>
      BY <1>0, <2>1 DEF RoundsInv
    <2>3. RoundsInv'
      BY <1>0, <2>1, <2>2 DEF RoundsInv
    <2>4. DistinctInv' /\ ChainInv'
      BY <2>1, <2>2 DEF DistinctInv, ChainInv, InRound, Before, Decided
    <2> QED
      BY <1>a, <2>3, <2>4
  <1> QED
    BY <1>1, <1>2, <1>3, <1>4, <1>5, <1>6, <1>7, <1>8 DEF Package

-----------------------------------------------------------------------------
LEMMA Inductive == Spec => []PInv
  <1>1. Init => PInv
    BY InitPInv
  <1>2. PInv /\ [Next]_vars => PInv'
    <2> SUFFICES ASSUME PInv, [Next]_vars
                 PROVE  PInv'
      OBVIOUS
    <2>1. CASE UNCHANGED vars
      BY <2>1, OthersKeep DEF PInv, PoolType, vars, pool, threads, packaging,
           inserting, packageVars
    <2> QED
      BY <2>1, AddersKeep, CountKeeps, PackageKeeps, InsertKeeps DEF Next
  <1> QED
    BY <1>1, <1>2, PTL DEF Spec

(***************************************************************************)
(* Add may put a transaction back into the pool while it is packaged, and  *)
(* Range may or may not see what comes and goes: still no transaction is   *)
(* twice in a block, and no hash stays in the queue for the next call.     *)
(***************************************************************************)
THEOREM Once == Spec => []PackagedOnce
  <1>1. PInv => PackagedOnce
    BY DEF PInv, RoundsInv, DistinctInv, PackagedOnce, QueueDrained,
           BlockDistinct
  <1> QED
    BY <1>1, Inductive, PTL

(* GetTransactionByHash is asked before the transaction is appended, while *)
(* insertBlock goes on: what was on the chain at the start is left out.    *)
THEOREM NoStored == Spec => []StoredNotPackaged
  <1>1. PInv => StoredNotPackaged
    BY DEF PInv, ChainInv, StoredNotPackaged
  <1> QED
    BY <1>1, Inductive, PTL

-----------------------------------------------------------------------------
(***************************************************************************)
(* What the types need beyond PInv: the cache stays finite and within its  *)
(* capacity, blocks hold transactions, and every entry of the result had a *)
(* round of its own.                                                       *)
(***************************************************************************)
CacheInv == /\ known \subseteq Tx
            /\ IsFiniteSet(known) /\ Cardinality(known) <= KnownCap

CountInv == count \in Int /\ loaded \in [Thread -> Int]

BlocksInv ==
  /\ chain \subseteq Tx /\ block \subseteq Tx
  /\ inFlight \subseteq SUBSET Tx /\ peerBlocks \subseteq SUBSET Tx

LengthInv == /\ Len(result) <= idx
             /\ InRound => Len(result) < idx

TInv == PInv /\ CacheInv /\ CountInv /\ BlocksInv /\ LengthInv

LEMMA LruFacts ==
  ASSUME NEW S \in SUBSET Tx, IsFiniteSet(S), Cardinality(S) <= KnownCap,
         NEW t \in Tx, NEW R \in LruAdd(S, t, KnownCap)
  PROVE  R \subseteq Tx /\ IsFiniteSet(R) /\ Cardinality(R) <= KnownCap
  <1>1. Cardinality(S) \in Nat /\ KnownCap \in Nat \ {0}
    BY FS_CardinalityType, PoolAssumption
  <1>2. CASE t \in S
    <2>1. R = S
      BY <1>2 DEF LruAdd
    <2> QED
      BY <2>1
  <1>3. CASE t \notin S /\ Cardinality(S) < KnownCap
    <2>1. R = S \cup {t}
      BY <1>3 DEF LruAdd
    <2>2. IsFiniteSet(R) /\ Cardinality(R) = Cardinality(S) + 1
      BY <1>3, <2>1, FS_AddElement
    <2> QED
      BY <1>1, <1>3, <2>1, <2>2
  <1>4. CASE t \notin S /\ ~(Cardinality(S) < KnownCap)
    <2>1. PICK u \in S : R = (S \ {u}) \cup {t}
      BY <1>4 DEF LruAdd
    <2>2. /\ IsFiniteSet(S \ {u})
          /\ Cardinality(S \ {u}) = Cardinality(S) - 1
      BY FS_RemoveElement
    <2>3. t \notin S \ {u}
      BY <1>4
    <2>4. IsFiniteSet(R) /\ Cardinality(R) = Cardinality(S \ {u}) + 1
      BY <2>1, <2>2, <2>3, FS_AddElement
    <2> QED
      BY <1>1, <2>1, <2>2, <2>4
  <1> QED
    BY <1>2, <1>3, <1>4

LEMMA InitTInv ==
  ASSUME Init
  PROVE  TInv
  <1>1. PInv
    BY InitPInv
  <1>2. CacheInv
    <2>1. IsFiniteSet({}) /\ Cardinality({}) = 0
      BY FS_EmptySet
    <2> QED
      BY <2>1, PoolAssumption DEF Init, CacheInv
  <1>3. CountInv
    BY DEF Init, CountInv
  <1>4. BlocksInv
    BY PoolAssumption DEF Init, BlocksInv
  <1>5. LengthInv
    <2>1. Len(result) = 0 /\ idx = 0 /\ pc["package"] = "idle"
      BY ThreadFacts DEF Init
    <2> QED
      BY <2>1 DEF LengthInv, InRound, Before, Decided
  <1> QED
    BY <1>1, <1>2, <1>3, <1>4, <1>5 DEF TInv

(* RPC handler and UDP listener: only the mark touches the cache.          *)
LEMMA AddersType ==
  ASSUME TInv,
         \/ \E t \in Tx : SubmitTransaction(t) \/ TransactionUDP(t)
         \/ \E a \in Adder : AddTransaction(a)
  PROVE  CacheInv' /\ CountInv' /\ BlocksInv' /\ LengthInv'
  <1>1. UNCHANGED <<count, loaded, idx, result, chain, block, inFlight,
                    peerBlocks, pc["package"]>>
    <2> USE ThreadFacts DEF TInv, PInv, PoolType, Goto, pool, packaging,
            inserting
    <2>1. ASSUME NEW t \in Tx, SubmitTransaction(t) \/ TransactionUDP(t)
          PROVE  UNCHANGED <<count, loaded, idx, result, chain, block, inFlight,
                             peerBlocks, pc["package"]>>
      BY <2>1 DEF SubmitTransaction, TransactionUDP
    <2>2. ASSUME NEW a \in Adder, AddTransaction(a)
          PROVE  UNCHANGED <<count, loaded, idx, result, chain, block, inFlight,
                             peerBlocks, pc["package"]>>
      BY <2>2 DEF AddTransaction, markTransaction, AddCheck, AddStore
    <2> QED
      BY <2>1, <2>2
  <1>2. CacheInv'
    <2>1. \/ known' = known
          \/ \E a \in Adder : known' \in LruAdd(known, cur[a], KnownCap)
      BY DEF SubmitTransaction, TransactionUDP, AddTransaction,
             markTransaction, AddCheck, AddStore, adding
    <2>2. \A a \in Adder : cur[a] \in Tx
      BY ThreadFacts DEF TInv, PInv, PoolType
    <2> QED
      BY <2>1, <2>2, LruFacts DEF TInv, CacheInv
  <1> QED
    BY <1>1, <1>2
       DEF TInv, CountInv, BlocksInv, LengthInv, InRound

(* insertBlock and the fate of blocks: the chain takes up what they hold.  *)
LEMMA InsertType ==
  ASSUME TInv,
         \/ \E b \in inFlight \cup peerBlocks : InsertStart(b) \/ BlockLost(b)
         \/ insertBlock
  PROVE  CacheInv' /\ CountInv' /\ BlocksInv' /\ LengthInv'
  <1>1. UNCHANGED <<count, loaded, idx, result, known, pc["package"]>>
    <2> USE ThreadFacts DEF TInv, PInv, PoolType, Goto, pool, packaging, adding
    <2>1. ASSUME NEW b, InsertStart(b) \/ BlockLost(b)
          PROVE  UNCHANGED <<count, loaded, idx, result, known, pc["package"]>>
      BY <2>1 DEF InsertStart, BlockLost, threads
    <2>2. ASSUME insertBlock
          PROVE  UNCHANGED <<count, loaded, idx, result, known, pc["package"]>>
      BY <2>2 DEF insertBlock, RemoveTx, RemoveDelete, BatchInsert
    <2> QED
      BY <2>1, <2>2
  <1>2. BlocksInv'
    <2>1. ASSUME NEW b \in inFlight \cup peerBlocks,
                 InsertStart(b) \/ BlockLost(b)
          PROVE  BlocksInv'
      BY <2>1 DEF TInv, BlocksInv, InsertStart, BlockLost
    <2>2. ASSUME insertBlock
          PROVE  BlocksInv'
      BY <2>2 DEF TInv, BlocksInv, insertBlock, RemoveTx, RemoveDelete,
                  BatchInsert, inserting
    <2> QED
      BY <2>1, <2>2
  <1> QED
    BY <1>1, <1>2 DEF TInv, CacheInv, CountInv, LengthInv, InRound

LEMMA CountType ==
  ASSUME TInv, NEW x \in Thread, CountLoad(x) \/ CountStore(x)
  PROVE  CacheInv' /\ CountInv' /\ BlocksInv' /\ LengthInv'
  <1>1. CountInv'
    <2>1. count \in Int /\ loaded[x] \in Int
      BY DEF TInv, CountInv
    <2> QED
      BY <2>1 DEF TInv, CountInv, CountLoad, CountStore, pool
  <1>2. UNCHANGED <<packaging, inserting, adding>>
    BY DEF CountLoad, CountStore
  <1>3. InRound' => InRound
    BY ThreadFacts DEF TInv, PInv, PoolType, InRound, Before, Decided,
                       CountLoad, CountStore, Goto
  <1> QED
    BY <1>1, <1>2, <1>3 DEF TInv, CacheInv, BlocksInv, LengthInv, packaging,
                            inserting, adding

LEMMA PackageLengths ==
  ASSUME TInv, Package
  PROVE  LengthInv'
  <1> USE ThreadFacts DEF TInv, LengthInv, InRound, Before, Decided, Goto
  <1>0. /\ pc \in [Thread -> {"idle", "mark", "check", "store",
                              "range", "loop", "chain", "delete", "load",
                              "write", "append", "next"}]
        /\ result \in Seq(Tx) /\ Len(result) \in Nat /\ idx \in Nat
        /\ cur["package"] \in Tx
    BY DEF PInv, PoolType
  <1>1. CASE PackageStart \/ RangeEnd \/ PackageLookup \/ PackageDelete
    BY <1>0, <1>1 DEF PackageStart, RangeEnd, PackageLookup, PackageDelete,
                      packaging
  <1>2. ASSUME NEW t \in Tx, rangeFunc(t)
        PROVE  LengthInv'
    BY <1>0, <1>2 DEF rangeFunc, threads
  <1>3. CASE PackageNext
    BY <1>0, <1>3 DEF PackageNext
  <1>4. CASE PackageAppend
    <2>1. Len(result) < idx /\ idx' = idx /\ pc'["package"] = "loop"
      BY <1>0, <1>4 DEF PackageAppend
    <2>2. Len(result') \in {Len(result), Len(result) + 1}
      BY <1>0, <1>4 DEF PackageAppend
    <2> QED
      BY <1>0, <2>1, <2>2
  <1>5. CASE PackageEnd
    <2>1. result' = <<>> /\ idx' = 0 /\ pc'["package"] = "idle"
      BY <1>0, <1>5 DEF PackageEnd, NextResult
    <2> QED
      BY <2>1
  <1> QED
    BY <1>1, <1>2, <1>3, <1>4, <1>5 DEF Package

LEMMA PackageKeepsType ==
  ASSUME TInv, Package
  PROVE  CacheInv' /\ CountInv' /\ BlocksInv' /\ LengthInv'
  <1>1. UNCHANGED <<known, count, loaded, chain, block, peerBlocks>>
    BY DEF Package, PackageStart, rangeFunc, RangeEnd, PackageNext,
           PackageLookup, PackageDelete, PackageAppend, PackageEnd, pool,
           threads, inserting, adding
  <1>2. inFlight' \subseteq SUBSET Tx
    <2>1. CASE PackageEnd
      <3>1. {result[i] : i \in 1..Len(result)} \subseteq Tx
        BY DEF TInv, PInv, PoolType
      <3> QED
        BY <2>1, <3>1 DEF PackageEnd, TInv, BlocksInv
    <2>2. CASE ~PackageEnd
      BY <2>2 DEF TInv, BlocksInv, Package, PackageStart, rangeFunc, RangeEnd,
           PackageNext, PackageLookup, PackageDelete, PackageAppend, inserting
    <2> QED
      BY <2>1, <2>2
  <1>3. LengthInv'
    BY PackageLengths
  <1> QED
    BY <1>1, <1>2, <1>3 DEF TInv, CacheInv, CountInv, BlocksInv

(* Whatever interleaves: the cache of known transactions keeps within its  *)
(* capacity, the queue and the block within MaxTxPackage, and the counter, *)
(* which loses updates, is still a number.                                 *)
THEOREM PoolTypeCorrect == Spec => []TypeOK
  <1>1. Init => TInv
    BY InitTInv
  <1>2. TInv /\ [Next]_vars => TInv'
    <2> SUFFICES ASSUME TInv, [Next]_vars
                 PROVE  TInv'
      OBVIOUS
    <2>1. PInv'
      <3>1. CASE UNCHANGED vars
        BY <3>1, OthersKeep DEF TInv, PInv, PoolType, vars, pool, threads,
             packaging, inserting, packageVars
      <3> QED
        BY <3>1, AddersKeep, CountKeeps, PackageKeeps, InsertKeeps
           DEF TInv, Next
    <2>2. CASE UNCHANGED vars
      BY <2>1, <2>2 DEF TInv, CacheInv, CountInv, BlocksInv, LengthInv, InRound,
           vars, pool, threads, packaging, inserting, adding
    <2> QED
      BY <2>1, <2>2, AddersType, CountType, PackageKeepsType, InsertType
         DEF TInv, Next
  <1>3. TInv => TypeOK
    BY PoolAssumption DEF TInv, PInv, PoolType, RoundsInv, CacheInv, CountInv,
         BlocksInv, LengthInv, TypeOK
  <1> QED
    BY <1>1, <1>2, <1>3, PTL DEF Spec
=============================================================================
