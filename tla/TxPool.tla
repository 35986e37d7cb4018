-------------------------------- MODULE TxPool -------------------------------
(***************************************************************************)
(* The transaction pool (core/txpool.go) and the goroutines around it:     *)
(* the RPC handler and the UDP listener add transactions, the packaging    *)
(* routine moves them into a block, insertBlock removes those of a block   *)
(* that enters the chain.  The pool is a sync.Map and a counter that is    *)
(* not protected by any lock, so each access of either is a step of its    *)
(* own, and an increment is a load and a store.                            *)
(*                                                                         *)
(* A block is the set of its transactions.  A packaged block is stored     *)
(* later, or loses its fork; blocks of other nodes come as well.           *)
(***************************************************************************)
EXTENDS Integers, Sequences, FiniteSets

CONSTANTS
  Tx,              \* transactions
  MaxTxPackage,    \* maxTxPackageCount (10000)
  MaxTxPoolSize,   \* maxTxPoolSize (20480)
  QueueCap,        \* capacity of txQueue (10240)
  KnownCap,        \* entries of the knownTransaction cache
  Scenarios        \* bounds: <<RPC submissions of each transaction,
                   \* UDP receptions of each, blocks of other nodes>>

ASSUME PoolAssumption ==
  /\ Tx # {}
  /\ MaxTxPackage \in Nat \ {0} /\ QueueCap \in Nat
  /\ MaxTxPackage <= QueueCap
  /\ MaxTxPoolSize \in Nat /\ KnownCap \in Nat \ {0}
  /\ \A s \in Scenarios : /\ s[1] \in [Tx -> Nat] /\ s[2] \in [Tx -> Nat]
                           /\ s[3] \subseteq SUBSET Tx

Adder == {"rpc", "udp"}
Thread == Adder \cup {"package", "insert"}

VARIABLES
  txs, count,              \* the pool
  txQueue,                 \* hashes waiting to be packaged
  known,                   \* knownTransaction
  pc, cur, loaded,         \* each thread: step, transaction, count it read
  atStart, seen,           \* Range: the keys at its start, the visited ones
  idx, found, result,      \* Package: rounds, on the chain?, the new block
  block, todo,             \* insertBlock: the block, transactions to remove
  chain,                   \* transactions stored in the database
  inFlight,                \* packaged blocks that are not decided
  peerBlocks, submits, datagrams,
  packaged,                \* history: given to a block
  before                   \* history: the chain when Package began

pool == <<txs, count>>
threads == <<pc, cur, loaded>>
packaging == <<txQueue, atStart, seen, idx, found, result, before>>
inserting == <<block, todo, chain, inFlight, peerBlocks>>
adding == <<known, submits, datagrams>>
vars == <<pool, threads, packaging, inserting, adding, packaged>>

TypeOK ==
  /\ txs \subseteq Tx /\ count \in Int /\ chain \subseteq Tx
  /\ txQueue \in Seq(Tx) /\ Len(txQueue) <= MaxTxPackage
  /\ known \subseteq Tx /\ Cardinality(known) <= KnownCap
  /\ pc \in [Thread -> {"idle", "mark", "check", "store",
                        "range", "loop", "chain", "delete", "load", "write",
                        "append", "next"}]
  /\ cur \in [Thread -> Tx] /\ loaded \in [Thread -> Int]
  /\ result \in Seq(Tx) /\ Len(result) <= idx /\ idx \in 0..MaxTxPackage

AnyTx == CHOOSE t \in Tx : TRUE

Init ==
  /\ txs = {} /\ count = 0 /\ txQueue = <<>>
  /\ known = {}
  /\ pc = [x \in Thread |-> "idle"]
  /\ cur = [x \in Thread |-> AnyTx]
  /\ loaded = [x \in Thread |-> 0]
  /\ atStart = {} /\ seen = {} /\ idx = 0 /\ found = FALSE /\ result = <<>>
  /\ block = {} /\ todo = {} /\ chain = {} /\ inFlight = {}
  /\ \E s \in Scenarios :
       submits = s[1] /\ datagrams = s[2] /\ peerBlocks = s[3]
  /\ packaged = {} /\ before = {}

Goto(x, label) == pc' = [pc EXCEPT ![x] = label]
(* A local variable that is not needed any more has its initial value.     *)
Hold(x, t) == cur' = [cur EXCEPT ![x] = t]
Drop(x) == Hold(x, AnyTx)

-----------------------------------------------------------------------------
(* AddTransaction, from an RPC or from a datagram                          *)

SubmitTransaction(t) ==
  /\ pc["rpc"] = "idle" /\ submits[t] > 0
  /\ submits' = [submits EXCEPT ![t] = @ - 1]
  /\ Hold("rpc", t)
  /\ Goto("rpc", "mark")
  /\ UNCHANGED <<pool, loaded, packaging, inserting, known, datagrams,
                 packaged>>

(* Only a datagram is looked up in knownTransaction.                       *)
TransactionUDP(t) ==
  /\ pc["udp"] = "idle" /\ datagrams[t] > 0
  /\ datagrams' = [datagrams EXCEPT ![t] = @ - 1]
  /\ IF t \in known
       THEN UNCHANGED <<pc, cur>>
       ELSE Hold("udp", t) /\ Goto("udp", "mark")
  /\ UNCHANGED <<pool, loaded, packaging, inserting, known, submits,
                 packaged>>

(* The LRU cache drops some other entry when it is full.                   *)
LruAdd(S, t, cap) ==
  IF t \in S \/ Cardinality(S) < cap THEN {S \cup {t}}
  ELSE {(S \ {u}) \cup {t} : u \in S}

(* The send to txBroadcastQueue that follows only delays the next step:    *)
(* broadcastTransaction empties the queue into datagrams.                  *)
markTransaction(a) ==
  /\ pc[a] = "mark"
  /\ known' \in LruAdd(known, cur[a], KnownCap)
  /\ Goto(a, "check")
  /\ UNCHANGED <<pool, cur, loaded, packaging, inserting, submits, datagrams,
                 packaged>>

(* A full pool drops the transaction without telling anyone.               *)
AddCheck(a) ==
  /\ pc[a] = "check"
  /\ IF count > MaxTxPoolSize THEN Goto(a, "idle") /\ Drop(a)
     ELSE Goto(a, "store") /\ UNCHANGED cur
  /\ UNCHANGED <<pool, loaded, packaging, inserting, adding, packaged>>

AddStore(a) ==
  /\ pc[a] = "store"
  /\ txs' = txs \cup {cur[a]}
  /\ Goto(a, "load")
  /\ UNCHANGED <<count, cur, loaded, packaging, inserting, adding, packaged>>

(* pool.count++ and pool.count--: a load and a store.                      *)
CountLoad(x) ==
  /\ pc[x] = "load"
  /\ loaded' = [loaded EXCEPT ![x] = count]
  /\ Goto(x, "write")
  /\ UNCHANGED <<pool, cur, packaging, inserting, adding, packaged>>

CountStore(x) ==
  /\ pc[x] = "write"
  /\ count' = IF x \in Adder THEN loaded[x] + 1 ELSE loaded[x] - 1
  /\ Goto(x, CASE x \in Adder -> "idle"
               [] x = "package" -> "append"
               [] x = "insert" -> "next")
  /\ loaded' = [loaded EXCEPT ![x] = 0]
  /\ IF x = "package" THEN UNCHANGED cur ELSE Drop(x)
  /\ UNCHANGED <<txs, packaging, inserting, adding, packaged>>

-----------------------------------------------------------------------------
(* Package, in packageBlockRoutine                                         *)

PackageStart ==
  /\ pc["package"] = "idle"
  /\ atStart' = txs /\ seen' = {} /\ before' = chain
  /\ Goto("package", "range")
  /\ UNCHANGED <<pool, cur, loaded, txQueue, idx, found, result, inserting,
                 adding, packaged>>

(* Range takes no snapshot: it visits no key twice, and it may or may not  *)
(* see a key that comes or goes meanwhile.                                 *)
rangeFunc(t) ==
  /\ pc["package"] = "range"
  /\ t \in (atStart \cup txs) \ seen
  /\ Len(txQueue) < MaxTxPackage
  /\ txQueue' = Append(txQueue, t)
  /\ seen' = seen \cup {t}
  /\ UNCHANGED <<pool, threads, atStart, idx, found, result, before,
                 inserting, adding, packaged>>

RangeEnd ==
  /\ pc["package"] = "range"
  /\ Len(txQueue) >= MaxTxPackage \/ atStart \cap txs \subseteq seen
  /\ atStart' = {} /\ seen' = {}
  /\ Goto("package", "loop")
  /\ UNCHANGED <<pool, cur, loaded, txQueue, idx, found, result, before,
                 inserting, adding, packaged>>

(* One round: the next hash, and whether the pool still holds it.          *)
PackageNext ==
  /\ pc["package"] = "loop"
  /\ idx < MaxTxPackage /\ txQueue # <<>>
  /\ txQueue' = Tail(txQueue)
  /\ idx' = idx + 1
  /\ IF Head(txQueue) \in txs
       THEN Hold("package", Head(txQueue)) /\ Goto("package", "chain")
       ELSE UNCHANGED <<pc, cur>>
  /\ UNCHANGED <<pool, loaded, atStart, seen, found, result, before,
                 inserting, adding, packaged>>

(* Mutant: the chain is not asked.                                         *)
ChainUnasked(t) == FALSE
GetTransactionByHash(t) == t \in chain

PackageLookup ==
  /\ pc["package"] = "chain"
  /\ found' = GetTransactionByHash(cur["package"])
  /\ Goto("package", "delete")
  /\ UNCHANGED <<pool, cur, loaded, txQueue, atStart, seen, idx, result,
                 before, inserting, adding, packaged>>

PackageDelete ==
  /\ pc["package"] = "delete"
  /\ txs' = txs \ {cur["package"]}
  /\ Goto("package", "load")
  /\ UNCHANGED <<count, cur, loaded, packaging, inserting, adding, packaged>>

(* Mutant: the limit is tested once the transaction has left the pool.     *)
KeptBelowLimit == ~found /\ idx < MaxTxPackage
Kept == ~found

PackageAppend ==
  /\ pc["package"] = "append"
  /\ IF Kept THEN /\ result' = Append(result, cur["package"])
                  /\ packaged' = packaged \cup {cur["package"]}
     ELSE UNCHANGED <<result, packaged>>
  /\ found' = FALSE /\ Drop("package")
  /\ Goto("package", "loop")
  /\ UNCHANGED <<pool, loaded, txQueue, atStart, seen, idx, before,
                 inserting, adding>>

(* Mutant: one round fewer than the queue may hold.                        *)
LastRoundEarly == idx >= MaxTxPackage - 1 \/ txQueue = <<>>
LastRound == idx = MaxTxPackage \/ txQueue = <<>>

(* Mutant: the slice of the last call is used again.                       *)
NextResultReused == result
NextResult == <<>>

(* The block is appended to the buffer; an empty one changes nothing here. *)
PackageEnd ==
  /\ pc["package"] = "loop"
  /\ LastRound
  /\ inFlight' = inFlight \cup ({{result[i] : i \in 1..Len(result)}} \ {{}})
  /\ idx' = 0 /\ result' = NextResult /\ before' = {}
  /\ Goto("package", "idle")
  /\ UNCHANGED <<pool, cur, loaded, txQueue, atStart, seen, found,
                 block, todo, chain, peerBlocks, adding, packaged>>

-----------------------------------------------------------------------------
(* insertBlock, as far as the pool is concerned                            *)

InsertStart(b) ==
  /\ pc["insert"] = "idle"
  /\ b \in inFlight \cup peerBlocks
  /\ inFlight' = inFlight \ {b} /\ peerBlocks' = peerBlocks \ {b}
  /\ block' = b /\ todo' = b
  /\ Goto("insert", "next")
  /\ UNCHANGED <<pool, cur, loaded, packaging, chain, adding, packaged>>

(* A sibling was selected instead.                                         *)
BlockLost(b) ==
  /\ b \in inFlight
  /\ inFlight' = inFlight \ {b}
  /\ UNCHANGED <<pool, threads, packaging, block, todo, chain, peerBlocks,
                 adding, packaged>>

(* RemoveTx: the lookup, then the removal.                                 *)
RemoveTx(t) ==
  /\ pc["insert"] = "next" /\ t \in todo
  /\ todo' = todo \ {t}
  /\ IF t \in txs THEN Hold("insert", t) /\ Goto("insert", "delete")
     ELSE UNCHANGED <<pc, cur>>
  /\ UNCHANGED <<pool, loaded, packaging, block, chain, inFlight, peerBlocks,
                 adding, packaged>>

RemoveDelete ==
  /\ pc["insert"] = "delete"
  /\ txs' = txs \ {cur["insert"]}
  /\ Goto("insert", "load")
  /\ UNCHANGED <<count, cur, loaded, packaging, inserting, adding, packaged>>

BatchInsert ==
  /\ pc["insert"] = "next" /\ todo = {}
  /\ chain' = chain \cup block
  /\ block' = {}
  /\ Goto("insert", "idle")
  /\ UNCHANGED <<pool, cur, loaded, packaging, todo, inFlight,
                 peerBlocks, adding, packaged>>

-----------------------------------------------------------------------------
AddTransaction(a) ==
  markTransaction(a) \/ AddCheck(a) \/ AddStore(a)
Package ==
  \/ PackageStart \/ (\E t \in Tx : rangeFunc(t)) \/ RangeEnd
  \/ PackageNext \/ PackageLookup \/ PackageDelete \/ PackageAppend
  \/ PackageEnd
insertBlock == (\E t \in Tx : RemoveTx(t)) \/ RemoveDelete \/ BatchInsert

Next ==
  \/ \E t \in Tx : SubmitTransaction(t) \/ TransactionUDP(t)
  \/ \E a \in Adder : AddTransaction(a)
  \/ \E x \in Thread : CountLoad(x) \/ CountStore(x)
  \/ Package
  \/ \E b \in inFlight \cup peerBlocks : InsertStart(b) \/ BlockLost(b)
  \/ insertBlock

(* Every goroutine goes on with what it has begun, and the node is drawn   *)
(* again and again to package a block.                                     *)
Fairness ==
  /\ \A a \in Adder : WF_vars(AddTransaction(a))
  /\ \A x \in Thread : WF_vars(CountLoad(x) \/ CountStore(x))
  /\ WF_vars(Package)
  /\ WF_vars(insertBlock)

Spec == Init /\ [][Next]_vars
FairSpec == Spec /\ Fairness

-----------------------------------------------------------------------------
(* Package leaves no hash in txQueue, however the pool changes under it,   *)
(* so that rangeFunc, which runs inside Range, never blocks on the queue.  *)
QueueDrained == pc["package"] = "idle" => txQueue = <<>>

(* A block never holds a transaction twice, although the transaction may   *)
(* be added to the pool again while it is being packaged.                  *)
BlockDistinct ==
  \A i, j \in 1..Len(result) : result[i] = result[j] => i = j

(* The queue and the block hold each transaction once, round after round.  *)
PackagedOnce == QueueDrained /\ BlockDistinct

(* What was on the chain when Package began is not packaged again.         *)
StoredNotPackaged == \A i \in 1..Len(result) : result[i] \notin before

(* A transaction in the pool is eventually out of it, and in a block made  *)
(* here or in one that entered the chain: whatever the three goroutines do *)
(* to each other, none is left behind or dropped between them.             *)
TxDecided == \A t \in Tx : t \in txs ~> t \notin txs /\ t \in packaged \cup chain
=============================================================================
