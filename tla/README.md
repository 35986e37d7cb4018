# go-norn in TLA+

go-norn is a block chain node in Go. Consensus nodes are drawn by a VRF over a
seed that a VDF advances; each node keeps the newest blocks in a buffer until
they are deep enough to be stored, and stores them in LevelDB together with a
small key/value store that transactions write to. This project models the parts
of the node in which goroutines, channels, locks, crashes and messages decide
whether the chain stays a chain, and the bytes in which transactions and blocks
travel between nodes; it checks them with TLC and proves with TLAPS the central
invariants of each of them, for every size of their queues, sets and trees.

`PROJECT.json` maps every definition to the lines it models, and lists the runs,
the mutants, the hazards, the findings and the theorems.

## The system

| Part | State | Operations | Hard about it | Correct when |
|---|---|---|---|---|
| Block buffer `core/buffer.go` | window of selected blocks, three channels, two LRU caches, latest block | AppendBlock, Process, secondProcess, PopSelectedBlock, updateTreeView, GetPriorityLeaf | two goroutines that block on channels with the lock held; orphans; replacement of a branch | pops are one chain, the best sibling wins, the window is linked and bounded, orphans are decided |
| VDF calculator `crypto/calculator.go` | seed, proof, previous seed, four channels, changed, changeLock | run, AppendNewSeed, VerifyBlockVDF, GetSeedParams | a pair split over two channels, a lock held while sending, interrupts | seeds advance one step at a time, pairs stay pairs, an accepted seed is taken |
| Chain store `core/blockchain.go` | LevelDB, latest block and height, LRU caches, genesis parameters | insertBlock, AppendBlockTask, InsertBlock, NewGenesisBlock, GetLatestBlock, restart | several inserters, check-then-act, a crash between memory, tasks and the write | the stored chain only grows by children, tasks are sent once in order, popped blocks are stored |
| Block syncer `node/block_syncer.go` | three heights, block map, request times, status, peer marks | run, statusMsgRoutine, blockProcessRoutine, handlers, SetSynced | unordered answers, silent peers, peers that join late, status changes from two sides | blocks are handed over in order, every height is fetched |
| P2P manager `node/manager.go` | three tables of streams, known blocks and transactions, broadcast queues | packageBlockRoutine, gossipBlockSubscribe, HandleStream, Discover, AddTransaction, Synced, StatusMessage | streams that stop and stay in the tables, routines that return or are started late, full queues | the tables agree, stopped nodes are dialled again, own blocks are published, blocks are heard, transactions get on |
| Transaction pool `core/txpool.go` | transaction map, counter, queue | Add, Package, RemoveTx | four goroutines, no lock, a load and a store per count | no transaction twice in a block, stored again, left behind or dropped |
| Data processor `core/data.go` | key/value entries, task channel | setData, appendData | full channels between three goroutines, repeated tasks after a crash, two formats | entries are what the chain makes of them |
| Event router `pubsub/` | topics, connection slots, event channel | HandleConnect, Process, Publish | clients that leave or stall, back-pressure to the chain | subscribers miss nothing, slots and counter agree, no stall |
| Time syncer `node/time_syncer.go` | delta, status, confirmations | syncRoutine, ProcessSyncRequest, ProcessSyncRespond | late answers to requests stamped before an adjustment | the offset is applied once, the node gets synced |
| Stream peer `p2p/peer.go`, `node/peer.go` | queues, stop flag, running handlers | readLoop, writeLoop, Send, Handle, sendStatus | full queues at both ends, errors that are dropped | the two ends never wait for each other, a failure is noticed |
| Serialisation `common/common_km.go`, `p2p/message_km.go`, `utils/` | none | one writer, one viewer and a pair of functions for each type | two tables of offsets for each type, slices behind each other, cut messages | what was written is read |
| Transactions `common/transaction.go`, `rpc/`, `cmd/sender` | none | Verify, SendTransactionWithData, GetTransaction... | one writer used twice, a datagram that is cut, a place stamped into a signed body | Verify accepts what was signed, the chain serves what was stored |
| VRF `crypto/vrf.go` | none | VRFCalculate, VRFVerify and three checks | two random numbers for one draw, numbers as bytes without leading zeros | all nodes agree on who was drawn |
| Merkle tree `core/merkle.go` | none | BuildMerkleTree | odd sizes | the root tells whether a transaction was replaced |

How they interact: the syncer, the gossip routine, the handlers and the packaging
routine call `AppendBlockTask`, which inserts a genesis block in the caller's
goroutine and puts any other block into the buffer's `blockChan`. The buffer asks
the calculator (`VerifyBlockVDF`), pops blocks into `bufferChan` and appends the
new seed. `BlockProcessRoutine` takes the popped blocks and runs `insertBlock`,
which removes transactions from the pool, sends data tasks to the data processor
and writes one batch to LevelDB; the data processor publishes events. A genesis
block creates the buffer and the calculator. Peers ask each other for status and
blocks; a node is synced when its stored height reaches the buffered height its
peers announced.

A transaction is built by a client or by the RPC server, enters a node by UDP or
RPC (`AddTransaction`), is sent on by UDP, packaged, stored with its block and
served by RPC.

## Modules

| Module | Role |
|---|---|
| `BlockBuffer` | the buffer, its two goroutines and channels |
| `PopStream` | what the buffer promises its consumer |
| `BlockBufferProofs` | the theorems about `BlockBuffer` |
| `Calculator`, `CalculatorProofs` | the VDF calculator with its appenders and GetSeedParams |
| `BlockChain` | insertBlock in three goroutines, over a database that survives crashes; its buffers are those of `PopStream` |
| `Ledger` | what the chain store promises: a chain that grows by children |
| `BlockChainProofs` | `BlockChain` implements `Ledger`, its types under every fault, the order of its data tasks |
| `BlockSyncer` | the syncer with its peers and its own chain reduced to heights |
| `StreamManager` | the streams of a node and the three tables that name them |
| `P2PManager` | the manager's routines, on top of `StreamManager` |
| `TxPool`, `TxPoolProofs` | the pool with the goroutines that add, package and remove |
| `DataProcessor` | the key/value store between insertBlock and the event router, with its clients |
| `DataProcessorProofs` | the theorems about `DataProcessor` |
| `TimeSyncer` | the time syncer as a function from one answer to the next state |
| `PeerStream` | two nodes on one stream: loops, queues, handlers, with `TimeSyncer` |
| `PeerProofs` | the theorems about `P2PManager` and about `PeerStream` |
| `Codec` | karmem's writer and reader, and the layout of every type |
| `Crypto` | hashes, keys and the VRF over a small cyclic group |
| `Merkle` | BuildMerkleTree |
| `Transactions` | how a transaction is built and verified |
| `Wire` | the life of a transaction and of a block, byte for byte; composes the four above |
| `NetworkProofs` | the theorems about what goes from peer to peer: `BlockSyncer`, `Crypto`, `Codec` and `Wire` |
| `ServingProofs` | what the RPC server serves and the data processor gets, along the runs of `Wire` |
| `MCBlockBuffer`, `MCBlockChain`, `MCBlockSyncer`, `MCTxPool`, `MCDataProcessor`, `MCPeerStream`, `MCP2PManager`, `MCWire` | block trees, scenarios and networks for TLC (`Calculator` needs none) |

Conventions. A variable has the name of the Go field where there is one. An
action is the stretch of code between two points at which another goroutine can
act on the same state: a channel operation, a lock, a database access. `pc`
variables name the point. Channels are sequences with a capacity; a send is
disabled while the channel is full. The LRU caches are sets with a capacity in
which any entry may be the victim, a superset of least recently used. Operators
whose comment begins with *Mutant* are not used by the specifications: each is a
plausible error in the definition that follows it, and `PROJECT.json` names the
property that must fail when it is put in place.

### BlockBuffer

`Process` and `secondProcess` are the two members of `Proc`. `ProcessDrop`/`ProcessTake`
(`SecondDrop`/`SecondTake`) are the receive with the checks made before
`updateLock`; the height test in them may be stale by the time of `AtLock`. Under
the lock a block is put (back) into the second queue (`Orphan`, then `Requeue`,
which may wait for room), dropped as a child of a block that lost
(`LowPriority`), refused by the calculator (`VdfReject`) or selected
(`AcceptNoPop`, `AcceptPop`). A pop sends on `popChan` with the lock held
(`SendPop`), and `AppendSeed` releases it. `PopPanic` is the nil dereference in
`PopSelectedBlock`: the goroutine is gone and the lock stays taken. The network
delivers each block `Copies[b]` times in any order; a rejection by the VDF is a
nondeterministic verdict on the blocks in `Rejectable`.

Left out because the program never reads them: `bufferFull`, `blockMark`,
`latestBlockHash`.

### Calculator

A seed is the number of VDF steps from the genesis seed, and a proof is named
after the seed it came with, so `VDF(s) = s + 1` and a torn pair is visible. The
lock is a writer and a set of readers. `Appender` has the insertion of the genesis
block and the buffer (whose `updateLock` admits one caller). `calculate` is
interruptible at every round: `Interrupt` when it sees `changed`, `Finish` at any
time. `Restarted` starts from a database instead of a genesis block. Seed 0, which
a restarted node packages, is among the blocks checked.

### BlockChain

`Inserter` is the set of goroutines that run `insertBlock`: the routine behind
`bufferChan`, a caller of `AppendBlockTask`, and the goroutine of `cmd/norn` that
makes a genesis block. The steps are the existence and parent checks, the creation
of the buffer for a genesis block, the height guard under `latestLock` with the
update of memory, one step for each data task, and the batch write. `buffers` holds
every buffer that was created: `createBlockBuffer` replaces the current one but
the goroutines of the old one go on. `ReadNil`, `ReadDb`, `ReadSet` are the
`GetLatestBlock` call that found no latest block, of whichever goroutine. `Crash`
keeps the database only and runs `NewBlockchain`. `fault` is chosen once: in one
behaviour the node crashes, in another the batch write and the encodings fail, in
a third a `GetLatestBlock` is late; the faults are studied one by one because each
disturbs other properties. The height cache beside the block cache is not modelled
apart: the two are written together.

### BlockSyncer

Blocks are heights, because the peers of a scenario agree on one chain. Times are
abstracted to the set `recent`; `IntervalPassed` is the end of
`requestBlockInterval`. `peerReqTime` is never updated by the code, so its test
always passes and is left out. The peer side is `PeerStatus` (StatusMessage) and
`PeerRespond` (handleSyncGetBlocksMsg), silent when it does not have the block.
The mark follows the request within one step: the answer takes a round trip, the
mark an instruction. The buffer of the node and of its peers holds back `Lag`
heights, as `BlockBuffer` shows. A peer's own chain grows from `InitEnd` to `FinalEnd`, so a
peer may join without blocks; those in `MayStop` may go away.

### StreamManager and P2PManager

`HandleStream` and `CheckAndCreateStream` hold `peerSetLock` for their whole run and
are single steps. A stream is its place in `peerSet`, which never shrinks
(`removePeerIfStopped` has no caller); `peers` names one stream for each node and
`syncPeers` is the block syncer's list, from which `DropStopped` takes those that
stopped. `P2PManager` adds the goroutines: the packaging routine (`Package`,
`AppendOwn`, `EnqueueOwn`), the reader of the block topic with its returns
(`ReadKnown`, `ReadZero`) and drops (`ReadEarly`, `ReadRejected`), the two callers of
`AddTransaction` in three steps (mark, queue, pool) and the two broadcast routines,
which only `Synced` starts. These log a failure and go on with the next block or
neighbour, so the node's state is the same after it: `published` counts the blocks handed to
`blockTopic.Publish`, whether it takes them or not, and `sent` has the transactions that
neighbours were drawn for, whether a datagram reaches them or not. The block and time syncer appear by their status:
it may change while a stream works, or at any time on the genesis node. `Plans`
lists what other nodes, clients and the network do.

### TxPool

`Thread` has the two goroutines that add (an RPC call and the UDP listener), the
packaging routine and insertBlock. Every access of the `sync.Map` and of the
counter is a step, so `CountLoad` and `CountStore` lose updates as `count++` does.
`rangeFunc` may or may not see a key that comes or goes while `Range` runs. The
steps of `Package` are the lookup in the pool (`PackageNext`), the lookup on the
chain (`PackageLookup`), the deletion, the count and the append. A block is the
set of its transactions: it waits in `inFlight` until it enters the chain
(`InsertStart` ... `BatchInsert`) or loses its fork (`BlockLost`). The send to
`txBroadcastQueue` only delays the goroutine that adds and is left out; so is the
transaction's verification, which keeps no state.

### DataProcessor

Three goroutines joined by `taskChannel` and `publishChan`: insertBlock
(`SendTask` for each command of a block, then `BatchInsert`), the data processor
(`Run`, `setData`, `appendData`, `AppendError`, `AppendEvent`) and the event router
(`Process`, then `Publish` or `PublishFails` for one slot after the other). Values
are texts, maps or arrays of maps, since `appendData` tells these apart.
`HandleConnect` needs the router's lock for writing, which `Process` holds for
reading while it publishes. A client may leave, in which case a write to it may
still succeed or fail, or stop to read, in which case the write waits. `Crash`
keeps the database and sends the tasks of the block that was not stored again.

### TimeSyncer and PeerStream

`ProcessSyncRespond` is a function of the syncer and of an answer, which is known
by two differences of logic clocks. `PeerStream` stamps requests and answers
where the code reads the clock. Each end of the stream has a send queue
(`Send` waits for room), a `writeLoop`, a receive queue and `Handle`, which starts
one goroutine for each message (the bag `handlers`); handlers send answers through
the same queue. After `Disconnect` a write is lost in the buffered writer
(`WriteLost`, the error of Flush is dropped) or fails and sets `stopped`.

### Codec, Crypto, Merkle, Transactions and Wire

These are pure algorithms, on sequences of bytes. For each karmem type `Codec` has
the writer's slots and the viewer's slots separately, with the offsets of the
generated code, because that they agree is what is checked. `Crypto` replaces the
curve by a cyclic group of prime order, a point by its logarithm, SHA-256 by a
small mixing function and ECDSA by a tag of key and digest; `VRFCalculate`,
`VRFVerify` and the checks are the code's equations over these. `Merkle` runs the
loop as it is, null nodes included. `Transactions` has the two builders and
`Verify`, which writes a body twice with one writer. `Wire` sends transactions of
clients through RPC or a datagram of `udpBufferSize` bytes into the pool, packages
them if `VRFCheckLocalConsensus` agrees, gossips the block, stores the batch
(block, indices, each transaction with its place) and reads it back as the RPC
server does. Its hops are single steps; their interleaving is the matter of the
other modules.

## Runs

| Run | Shows |
|---|---|
| `buffer` | type, linked and bounded window, room in the second queue, the best sibling wins in every order, refinement of `PopStream`; orphans with a processed parent are decided, while the calculator may reject a block |
| `calc` | waiting seeds are ordered and pairs stay pairs (`ChannelsAgree`), the seed advances by single steps; an accepted seed is published |
| `chain` | with a crash: refinement of `Ledger` with rival genesis blocks, restarted buffers and eviction, and every popped block is decided; with a crash or a failing disk: data tasks once and in order; with any fault: types |
| `sync` | blocks are handed over without gaps, every announced height is fetched, with a peer that joins late and may leave |
| `manager` | the stream tables agree, a stopped node is dialled again, own blocks are handed to `Publish`, verified blocks are heard, transactions reach the pool and neighbours are drawn for them |
| `tx_pool` | Package empties its queue and packages nothing twice (`PackagedOnce`) and nothing stored before, every transaction is packaged or stored |
| `data` | entries follow the chain, subscribers miss nothing while slots and counter agree (`SubscribersServed`), the chain is stored unless a client stalls |
| `peers` | both ends answer in spite of full queues and the node gets time-synced (`RequestsServed`), the offset is applied once, a failed transport is noticed |
| `wire` | what is written is read (`RoundTrip`), `Verify` accepts exactly what was signed and the RPC server serves what was stored (`ServedAsSigned`), all nodes agree on who was drawn (`ElectionAgreed`), and which transactions the Merkle root covers (`MerkleFirstHalf`) |

Every property has a mutant in `PROJECT.json`: a plausible error in one definition
that makes TLC report that property violated under the run's own configuration.

Violations, each a disagreement between the code and what a comment, a test or the
wiki says of it:

| Run | The code |
|---|---|
| `buffer_panic` | pops a height that a replacement cleared and dereferences nil |
| `calc_restart` | never appends a seed after a restart |
| `sync_missed` | misses the target height because it tests for equality |

### Further disagreements

These were met while modelling; the definitions are in the modules, and the change
named here makes TLC show the counterexample. They are in no run because no line of
the repository promises the opposite as plainly as in the three above, or because
the code's own constants make them rare.

| Module, property | How | What happens |
|---|---|---|
| `BlockBuffer` `SecondQueueHasRoom` | `SecondQueueCap` 4 | secondProcess waits for room in the queue it alone empties, with the lock held |
| `Calculator` `SeedTaken` | `ChanCap` 1, or `ResultCap` 1 | AppendNewSeed waits for room with the lock `run` needs; or `run` waits because nobody packages |
| `Calculator` `InterruptRaised` | `Calc.cfg` | a duplicate seed that was queued first clears `changed` |
| `Calculator` `ParamsMatch` | `Calc.cfg` | GetSeedParams returns a seed with the proof of another: `run` publishes under a read lock |
| `BlockChain` `LatestKept` | `Chain.cfg`, the fault `reader` | GetLatestBlock writes an old latest block over a newer one |
| `BlockChain` `BufferOnChain` | `Chain.cfg` with `MaxCrashes` 0 | the buffer is replaced for a genesis block that is then refused |
| `BlockSyncer` `SyncedStays` | `Sync.cfg` | statusMsgRoutine falls back from synced |
| `BlockSyncer` `HeightsFetched` | `MayStop` with `p` instead of `q` | a peer asked for a block before it had it stays marked and is not asked again, not even when it is the last one left |
| `DataProcessor` `MapsWrapped` | `Data.cfg` | `set` publishes a map as an array but stores it bare; appends to it fail |
| `DataProcessor` `EntriesFollowChain` | without `crashes = 0` | commands of a block are applied again after a crash |
| `TxPool` | count compared with the size of the pool | lost updates and repeated adds let the counter drift |
| `PeerStream` `ClockAgrees` | `availableThreshold` 10 | a stale answer below the threshold is applied a second time |

Facts of the models that need no property, because the code leaves no doubt:

- *Stream.* After `WriteFails` nothing takes from the send queue, so those who go
  on sending to a stopped peer (`syncRoutine` does not ask `Stopped`) wait for ever;
  an error of `readLoop` tells nobody. A node that is not time-synced answers time
  requests too: the check is commented out.
- *Streams of a node.* The limit for incoming streams is tested against `peerSet`
  and the one for outgoing streams against `peers`, so `peerSet` can grow past
  `streamLimit`, and one node can have two working streams. Streams that stopped are
  counted for good: once `streamLimit` nodes have been connected, a node that loses
  all its streams dials nobody any more.
- *Gossip.* `gossipBlockSubscribe` returns on a block it knows (its own copy of a
  block that another node publishes again) and on one of height 0, and the node
  hears no more blocks. `BlockHeard` is about topics without these.
- *Transactions.* `AddTransaction` waits for `txBroadcastQueue`, whose reader starts
  with the first `Synced`: a full queue holds up the UDP listener and every RPC
  submission of a node that is not synced yet. A failing `PackageNewBlock` loses the
  transactions that `Package` took from the pool.
- *Datagrams.* A transaction longer than `udpBufferSize` is cut, still decodes, is
  marked known under the hash of the whole one, pooled without `Verify`, packaged
  and stored; if only the signature is cut its data command is carried out.
- *Codec.* An empty viewer (`_Null`) returns for a slice what its header happens to
  point at; `Garbage` stands for it.
- *Merkle tree.* The loop over a level ends at half of it, so the root depends on the
  first half of a block's transactions only, rounded up.
- *RPC.* `GetTransactionByHash` serves the transaction with its place, which its
  hash does not cover, so that it no longer verifies;
  `GetTransactionByBlockNumberAndIndex` serves it without. `GetBlockByHash` logs an
  error and goes on with a nil block. The timestamp in a reply for a block is the time
  of the reply.

### Bounds

- *Buffer.* A branch longer than the window against a better root and a better tip,
  so that replacements happen at the bottom and at the top; one block comes twice.
  Channels of one place make every send meet a full channel; `SecondQueueCap` 5 is
  the boundary at which the second queue has room. `KnownCap` and `ProcessedCap` hold
  every block here; the proofs cover every capacity. `buffer_panic` takes the shortest
  replacement that leads to the nil.
- *Calculator.* Seeds up to `MaxSeed`, `MaxBlocks` blocks with a right or a wrong
  proof: repeated, stale, early.
- *Chain.* Three inserters, two genesis blocks and one crash give every pair of
  steps of insertBlock in either order with a crash in between; `CacheCap` 2
  evicts. With a failing disk or a late reader two inserters meet.
- *Syncer.* A peer at height 2, one that gets its chain late and may leave, `Lag`
  1; two peers are the fewest with one that cannot serve a height.
- *Manager.* Two nodes against a `streamLimit` of 2 and up to five streams, of which
  any may stop; queues of one place, caches that forget; a topic with a forged, a
  repeated and a genesis block; two transactions, one of them from both sides.
- *Pool.* `MaxTxPackage` 2 and `MaxTxPoolSize` 1 put the pool at both limits with
  two transactions, `KnownCap` 1 forgets every other one; one scenario repeats a
  transaction while it is packaged, the other has it in a foreign block.
- *Data.* Channels of one place, six commands in two blocks, three clients for two
  slots, one crash.
- *Peers.* Queues of one place at both ends, four status requests against two time
  requests under way, `confirmThreshold` 2, a skew of 5 (odd, to meet the rounding)
  with `availableThreshold` 2: the first half offset is above the threshold.
- *Wire.* `udpBufferSize` 400 instead of 1024, with requests that fit, lose their
  signature or lose their data as well; two transactions and two blocks. Layouts are
  checked with slices of 0 to 3 bytes, trees with 1 to 9 leaves, elections with every
  key and every random number of a curve of order 13. `ConsensusFloor` is 400 of 1000,
  so that draws are won and lost; the code's bound is 0.0, which every draw exceeds. The
  cases that have no weight on the real curve are left out: `r` = 0, a digest that
  is 0 modulo the order, and in the statement about foreign outputs and keys `s` = 0.
  `VRFVerify` is modelled for values that encode a point; the nil coordinates of
  another value, and what marshals a sum at infinity, are not.

`CHECK_DEADLOCK FALSE` is set where the scenario ends: all blocks delivered, all
offers used, the node synced, the stream broken, all transactions spread.

### Fairness

Goroutines that can run do run (weak fairness of each routine). A goroutine
waiting for `updateLock` or `changeLock`, or to send on a channel that others send
on too, gets its turn in the end (strong fairness): Go's mutexes hand over to
waiters that starve, a waiting writer holds up new readers, and a channel serves
its senders in their order. Tickers fire again, streams to live peers deliver.
`TxPool` assumes that the node is drawn to package again and again, which is what
TxDecided is about; `Calculator` and `P2PManager` assume nothing of packaging. In
`StreamManager` the ticker of `Discover` finds a node that stays reachable again and
again, so the dial is weakly fair; `Redialled` promises nothing of a node that
comes and goes. `P2PManager` does not assume that the node gets synced. Nothing is assumed
of gossip, of crashes, of clients, of peers growing or leaving or of a transport
failing.

## Proofs

Each proof module extends its component's module. Each argument is: an inductive
invariant, a lemma for its initial state, one for each action or group of actions,
one that puts them together over `Next`, and the theorem.

| Theorem | States |
|---|---|
| `BlockBufferProofs` `TypeCorrect`, `LinkedWindow`, `WindowAboveLatest`, `BoundedWindow` | `TypeOK`, `WindowLinked`, `NothingBelowLatest`, `WindowBounded` |
| `BlockBufferProofs` `Refinement`, `ChainDelivered` | `BlockBuffer` implements `PopStream`; the popped blocks are a chain |
| `CalculatorProofs` `TypeCorrect`, `ChannelsInStep`, `SingleSteps` | `TypeOK`, `ChannelsAgree`, `SeedAdvances` |
| `BlockBufferProofs` `BestSelected`, `OrphansHaveRoom` | `SelectedIsBest`, `SecondQueueHasRoom`, if no block is looked at twice |
| `BlockChainProofs` `ChainOnlyGrows` | `BlockChain` implements `Ledger` |
| `BlockChainProofs` `ChainTypeCorrect`, `TasksInOrder` | `TypeOK`, `TasksOrdered` |
| `NetworkProofs` `SyncTypeCorrect`, `InHeightOrder` | `TypeOK` of `BlockSyncer`, `HandedOver` |
| `TxPoolProofs` `PoolTypeCorrect`, `Once`, `NoStored` | `TypeOK`, `PackagedOnce`, `StoredNotPackaged` |
| `PeerProofs` `ManagerTypeCorrect`, `StreamTables` | `ManagerTypeOK`, `TablesAgree` |
| `DataProcessorProofs` `DataTypeCorrect`, `CommandsInTurn`, `Served` | `TypeOK`, `TurnInv`, `SubscribersServed` |
| `DataProcessorProofs` `EntriesInOrder` | `EntriesFollowChain` |
| `PeerProofs` `StreamTypeCorrect`, `ClocksAgree` | `TypeOK`, `ClockAgrees` if a stale answer is told from a fresh one |
| `NetworkProofs` `ElectionsAgree`, `ProofBinds` | completeness of the VRF; one proof (s, t) passes with one output, one key and one message |
| `NetworkProofs` `MessagesReadAsWritten`, `BlocksReadAsWritten` | for every type of message: what is written is read |
| `NetworkProofs` `WireTyped`, `ElectedEverywhere` | `WireInv`, `ElectionAgreed` |
| `NetworkProofs` `LayoutsReadAsWritten`, `ReadAsPackaged` | `AllLayoutsAgree`; `RoundTrip` if different blocks have different digests |
| `NetworkProofs` `RootCoversFirstHalf`, `RootsCoverFirstHalf` | the Merkle root over any hashes; `MerkleFirstHalf` if different nodes have different digests |
| `NetworkProofs` `VerifyExact` | what `Verify` accepts |
| `ServingProofs` `ServedWhenSigned` | `ServedAsSigned` if different texts have different digests |

*Buffer.* For every block tree with heights that count up from the parent and every
positive capacity. `IndInv` is the conjunction of the type, of what a goroutine past
the lock holds (`CurrentOK`, `LockHeld`) and of the shape of the window
(`HeightsMatch`, `NothingBelowLatest`, `WindowLinked`, `WindowBounded`,
`BufferedHeightSelected`). None of the window properties is inductive alone. A block
is accepted only if its parent is the latest block or is selected one below it; with
`HeightsMatch` and `NothingBelowLatest` that puts it above the latest block even when
its height test was stale (`AcceptableHeight`), and with `WindowBounded` at most one
above the window, so that one pop restores the bound. A replacement clears the next
height, which keeps neighbours linked (`SelectionWindow`), and a pop raises the floor
to a child of the old one (`PopChild`). The refinement needs that only one goroutine
can be sending (`OneSender`, from `LockHeld`).

*The best sibling.* `SelectedIsBest` and `SecondQueueHasRoom` need to know where a block
has been. `OnceInv` says that every block is in one place at most: still to be
delivered, in a channel, in a goroutine's hands, or decided (`OnePlace`, `Spent`).
`BestInv` has what a selection leaves behind: `NoneBetter`, the property itself over the
blocks that were accepted, `BestAbove`, that the window goes up along the best children,
and `AcceptedOK`, that what is selected was accepted. `RoomInv` counts: the orphans that
wait are blocks that are not children of the base, and once the latest block has moved,
two blocks are out of the channel for good. The hypothesis `TakenOnce` says that
`knownBlocks` forgets no block, or that the network repeats none. It is needed: with a
cache of one hash and repeated deliveries TLC violates `SelectedIsBest`. A block that
comes again ties with itself, `updateTreeView` clears its better child above it, and the
worse child is selected next. `RoomForOrphans` is the room the second channel has to have; the
code's 1024 places are such a bound and no guarantee.

*Calculator.* For any number of blocks and any room in the channels. A seed and its
proof travel through different channels, so `ChannelsAgree` holds only together with
a count of who owes what: `PairInv` says that the proofs in their channel are those
of the seed that `run` carries and of the seeds in theirs, except the one an appender
is still to send; `ResultInv` says the same of the way back. Both rest on `LockInv`
(an appender sends under the write lock, `run` holds the read lock between seed and
proof) and on `OrderInv` (what waits is the published seed or the next one).

*Chain store.* For every block tree, every capacity, any genesis blocks handed in by
three goroutines and any number of crashes; as in the run, for the fault `crash`.
`LInv` says who may be past the height guard: at most one goroutine, and its block is
the latest in memory and extends the stored chain (`WriterInv`), otherwise memory and
database agree. A genesis passes the guard only without a latest block. A child
passes only if it was checked against the latest block (`CheckedInv`) and exists only
after a seed was appended, which takes a stored genesis (`SeedInv`); then only
`BlockProcessRoutine` works on children and no other goroutine can be writing.
`IndexInv` ties the height index to the latest block, so the write appends
(`CommitExtends`); nothing else writes (`OnlyCommitWrites`).

*Data tasks.* The order of the tasks holds although writes and encodings fail, so its
proof may not use the database. `GenesisFirst` says that before the seed everybody
holds genesis blocks, and `OneWriter` that after it there is a latest block and only
`BlockProcessRoutine` can be past the guard: `CommitFails` seeds the calculator as
`Commit` does. `SentInv` puts every task sent below the latest height, and before the
next transaction of the block past the guard. Only a late answer of `GetLatestBlock`
lowers the latest height; the theorem excludes that fault, as the property does.
`ChainTypeCorrect` excludes none.

*Syncer.* For every set of peers. The loop of `blockProcessRoutine` works on a copy of
`remoteHeight`; `CopyBehind` says that the copy is never ahead of it. The type needs
that the lowest height wanted and the highest one held exist (`MinMember`, `MaxMember`).

*Pool.* For all transactions, limits and interleavings. `RoundsInv` counts: the rounds
done and the hashes left are at most `MaxTxPackage`, so the last round leaves none
behind. `DistinctInv` says that a hash is in the queue, or the round's, or in the
result; `ChainInv` that what is decided was not on the chain before. `LengthInv` gives
every entry of the result a round of its own, `LruFacts` says that the cache keeps
within its capacity.

*Stream tables and manager.* For every set of nodes and every limit. `TablesInv` adds to
`TablesAgree` that the places named in the tables exist. `ManagerInv` has one part for
each group of routines, and a step keeps the parts whose variables it leaves alone
(`Frames`).

*Data processor and router.* For every chain of blocks, any channels, clients and
slots and any number of crashes. `TurnInv` says that the channel holds the last tasks
sent and that the processor works on the one before them, so the events come in the
order of the commands (`EventInv`; `publishChan` is the tail of `events`). `SlotInv`
counts the slots of a topic and says that a connection sits in at most one of them, of
its own topic, and in exactly one until it leaves. `InboxInv` is where both meet: what a
client has got is in order, it has every event between two that it has
(`BoxComplete`), and one that has not left lacks at most the event that `Process` is
writing, if its slot is still to come (`Pending`). Without `Pending` the step from one
slot to the next is not inductive; `Process` holds the lock, so nobody moves slots
meanwhile. `EntriesInv` says that the store holds `Reference` of the commands done,
and is carried by `ReferenceStep`: what the reference makes of one more command is what
`setData` or `appendData` makes of the entry before it.

*Stream and clocks.* For any sizes of the queues and any losses. `OpenInv` counts what is
under way for each client (requests in its queues and in the handlers of the other end, answers
on the way back): never more than `open`, so the handler of an answer finds a request
open. `ClockInv` follows the stamps: a request or answer under way was stamped at the
node's offset now, or before the one adjustment, and never says anything else
(`Asking`, `Stamping`, `Answering`). The hypothesis `OffsetClear` says that half the
offset is no near answer, as TLC checks of the run's skew; without it the stale answer
is applied a second time, which is one of the disagreements above.

*VRF.* For every curve of prime order, every key, message and random number.
`ElectionsAgree` is the two equations of `VRFCalculate` and `VRFVerify` put together modulo
the order (`PointsAgree`, `ProofVerifies`). `ProofBinds` takes any (s, t), however it was
made: if it passes twice, with two outputs, two keys or two messages and the rest as it was,
then the two challenges are the same, so the points are (`ChallengeTells`, which rests on
`Marshal` telling points apart modulo the order), and the difference of the two makes a
multiple of the order out of factors below it (`NoZeroDivisors`). So a block whose output,
key or seed (as a point) alone is changed on its way is refused. This is not the uniqueness
one wants of a VRF, that a key has one output for a message: the challenge
(`vrf.go:65-72`) hashes neither the output nor the message's point, which the usual
argument for it needs, and neither the model nor a proof here claims it. The hash and the numbers in bytes are recursive functions; `StepsExist` and `StepsStay` show, once
for all, that a recursion over 1..n has a value and keeps the set its step keeps, by
the least counterexample instead of an induction theorem. `s` may not be 0, and for two
messages `t` may not be, as neither has any weight on the real curve.

*Bytes.* For every value of every type. A writer only adds (`Extends`) or overwrites an
area of its own (`Overwrites`); `Holds` says what bytes stand at an offset and `Kept` that a
later write left an offset alone. `PutInv` is the loop invariant of one struct's `Write`:
the fields written so far are held, each in its place or behind the offset in its slot, and nothing
before the struct has changed. The two tables of a type, the writer's and the viewer's,
agree (`Agree`, one lemma per type, the place where a wrong offset of the generated code would show); from that
alone a reader gets back what was put (`PutRead`). A block is the header, then a table with one offset per
transaction, then their bodies: `EntryInv` is the invariant of that loop, and bodies behind
one another disturb neither the table nor each other (`KeptBehind`, `TxHeldKept`). All this
for messages of up to 2^24 bytes (`Small`), since the model's words have three bytes that
count; the code's have four.

*Wire.* For every genesis block, node key, requests, seeds and random numbers the
assumptions of `Wire` admit. `WireInv` has the types of the transactions made, of the pool
(finite, since `Package` takes its order from it) and of the blocks, and for every block but the first
that its header was `Elected`: packed by the node's key with a proof for its seed, in
parameters of at most 6000 bytes. That bound is what lets the header be read back by
`BlocksReadAsWritten` and its parameters by `MessagesReadAsWritten`; with
`ElectionsAgree` the check of every other node passes. Nothing follows from the type alone: that the
values of a command, a signature or a digest have the lengths the viewer's slots expect is
what most of the lemmas say (`ValueSuits`, `BodyType`, `CommandDataType`, `PackagedType`).

*Database.* `StoreInv` says that the database, once it knows the hash of a block, has the
block's bytes under it and the hash under its height, and knows the hashes of packaged
blocks only; the genesis parameters a start reads are those of the first block. A batch writes nothing else (`Writes`), so an insertion can disturb only the entries
of its own hash and height: what is there already was written for the same block. Two
hypotheses stand for what no hash function guarantees. `HashesDiffer`: no two
packaged blocks have one digest; otherwise one block's bytes are found under the hash of
the other. `BlocksFit`: the bytes of each packaged block fit into the words of the model
(`Small`). Both hold in every state of the run (TLC checked them there).

*Merkle tree.* The tree is a recursive function of the level, so nothing is proved by
induction over it directly; `MerkleLevels` has its values by the same least-counterexample
lemmas as the hash. `RootCoversFirstHalf` follows one replaced hash upwards: from the
first half of a level it gets into the first half of the next one, from the second half it
disappears at once, since the loop never reads there. `RootInv` says that the header of a
packaged block has the root of its transactions' hashes. That a replaced hash shows needs that
`mergeHash` does not map the nodes met in the two trees to one digest (`NoCollision`, in
`TreesSafe` for the packaged blocks and in `SamplesSafe` for the samples of
`MerkleFirstHalf`); that one in the second half never shows needs nothing.

*What is served.* For every set of requests, every schedule of datagrams and calls, every
buffer for datagrams that holds the fixed part of a transaction. `VerifyExact` takes the
detour out of `Verify`: the copy is read from the bytes of the transaction, stripped and written over them with the same writer, and
what is left of the first writing does not show (`WrittenOver`). What a node has of a
transaction is a `Copy`, the whole or what a datagram leaves of it, and that has each slice
whole or empty and everything else as it was (`DatagramFacts`). `ServedInv` says that pool and
blocks hold copies under the hash of the whole, and that a hash that was packaged once is only pooled again whole
(`WholeLater`): `TransactionUDP` refuses a known hash, `SubmitTransaction` does not, and does
not cut. `KeptInv` says that blocks are inserted in the order they were packaged in, that the
entry of a transaction is its place in the last inserted block that has it (`IsEntry`), and
that the tasks are those of the inserted blocks, no more and no fewer. A transaction that is
packaged twice has two places, and the entry and the tasks could tell of different copies of
it; with `WholeLater` the entry is the whole one then, so its data came whole, and the
commands are those that were asked for. Three hypotheses are added to those of the
database. `DigestsDiffer`: no two transactions have one hash, and no digest of a text that
a node has is the hash of a transaction with other contents, which no hash function
guarantees. `RequestsFit`: the bytes fit into the words of the model. `NoStray`: data given to the sender tool, which
writes them as they are, do not read as a set or append command. The first holds in every
state of the run `wire`, the other two of its requests; TLC checked them there.

The assumptions are the named `ASSUME`s of the modules on their constants, which TLC
evaluates on every run.

Only model-checked: the liveness properties (fairness and ENABLED are outside the
prover) and the three violations. Every invariant of the passing runs is stated by a
theorem.

## Plan

Done: the buffer, the calculator, the chain store, the syncer, the transaction pool
and the P2P manager and the data processor with the event router, all with proofs; the
stream peer with the time syncer, and the bytes of transactions and blocks, with
proofs too. What would come next:

1. Composition of buffer, calculator and chain store: the buffer of `BlockChain` as
   `BlockBuffer` instead of `PopStream`, the seeds of its blocks from `Calculator`.
2. Liveness, once a prover handles ENABLED.

## Not modelled

- *Metrics*: counters that the program never reads.
- *Start-up wiring, chronos-cli and the graph tools*: input and output without state.
- *The rate limiter, node information and ReadContractAddress of the RPC server*: the
  first is one call of a library, the others read.
- *The group arithmetic of the VDF, the curve, SHA-256 and ECDSA*: number theory on
  large integers; `Calculator` counts steps instead, `Crypto` has a small group.
- *libp2p*: streams, the DHT and pubsub appear by what they deliver, lose and repeat.
- *Generated gRPC code*: its messages are records in `Wire`.
- *Pings of the stream peer*, which no goroutine sends, and *code without callers*
  such as `removePeerIfStopped`.
