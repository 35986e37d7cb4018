------------------------------ MODULE P2PManager -----------------------------
(***************************************************************************)
(* The P2P manager of a node (node/manager.go): the routine that packages  *)
(* blocks, the reader of the block topic, the callers of AddTransaction    *)
(* (the UDP listener and the RPC server), the two broadcast routines, and  *)
(* Synced, which starts these two when block and time syncer are done.     *)
(* Module StreamManager has its streams; without one a node does not get   *)
(* synced, unless it is the genesis node.                                  *)
(*                                                                         *)
(* The block syncer's status and the time syncer appear by their result    *)
(* only (modules BlockSyncer and TimeSyncer), the chain and the pool by    *)
(* what they are given.                                                    *)
(***************************************************************************)
EXTENDS StreamManager

CONSTANTS
  Block,           \* blocks other nodes publish
  Verified,        \* those that pass verifyBlockVRF
  AtZero,          \* those of height 0, such as a genesis block
  Tx,
  InboxCap,        \* WithBufferSize of the subscription (512)
  BlockQueueCap,   \* blockBroadcastQueue (512)
  TxQueueCap,      \* txBroadcastQueue (10240)
  maxKnownBlock,   \* 1024
  maxKnownTx,      \* maxKnownTransaction (32768)
  Plans            \* bounds: [genesis, regular, syncs (the node's syncers
                   \* come to act), bounds of StreamManager, packages,
                   \* messages of each block, udp and rpc: receptions of
                   \* each transaction]

ASSUME ManagerAssumption ==
  /\ Block # {} /\ Tx # {}
  /\ Verified \subseteq Block /\ AtZero \subseteq Block
  /\ {InboxCap, BlockQueueCap, TxQueueCap, maxKnownBlock, maxKnownTx}
       \subseteq Nat \ {0}
  /\ \A p \in Plans :
       /\ {p.genesis, p.syncs} \subseteq BOOLEAN
       /\ {p.bounds.streams, p.packages} \subseteq Nat
       /\ p.bounds.leaving \subseteq Peer
       /\ p.messages \in [Block -> Nat]
       /\ p.udp \in [Tx -> Nat] /\ p.rpc \in [Tx -> Nat]
       /\ p.regular = \A b \in Block :
                        p.messages[b] <= IF b \in AtZero THEN 0 ELSE 1

Adder == {"udp", "rpc"}

VARIABLES
  plan,                   \* what is left of the plan
  status, timeSynced,     \* block syncer, time syncer
  started,                \* startRoutine was done
  inbox, reader, block,   \* the topic; the reader's step and its block
  knownBlock,
  packager, made,         \* packageBlockRoutine, and the blocks it made
  blockQueue,
  published,              \* last block handed to blockTopic.Publish
  txQueue, knownTx,
  adding, tx,             \* AddTransaction: step and transaction of a caller
  handed,                 \* history: blocks of the topic given to the chain
  pooled, sent            \* history: transactions in the pool, and those
                          \* for which neighbours were drawn

syncVars == <<status, timeSynced, started>>
topicVars == <<inbox, reader, block, knownBlock, handed>>
packageVars == <<packager, made, blockQueue, published>>
txVars == <<txQueue, knownTx, adding, tx, pooled, sent>>
managerVars == <<streamVars, plan, syncVars, topicVars, packageVars, txVars>>

ManagerTypeOK ==
  /\ StreamsOK
  /\ status \in {"blockSyncing", "bufferSyncing", "synced"}
  /\ {timeSynced, started} \subseteq BOOLEAN
  /\ inbox \in Seq(Block) /\ Len(inbox) <= InboxCap
  /\ reader \in {"next", "append", "returned"} /\ block \in Block
  /\ knownBlock \subseteq Block /\ Cardinality(knownBlock) <= maxKnownBlock
  /\ packager \in {"tick", "append", "enqueue"}
  /\ Len(blockQueue) <= BlockQueueCap /\ published <= made
  /\ txQueue \in Seq(Tx) /\ Len(txQueue) <= TxQueueCap
  /\ knownTx \subseteq Tx /\ Cardinality(knownTx) <= maxKnownTx
  /\ adding \in [Adder -> {"idle", "send", "add"}] /\ tx \in [Adder -> Tx]
  /\ pooled \cup sent \subseteq Tx /\ handed \in Seq(Block)

Some(S) == CHOOSE x \in S : TRUE

ManagerInit ==
  /\ plan \in Plans /\ bounds = plan.bounds
  /\ StreamsInit
  /\ status = "blockSyncing" /\ timeSynced = plan.genesis /\ started = FALSE
  /\ inbox = <<>> /\ reader = "next" /\ block = Some(Block)
  /\ knownBlock = {} /\ handed = <<>>
  /\ packager = "tick" /\ made = 0 /\ blockQueue = <<>> /\ published = 0
  /\ txQueue = <<>> /\ knownTx = {}
  /\ adding = [x \in Adder |-> "idle"] /\ tx = [x \in Adder |-> Some(Tx)]
  /\ pooled = {} /\ sent = {}

(* What an LRU cache of the given capacity may hold after x was added.     *)
LruAdd(c, x, cap) ==
  IF Cardinality(c \cup {x}) <= cap THEN {c \cup {x}}
  ELSE {(c \cup {x}) \ {v} : v \in c \ {x}}

-----------------------------------------------------------------------------
(* A stream that works carries status and time messages.  The genesis node *)
(* is declared synced (SetSynced); the status may also fall back.          *)
Answered ==
  plan.syncs /\ (plan.genesis \/ \E i \in DOMAIN peerSet : ~peerSet[i].stopped)

StatusChanges ==
  /\ Answered
  /\ \/ status = "blockSyncing" /\ status' \in {"bufferSyncing", "synced"}
     \/ status = "bufferSyncing" /\ status' = "synced"
     \/ status = "synced" /\ plan.genesis /\ status' = "bufferSyncing"
  /\ UNCHANGED <<streamVars, plan, timeSynced, started, topicVars,
                 packageVars, txVars>>

TimeSyncs ==
  /\ ~timeSynced /\ Answered
  /\ timeSynced' = TRUE
  /\ UNCHANGED <<streamVars, plan, status, started, topicVars, packageVars,
                 txVars>>

SyncedNow == status = "synced" /\ timeSynced

(* Mutant: NewP2PManager starts the broadcast routines.                    *)
AtOnce == TRUE

StartsNow == started \/ SyncedNow

(* Synced, called for a status request or by a tick of the packaging       *)
(* routine without a right to package.                                     *)
Synced ==
  /\ started' = StartsNow /\ started' # started
  /\ UNCHANGED <<streamVars, plan, status, timeSynced, topicVars,
                 packageVars, txVars>>

-----------------------------------------------------------------------------
(* Mutant: the time syncer is not asked.                                   *)
BlockSynced == status = "synced"

MayPackage == SyncedNow

(* packageBlockRoutine on a tick that finds the node drawn.                *)
Package ==
  /\ packager = "tick" /\ plan.packages > 0 /\ MayPackage
  /\ started' = StartsNow
  /\ made' = made + 1 /\ packager' = "append"
  /\ plan' = [plan EXCEPT !.packages = @ - 1]
  /\ UNCHANGED <<streamVars, status, timeSynced, topicVars, blockQueue,
                 published, txVars>>

(* The buffer has taken the block.                                         *)
AppendOwn ==
  /\ packager = "append" /\ packager' = "enqueue"
  /\ UNCHANGED <<streamVars, plan, syncVars, topicVars, made, blockQueue,
                 published, txVars>>

EnqueueOwn ==
  /\ packager = "enqueue" /\ Len(blockQueue) < BlockQueueCap
  /\ blockQueue' = Append(blockQueue, made) /\ packager' = "tick"
  /\ UNCHANGED <<streamVars, plan, syncVars, topicVars, made, published,
                 txVars>>

(* The block is serialised and handed to blockTopic.Publish.  When either  *)
(* fails, the error is logged and the block dropped; the node goes on      *)
(* alike, and `published' counts that block too.                           *)
broadcastBlock ==
  /\ started /\ blockQueue # <<>>
  /\ published' = Head(blockQueue) /\ blockQueue' = Tail(blockQueue)
  /\ UNCHANGED <<streamVars, plan, syncVars, topicVars, packager, made,
                 txVars>>

-----------------------------------------------------------------------------
(* The topic brings a message of another node; pubsub drops what a full    *)
(* subscription cannot take.                                               *)
Deliver(b) ==
  /\ plan.messages[b] > 0
  /\ plan' = [plan EXCEPT !.messages[b] = @ - 1]
  /\ inbox' = IF Len(inbox) < InboxCap THEN Append(inbox, b) ELSE inbox
  /\ UNCHANGED <<streamVars, syncVars, reader, block, knownBlock, handed,
                 packageVars, txVars>>

Receive(b) ==
  /\ reader = "next" /\ inbox # <<>> /\ b = Head(inbox)
  /\ inbox' = Tail(inbox)
  /\ UNCHANGED <<streamVars, plan, syncVars, packageVars, txVars>>

(* gossipBlockSubscribe: not while blocks are synced.                      *)
ReadEarly(b) ==
  /\ Receive(b) /\ status = "blockSyncing"
  /\ UNCHANGED <<reader, block, knownBlock, handed>>

(* A known block ends the routine.                                         *)
ReadKnown(b) ==
  /\ Receive(b) /\ status # "blockSyncing" /\ b \in knownBlock
  /\ reader' = "returned"
  /\ UNCHANGED <<block, knownBlock, handed>>

ReadNew(b) ==
  /\ Receive(b) /\ status # "blockSyncing" /\ b \notin knownBlock
  /\ knownBlock' \in LruAdd(knownBlock, b, maxKnownBlock)

(* A block of height 0 goes to insertBlock by a goroutine and ends this    *)
(* one.  DeserializeBlock returns no error, so the return for one is left  *)
(* out.                                                                    *)
ReadZero(b) ==
  /\ ReadNew(b) /\ b \in AtZero
  /\ handed' = Append(handed, b) /\ reader' = "returned"
  /\ UNCHANGED block

(* Mutant: a block that fails the VRF ends the routine, too.               *)
ReturnsRejecting(b) == ReadNew(b) /\ b \notin AtZero /\ b \notin Verified
                       /\ reader' = "returned"

Rejects(b) == ReadNew(b) /\ b \notin AtZero /\ b \notin Verified
              /\ reader' = reader

ReadRejected(b) == Rejects(b) /\ UNCHANGED <<block, handed>>

ReadVerified(b) ==
  /\ ReadNew(b) /\ b \in Verified \ AtZero
  /\ block' = b /\ reader' = "append"
  /\ UNCHANGED handed

(* AppendBlockTask when the buffer has room.                               *)
AppendBlockTask ==
  /\ reader = "append" /\ reader' = "next"
  /\ handed' = Append(handed, block) /\ block' = Some(Block)
  /\ UNCHANGED <<streamVars, plan, syncVars, inbox, knownBlock, packageVars,
                 txVars>>

gossipBlockSubscribe ==
  \/ \E b \in Block :
       \/ ReadEarly(b) \/ ReadKnown(b) \/ ReadZero(b)
       \/ ReadRejected(b) \/ ReadVerified(b)
  \/ AppendBlockTask

-----------------------------------------------------------------------------
(* AddTransaction marks the transaction first ...                          *)
AddTransaction(x, t) ==
  /\ knownTx' \in LruAdd(knownTx, t, maxKnownTx)
  /\ adding' = [adding EXCEPT ![x] = "send"] /\ tx' = [tx EXCEPT ![x] = t]

(* TransactionUDP, one datagram after the other; a known one is dropped.   *)
TransactionUDP(t) ==
  /\ adding["udp"] = "idle" /\ plan.udp[t] > 0
  /\ plan' = [plan EXCEPT !.udp[t] = @ - 1]
  /\ IF t \in knownTx THEN UNCHANGED <<knownTx, adding, tx>>
     ELSE AddTransaction("udp", t)
  /\ UNCHANGED <<streamVars, syncVars, topicVars, packageVars, txQueue,
                 pooled, sent>>

(* SubmitTransaction, which does not ask whether it is known.              *)
SubmitTransaction(t) ==
  /\ adding["rpc"] = "idle" /\ plan.rpc[t] > 0
  /\ plan' = [plan EXCEPT !.rpc[t] = @ - 1]
  /\ AddTransaction("rpc", t)
  /\ UNCHANGED <<streamVars, syncVars, topicVars, packageVars, txQueue,
                 pooled, sent>>

(* Mutant: the transaction is queued in a full queue.                      *)
SendTxOver(x) ==
  /\ adding[x] = "send"
  /\ txQueue' = Append(txQueue, tx[x])
  /\ adding' = [adding EXCEPT ![x] = "add"]
  /\ UNCHANGED <<streamVars, plan, syncVars, topicVars, packageVars, knownTx,
                 tx, pooled, sent>>

(* ... waits for room in the queue, ...                                    *)
SendTx(x) ==
  /\ adding[x] = "send" /\ Len(txQueue) < TxQueueCap
  /\ txQueue' = Append(txQueue, tx[x])
  /\ adding' = [adding EXCEPT ![x] = "add"]
  /\ UNCHANGED <<streamVars, plan, syncVars, topicVars, packageVars, knownTx,
                 tx, pooled, sent>>

(* ... and gives it to the pool at last.                                   *)
AddToPool(x) ==
  /\ adding[x] = "add"
  /\ pooled' = pooled \cup {tx[x]}
  /\ adding' = [adding EXCEPT ![x] = "idle"]
  /\ tx' = [tx EXCEPT ![x] = Some(Tx)]
  /\ UNCHANGED <<streamVars, plan, syncVars, topicVars, packageVars, txQueue,
                 knownTx, sent>>

(* UDPGossipBroadcast draws streams that stopped as well; with an empty    *)
(* peerSet it draws none.  A neighbour whose address, dial or write fails  *)
(* is passed over, and a datagram may be lost: `sent' says that they were  *)
(* drawn, not what they got.                                               *)
UDPGossipBroadcast(t) == sent' = IF peerSet = <<>> THEN sent ELSE sent \cup {t}

broadcastTransaction ==
  /\ started /\ txQueue # <<>>
  /\ UDPGossipBroadcast(Head(txQueue)) /\ txQueue' = Tail(txQueue)
  /\ UNCHANGED <<streamVars, plan, syncVars, topicVars, packageVars, knownTx,
                 adding, tx, pooled>>

Streams ==
  /\ StreamsNext
  /\ UNCHANGED <<plan, syncVars, topicVars, packageVars, txVars>>

ManagerNext ==
  \/ Streams \/ StatusChanges \/ TimeSyncs \/ Synced
  \/ Package \/ AppendOwn \/ EnqueueOwn \/ broadcastBlock
  \/ \E b \in Block : Deliver(b)
  \/ gossipBlockSubscribe
  \/ \E t \in Tx : TransactionUDP(t) \/ SubmitTransaction(t)
  \/ \E x \in Adder : SendTx(x) \/ AddToPool(x)
  \/ broadcastTransaction

(***************************************************************************)
(* The routines run on; two callers that send on txBroadcastQueue are      *)
(* served in turn.  Nothing is assumed of the node's synchronisation, of   *)
(* the topic, of clients or of the draw.                                   *)
(***************************************************************************)
ManagerFairness ==
  /\ StreamsFairness
  /\ WF_managerVars(AppendOwn) /\ WF_managerVars(EnqueueOwn)
  /\ WF_managerVars(broadcastBlock) /\ WF_managerVars(gossipBlockSubscribe)
  /\ \A x \in Adder : SF_managerVars(SendTx(x)) /\ WF_managerVars(AddToPool(x))
  /\ WF_managerVars(broadcastTransaction)

ManagerSpec == ManagerInit /\ [][ManagerNext]_managerVars
ManagerFairSpec == ManagerSpec /\ ManagerFairness

-----------------------------------------------------------------------------
(* A block the node packaged is handed to blockTopic.Publish:              *)
(* packageBlockRoutine would wait for ever on a queue whose reader was     *)
(* never started.                                                          *)
OwnBlockPublished == (published < made) ~> (published = made)

(* As long as the topic brings no block twice and none of height 0 (a      *)
(* regular plan) the node goes on listening: a verified block that it      *)
(* receives when blocks are synced reaches the chain, whatever came before *)
(* it.                                                                     *)
BlockHeard ==
  \A b \in Verified \ AtZero :
    (plan.regular /\ b \in Range(inbox) /\ status # "blockSyncing")
      ~> b \in Range(handed)

(* A transaction of a client or a peer waits while the queue is full.      *)
(* Once the broadcast routines run it gets into the pool, and neighbours   *)
(* are drawn for it, too: they run only when the node has had a stream.    *)
(* The genesis node alone may be synced without any.                       *)
TransactionSpread ==
  \A t \in Tx :
    (started /\ \E x \in Adder : adding[x] = "send" /\ tx[x] = t)
      ~> (t \in pooled /\ (t \in sent \/ plan.genesis))
=============================================================================
