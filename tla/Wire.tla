-------------------------------- MODULE Wire ---------------------------------
(***************************************************************************)
(* The life of a transaction, byte for byte: a client builds it, it        *)
(* reaches a packaging node by UDP or by RPC, an elected node packages it, *)
(* the block travels by gossip to a node that verifies the election,       *)
(* stores it and serves it by RPC.                                         *)
(*                                                                         *)
(* BlockBuffer, BlockChain, TxPool and P2PManager model the goroutines on  *)
(* this way and their interleaving; here every hop is one step and what    *)
(* matters is what the bytes say.  All nodes store the blocks in the order *)
(* they are packaged, so one database stands for all.  The caches of       *)
(* blocks and transactions hold what was read and are left out.            *)
(***************************************************************************)
EXTENDS Transactions, Merkle

CONSTANTS
  Requests,         \* what clients ask for
  Genesis,          \* the genesis parameters
  NodeKey,          \* private key in the configuration of the packaging node
  Contract,         \* receiver of the commands
  Seeds, Proof,     \* outputs of the VDF and their proof
  Randoms,          \* what rand.Int may draw
  udpBufferSize,    \* bytes a datagram is read into
  MaxMade,          \* bound of the model: transactions that are built
  MaxBlocks         \* bound of the model: blocks that are packaged

ASSUME NodeAssumption ==
  /\ NodeKey \in Scalars /\ Seeds \subseteq Nat /\ Randoms \subseteq Scalars
  /\ Proof \in Seq(Nat) /\ Len(Proof) <= 128
  /\ Genesis \in Values(GenesisParamsViewer)

ASSUME ClientAssumption ==
  /\ Contract \in Seq(Nat) /\ Len(Contract) = 20
  /\ \A r \in Requests :
       /\ r.Client \in Scalars
       /\ r.Type \in Seq(Nat) /\ r.Key \in Seq(Nat) /\ r.Value \in Seq(Nat)
       /\ Len(r.Key) <= MaxWord /\ Len(r.Value) <= MaxWord
       /\ Len(CommandData(r.Type, r.Key, r.Value)) <= MaxWord

ASSUME BoundAssumption ==
  /\ udpBufferSize \in Nat /\ udpBufferSize >= 264
  /\ MaxMade \in Nat /\ MaxBlocks \in 0..65535

VARIABLES
  asked,    \* the requests of clients
  made,     \* and the transactions built for them
  txPool,   \* of the packaging node, by hash
  known,    \* its knownTransaction
  blocks,   \* the blocks packaged, the genesis block first
  db,       \* the database, by key
  tasks     \* what was sent to the data processor

wireVars == <<asked, made, txPool, known, blocks, db, tasks>>

Overlay(f, g) == [k \in DOMAIN f \cup DOMAIN g |-> IF k \in DOMAIN g THEN g[k] ELSE f[k]]

-----------------------------------------------------------------------------
(* Blocks                                                                  *)

(* The time, which passes when a client makes a request.                   *)
Clock == 10 * Len(made) + 5

Header(prev, height, root, params, clock) ==
  [Timestamp |-> LittleEndian(clock), PrevBlockHash |-> prev, BlockHash |-> NoHash,
   MerkleRoot |-> root, Height |-> LittleEndian(height),
   PublicKey |-> PublicKey2Bytes(NodeKey), Params |-> params, GasLimit |-> Zeros(8)]

(* The digest of the header without a hash becomes its hash.               *)
Hashed(header) == [header EXCEPT !.BlockHash = Sha256(SerializeBlockHeader(header))]

NewGenesisBlock ==
  [Header |-> Hashed(Header(NoHash, 0, NoHash, SerializeGenesisParams(Genesis), 1)),
   Transactions |-> <<>>]

(* The parameters of a block: the seed, its proof, the output of the VRF   *)
(* and the proof of that.                                                  *)
Params(seed, r) ==
  LET vrf == VRFCalculate(NodeKey, BigBytes(seed), r)
  IN [Result |-> BigBytes(seed), Proof |-> Proof, RandomNumber |-> vrf.value,
      S |-> BigBytes(vrf.s), T |-> BigBytes(vrf.t)]

(* On the best leaf, which is the block packaged last.                     *)
PackageNewBlock(txs, clock, params) ==
  LET best == blocks[Len(blocks)].Header
      root == BuildMerkleTree([i \in DOMAIN txs |-> txs[i].Hash])
  IN [Header |-> Hashed(Header(best.BlockHash, Len(blocks), root,
                               SerializeGeneralParams(params), clock)),
      Transactions |-> txs]

verifyBlockVRF(block) ==
  LET params == DeserializeGeneralParams(block.Header.Params)
  IN VRFCheckRemoteConsensus(Bytes2PublicKey(block.Header.PublicKey), params.Result,
       SetBytes(params.S), SetBytes(params.T), params.RandomNumber)

-----------------------------------------------------------------------------
(* The database and what the RPC server reads from it                      *)

(* The place of a transaction, written into a copy of it.                  *)
Stamped(tx, header, i) ==
  [tx EXCEPT !.Height = header.Height, !.BlockHash = header.BlockHash,
             !.Index = LittleEndian(i - 1)]

(* The batch of insertBlock: the block with its transactions as they came, *)
(* the indices, and each transaction with its place.                       *)
Batch(block) ==
  LET hash == block.Header.BlockHash
      txs == block.Transactions
      Key(i) == <<"tx", txs[i].Hash>>
      keys == {<<"block", hash>>, <<"latest">>, <<"height", block.Header.Height>>}
  IN [k \in keys \cup {Key(i) : i \in DOMAIN txs} |->
        CASE k[1] = "block" -> SerializeBlock(block)
          [] k[1] = "tx" -> LET i == CHOOSE n \in DOMAIN txs : Key(n) = k
                            IN SerializeTransaction(Stamped(txs[i], block.Header, i))
          [] OTHER -> hash]

(* A transaction whose data are a command becomes a task.  Data too short  *)
(* for what they say are read as garbage, which is no command.             *)
Task(tx, header) ==
  LET dc == DeserializeDataCommand(tx.Data)
  IN IF tx.Data # <<>> /\ dc.Opt \in {setCommandString, appendCommandString}
     THEN <<[Type |-> dc.Opt, Hash |-> tx.Hash, Height |-> header.Height,
             Address |-> tx.Receiver, Key |-> dc.Key, Value |-> dc.Value]>>
     ELSE <<>>

TasksOf(block) ==
  FlattenSeq([i \in DOMAIN block.Transactions |->
                Task(block.Transactions[i], block.Header)])

GetBlockByHash(hash) == DeserializeBlock(db[<<"block", hash>>])
GetBlockByHeight(height) == GetBlockByHash(db[<<"height", height>>])
GetTransactionByHash(hash) == DeserializeTransaction(db[<<"tx", hash>>])

(* A full block, as the server converts it: at the time of the request,    *)
(* without its gas limit, each transaction with its place.                 *)
KarmemBlock2Protobuf(block) ==
  [Header |-> [block.Header EXCEPT !.Timestamp = LittleEndian(Clock),
                                   !.GasLimit = Zeros(8)],
   Transactions |-> [i \in DOMAIN block.Transactions |->
                       Stamped(block.Transactions[i], block.Header, i)]]

(* The server takes the transaction out of the stored block.               *)
GetTransactionByBlockNumberAndIndex(height, i) ==
  GetBlockByHeight(height).Transactions[i + 1]

(* What a start reads of the genesis block.                                *)
genesisInitialization == DeserializeGenesisParams(GetBlockByHeight(LittleEndian(0)).Header.Params)

-----------------------------------------------------------------------------
WireInit ==
  /\ asked = <<>>
  /\ made = <<>>
  /\ txPool = <<>>
  /\ known = {}
  /\ blocks = <<NewGenesisBlock>>
  /\ db = Batch(NewGenesisBlock)
  /\ tasks = <<>>

(* A client makes its request.                                             *)
Make(request, tx) ==
  /\ Len(made) < MaxMade
  /\ asked' = Append(asked, request)
  /\ made' = Append(made, tx)
  /\ UNCHANGED <<blocks, db, tasks>>

AddTransaction(tx) ==
  /\ known' = known \cup {tx.Hash}
  /\ txPool' = Overlay(txPool, [h \in {tx.Hash} |-> tx])

(* At the packaging node or at another one, whose pool is not modelled.    *)
SendTransactionWithData(r, here) ==
  LET tx == CommandTransaction(r.Client, Contract, r.Type, r.Key, r.Value, Clock)
  IN /\ r.Type \in {setCommandString, appendCommandString}
     /\ Make(r, tx)
     /\ IF here THEN AddTransaction(tx) ELSE UNCHANGED <<txPool, known>>

SenderBuilds(r) ==
  /\ r.Type = <<>>
  /\ Make(r, buildTransaction(r.Client, r.Value, Clock))
  /\ UNCHANGED <<txPool, known>>

(* A datagram is cut to the buffer it is read into, and read without being *)
(* verified, unless its hash is known.                                     *)
Datagram(tx) ==
  LET sent == SerializeTransaction(tx)
  IN DeserializeTransaction(SubSeq(sent, 1, AtMost(Len(sent), udpBufferSize)))

TransactionUDP(tx) ==
  /\ LET got == Datagram(tx)
     IN /\ got.Hash \notin known
        /\ AddTransaction(got)
  /\ UNCHANGED <<asked, made, blocks, db, tasks>>

SubmitTransaction(tx) ==
  /\ LET got == DeserializeTransaction(SerializeTransaction(tx))
     IN /\ Verify(got)
        /\ AddTransaction(got)
  /\ UNCHANGED <<asked, made, blocks, db, tasks>>

(* The transactions of the pool that are not stored yet, in some order in  *)
(* which Range finds them.                                                 *)
Packaged == SetToSeqs({h \in DOMAIN txPool : <<"tx", h>> \notin DOMAIN db})

(* packageBlockRoutine with a seed the calculator published; local decides *)
(* whether the node is elected, and the proof in the block is made anew.   *)
Package(seed, local, r) ==
  /\ Len(blocks) <= MaxBlocks
  /\ VRFCheckLocalConsensus(NodeKey, BigBytes(seed), local)
  /\ \E hashes \in Packaged :
       LET txs == [i \in DOMAIN hashes |-> txPool[hashes[i]]]
       IN blocks' = Append(blocks, PackageNewBlock(txs, Clock, Params(seed, r)))
  /\ txPool' = <<>>
  /\ UNCHANGED <<asked, made, known, db, tasks>>

Gossiped(i) == DeserializeBlock(SerializeBlock(blocks[i]))

(* The next block arrives, passes the check of its election, goes through  *)
(* the buffer and is inserted.                                             *)
InsertBlock(i) ==
  LET block == Gossiped(i)
  IN /\ <<"block", block.Header.BlockHash>> \notin DOMAIN db
     /\ db[<<"latest">>] = block.Header.PrevBlockHash
     /\ verifyBlockVRF(block)
     /\ db' = Overlay(db, Batch(block))
     /\ tasks' = tasks \o TasksOf(block)
     /\ txPool' = [h \in DOMAIN txPool \ {block.Transactions[n].Hash :
                                          n \in DOMAIN block.Transactions} |-> txPool[h]]
     /\ UNCHANGED <<asked, made, known, blocks>>

WireNext ==
  \/ \E r \in Requests, here \in BOOLEAN : SendTransactionWithData(r, here)
  \/ \E r \in Requests : SenderBuilds(r)
  \/ \E i \in DOMAIN made : TransactionUDP(made[i]) \/ SubmitTransaction(made[i])
  \/ \E seed \in Seeds, local, r \in Randoms : Package(seed, local, r)
  \/ \E i \in DOMAIN blocks : InsertBlock(i)

WireSpec == WireInit /\ [][WireNext]_wireVars

-----------------------------------------------------------------------------
(* Properties                                                              *)

Filled(n, k) == [i \in 1..n |-> (7 * i + k) % 256]

(* A value whose fields all differ; its slices hold k bytes.               *)
Sample(view, k) ==
  [name \in DOMAIN view |-> Filled(IF view[name].slot THEN k ELSE view[name].n,
                                   view[name].at + k)]

SampleBlock(k) ==
  [Header |-> Sample(BlockHeaderViewer, k),
   Transactions |-> [i \in 1..k |-> Sample(TransactionBodyViewer, k - i)]]

LayoutsAgree(k) ==
  /\ LET x == Sample(TransactionBodyViewer, k)
     IN DeserializeTransaction(SerializeTransaction(x)) = x
  /\ LET x == SampleBlock(k) IN DeserializeBlock(SerializeBlock(x)) = x
  /\ LET x == Sample(BlockHeaderViewer, k)
     IN BlockHeaderRead(SerializeBlockHeader(x), 0) = x
  /\ LET x == Sample(GenesisParamsViewer, k)
     IN DeserializeGenesisParams(SerializeGenesisParams(x)) = x
  /\ LET x == Sample(GeneralParamsViewer, k)
     IN DeserializeGeneralParams(SerializeGeneralParams(x)) = x
  /\ LET x == Sample(DataCommandViewer, k)
     IN DeserializeDataCommand(SerializeDataCommand(x)) = x
  /\ LET x == Sample(SyncStatusMsgViewer, k)
     IN DeserializeStatusMsg(SerializeStatusMsg(x)) = x
  /\ LET x == Sample(TimeSyncMsgViewer, k)
     IN DeserializeTimeSyncMsg(SerializeTimeSyncMsg(x)) = x
  /\ LET x == Sample(MessageViewer, k)
     IN DeserializeMessage(SerializeMessage(x)) = x
  /\ LET x == Sample(BroadcastMessageViewer, k)
     IN DeserializeBroadcastMessage(SerializeBroadcastMessage(x)) = x

AllLayoutsAgree == \A k \in 0..3 : LayoutsAgree(k)

(* Readers find what writers wrote, although each has a table of offsets   *)
(* of its own and slices lie behind each other: every kind of value comes  *)
(* back as it was, empty slices and blocks without transactions included;  *)
(* each stored block is the one that was packaged, and a start reads the   *)
(* genesis parameters that were generated.                                 *)
RoundTrip ==
  /\ AllLayoutsAgree
  /\ \A i \in DOMAIN blocks :
       <<"block", blocks[i].Header.BlockHash>> \in DOMAIN db =>
         GetBlockByHeight(LittleEndian(i - 1)) = blocks[i]
  /\ genesisInitialization = Genesis

(* A transaction read from a full block has its place, one by hash has it  *)
(* too; without it, it is what a node pooled.                              *)
Unplaced(tx) == [tx EXCEPT !.Height = Zeros(8), !.BlockHash = NoHash, !.Index = Zeros(8)]

StoredHashes == {k[2] : k \in {n \in DOMAIN db : n[1] = "tx"}}

TasksFor(h) == {n \in DOMAIN tasks : tasks[n].Hash = h}

(* From the client to the RPC reply, Verify accepts exactly what was       *)
(* signed.  A transaction a datagram has cut keeps the hash of the whole   *)
(* one and is pooled, packaged and served under it, but does not verify.   *)
(* What is served by hash is the transaction at its place in the full      *)
(* block it names; with its place it does not verify, and without it, it   *)
(* does if it came whole.  The data processor gets exactly the commands    *)
(* whose data came whole, be the signature cut or not.                     *)
ServedAsSigned ==
  /\ made # <<>> => Verify(made[Len(made)])
  /\ \A h \in DOMAIN txPool :
       \E i \in DOMAIN made : /\ made[i].Hash = h
                             /\ Verify(txPool[h]) <=> txPool[h] = made[i]
  /\ \A h \in StoredHashes :
       LET tx == GetTransactionByHash(h)
           full == KarmemBlock2Protobuf(GetBlockByHeight(tx.Height)).Transactions
           alone == GetTransactionByBlockNumberAndIndex(tx.Height, WordAt(tx.Index, 0))
       IN /\ tx = full[WordAt(tx.Index, 0) + 1]
          /\ alone = Unplaced(tx)
          /\ ~Verify(tx)
          /\ \E i \in DOMAIN made : /\ made[i].Hash = h
                                   /\ Verify(alone) <=> alone = made[i]
          /\ {<<t.Type, t.Key, t.Value>> : t \in {tasks[n] : n \in TasksFor(h)}} =
               {<<r.Type, r.Key, r.Value>> : r \in
                  {asked[n] : n \in {i \in DOMAIN made :
                     /\ made[i].Hash = h /\ made[i].Data = tx.Data
                     /\ asked[i].Type # <<>>}}}

AllElectionsAgree ==
  \A key, r, local \in Scalars, seed \in Seeds :
    LET msg == BigBytes(seed)
        vrf == VRFCalculate(key, msg, r)
    IN VRFCheckRemoteConsensus(key, msg, vrf.s, vrf.t, vrf.value)
         <=> VRFCheckLocalConsensus(key, msg, local)

(* The node that found itself elected is elected for everybody: whatever   *)
(* random number it drew for the check and for the proof, each node reads  *)
(* the same output from the block's bytes and accepts it.  The proof in    *)
(* the block passes with no other output and under no other key, so a      *)
(* block with one of the two changed is refused, and the hash of the       *)
(* header covers what was packaged.  Other proofs of the same key are not  *)
(* spoken of: that its output is the only one it can have is not claimed.  *)
ElectionAgreed ==
  /\ AllElectionsAgree
  /\ \A i \in 2..Len(blocks) :
       LET block == Gossiped(i)
           p == DeserializeGeneralParams(block.Header.Params)
           s == SetBytes(p.S)
           t == SetBytes(p.T)
       IN /\ verifyBlockVRF(block)
          /\ s # 0 => \A n \in Scalars :
               /\ Marshal(n) # p.RandomNumber =>
                    ~VRFVerify(NodeKey, p.Result, s, t, Marshal(n))
               /\ n # NodeKey => ~VRFVerify(n, p.Result, s, t, p.RandomNumber)
          /\ Hashed([block.Header EXCEPT !.BlockHash = NoHash]) = block.Header

Half(n) == (n + 1) \div 2

CoversFirstHalf(hashes) ==
  \A i \in DOMAIN hashes :
    BuildMerkleTree([hashes EXCEPT ![i] = Filled(32, 200)]) # BuildMerkleTree(hashes)
      <=> i <= Half(Len(hashes))

TreesCoverFirstHalf ==
  \A n \in 1..9 : CoversFirstHalf([i \in 1..n |-> Filled(32, i)])

(* The root of a block tells whether a transaction was replaced if and     *)
(* only if it is among the first half of them, rounded up: the loop steps  *)
(* over pairs and stops in the middle of the level.                        *)
MerkleFirstHalf ==
  /\ TreesCoverFirstHalf
  /\ \A i \in DOMAIN blocks :
       LET txs == blocks[i].Transactions
           hashes == [n \in DOMAIN txs |-> txs[n].Hash]
       IN i > 1 => /\ blocks[i].Header.MerkleRoot = BuildMerkleTree(hashes)
                   /\ CoversFirstHalf(hashes)
=============================================================================
