------------------------------ MODULE BlockChain -----------------------------
(***************************************************************************)
(* The chain store (core/blockchain.go): insertBlock, run by               *)
(* BlockProcessRoutine for the blocks the buffer pops and by the caller of *)
(* AppendBlockTask for a genesis block, over a LevelDB database, with the  *)
(* latest block, the block caches and the task channel of the data         *)
(* processor.  A crash loses everything but the database.                  *)
(*                                                                         *)
(* A buffer is the abstract one of module PopStream, restricted by the     *)
(* calculator: VerifyBlockVDF fails while the seed is zero, so no child of *)
(* a genesis is accepted before the genesis seed was appended.  After a    *)
(* restart the seed is zero too, but blocks packaged by this node say so   *)
(* and pass (module Calculator).  createBlockBuffer replaces the buffer;   *)
(* the old one still works off the blocks it was given.                    *)
(***************************************************************************)
EXTENDS Integers, Sequences, FiniteSets

CONSTANTS
  Block, Nil, Prev, Height,   \* the block tree; a genesis has parent Nil
  Tasks,          \* data commands among a block's transactions
  Offers,         \* scenario: under each fault, which goroutine is given
                  \* which genesis, once
  MaxHeight,      \* bound of the scenario: the largest height
  BufferChanCap,  \* maxBlockChannel
  TaskChanCap,    \* taskChannelSize
  CacheCap,       \* maxBlockCache
  MaxCrashes,     \* bound: crashes of the node
  MaxReads        \* bound: GetLatestBlock calls that find no latest block

ASSUME ChainAssumption ==
  /\ Nil \notin Block
  /\ Prev \in [Block -> Block \cup {Nil}]
  /\ MaxHeight \in Nat
  /\ Height \in [Block -> 0..MaxHeight]
  /\ \A b \in Block : /\ Prev[b] = Nil => Height[b] = 0
                      /\ Prev[b] # Nil => Height[b] = Height[Prev[b]] + 1
  /\ Tasks \in [Block -> Nat]
  /\ Offers \in [{"crash", "disk", "reader"} ->
                   SUBSET ({"routine", "caller", "maker"} \X
                             {b \in Block : Prev[b] = Nil})]
  /\ BufferChanCap \in Nat \ {0} /\ TaskChanCap \in Nat \ {0}
  /\ CacheCap \in Nat \ {0}
  /\ MaxCrashes \in Nat /\ MaxReads \in Nat

Genesis == {b \in Block : Prev[b] = Nil}
(* BlockProcessRoutine, a syncer or handler calling AppendBlockTask, and   *)
(* the goroutine of cmd/norn/main.go that creates a genesis block.         *)
Inserter == {"routine", "caller", "maker"}
OrNil == Block \cup {Nil}
Fault == {"crash", "disk", "reader"}
AllOffers == UNION {Offers[f] : f \in Fault}

VARIABLES
  db,                        \* durable: stored blocks, latest, height index
  latestBlock, latestHeight, \* the latest block in memory
  blockCache,                \* LRU cache of blocks by hash
  buffers,                   \* the buffers (PopStream), the current one last
  bufferChan,                \* popped blocks, and InsertBlock's
  seeded,                    \* some block can pass VerifyBlockVDF
  pc, cur, idx,              \* insertBlock: step, block, next transaction
  taskChannel,               \* data tasks in flight
  sent,                      \* history: every data task sent
  readPc, readLatest,        \* a GetLatestBlock call
  offers,                    \* genesis blocks still to be handed in
  crashes, reads,
  fault                      \* what goes wrong in this behaviour: "crash" of
                             \* the node, "disk": BatchInsert and encodings
                             \* fail, "reader": a GetLatestBlock is late

mem == <<latestBlock, latestHeight, blockCache>>
buf == <<buffers, bufferChan>>
ins == <<pc, cur, idx>>
data == <<taskChannel, sent>>
reader == <<readPc, readLatest>>
vars == <<db, mem, buf, seeded, ins, data, reader, offers, crashes,
          reads, fault>>

TypeOK ==
  /\ db \in [blocks : SUBSET Block, latest : OrNil,
             byHeight : [0..MaxHeight -> OrNil]]
  /\ latestBlock \in OrNil /\ latestHeight \in -1..MaxHeight
  /\ blockCache \subseteq Block
  /\ buffers \in Seq([latest : Block, unsent : OrNil])
  /\ bufferChan \in Seq(Block)
  /\ seeded \in BOOLEAN
  /\ pc \in [Inserter -> {"idle", "make", "check", "init", "guard", "tasks",
                        "commit"}]
  /\ cur \in [Inserter -> OrNil] /\ idx \in [Inserter -> Nat]
  /\ taskChannel \in Seq(Block \X Nat) /\ sent \in Seq(Block \X Nat)
  /\ readPc \in {"idle", "get", "set"} /\ readLatest \in OrNil
  /\ offers \subseteq AllOffers
  /\ crashes \in 0..MaxCrashes /\ reads \in 0..MaxReads
  /\ fault \in Fault

-----------------------------------------------------------------------------
(* golang-lru, with any victim, as in module BlockBuffer.                  *)
LruAdd(cache, b) ==
  IF b \in cache THEN {cache}
  ELSE IF Cardinality(cache) < CacheCap THEN {cache \cup {b}}
  ELSE {(cache \ {v}) \cup {b} : v \in cache}

(* GetBlockByHash finds the block in the cache or in the database.         *)
Exists(b) == b \in blockCache \/ b \in db.blocks

isPrevBlock(prev, block) == Prev[block] = prev

(* NewBlockBuffer *)
NewBuffer(b) == [latest |-> b, unsent |-> Nil]

(* The batch: the block, "latest" and the height index, in one write.      *)
BatchInsert(b) ==
  [blocks |-> db.blocks \cup {b},
   latest |-> b,
   byHeight |-> [db.byHeight EXCEPT ![Height[b]] = b]]

Init ==
  /\ db = [blocks |-> {}, latest |-> Nil,
           byHeight |-> [h \in 0..MaxHeight |-> Nil]]
  /\ latestBlock = Nil /\ latestHeight = -1 /\ blockCache = {}
  /\ buffers = <<>> /\ bufferChan = <<>>
  /\ seeded = FALSE
  /\ pc = [t \in Inserter |-> "idle"] /\ cur = [t \in Inserter |-> Nil]
  /\ idx = [t \in Inserter |-> 0]
  /\ taskChannel = <<>> /\ sent = <<>>
  /\ readPc = "idle" /\ readLatest = Nil
  /\ fault \in Fault
  /\ offers = Offers[fault] /\ crashes = 0 /\ reads = 0

-----------------------------------------------------------------------------
(* AppendBlockTask of a genesis block: the caller's goroutine inserts.     *)
AppendBlockTask(b) ==
  /\ pc["caller"] = "idle" /\ <<"caller", b>> \in offers
  /\ offers' = offers \ {<<"caller", b>>}
  /\ pc' = [pc EXCEPT !["caller"] = "check"]
  /\ cur' = [cur EXCEPT !["caller"] = b]
  /\ UNCHANGED <<db, mem, buf, seeded, idx, data, reader, crashes,
                 reads, fault>>

(* NewGenesisBlock: only if there is none, by now; then the parameters are *)
(* generated and the block is inserted.                                    *)
NewGenesisBlock(b) ==
  /\ pc["maker"] = "idle" /\ <<"maker", b>> \in offers
  /\ db.byHeight[0] = Nil /\ blockCache \cap Genesis = {}
  /\ offers' = offers \ {<<"maker", b>>}
  /\ pc' = [pc EXCEPT !["maker"] = "make"]
  /\ cur' = [cur EXCEPT !["maker"] = b]
  /\ UNCHANGED <<db, mem, buf, seeded, idx, data, reader, crashes,
                 reads, fault>>

GenesisMade ==
  /\ pc["maker"] = "make"
  /\ pc' = [pc EXCEPT !["maker"] = "check"]
  /\ UNCHANGED <<db, mem, buf, seeded, cur, idx, data, reader, 
                 offers, crashes, reads, fault>>

(* InsertBlock: a genesis block from gossip goes through bufferChan.       *)
InsertBlock(b) ==
  /\ <<"routine", b>> \in offers
  /\ Len(bufferChan) < BufferChanCap
  /\ offers' = offers \ {<<"routine", b>>}
  /\ bufferChan' = Append(bufferChan, b)
  /\ UNCHANGED <<db, mem, buffers, seeded, ins, data, reader, 
                 crashes, reads, fault>>

(* A buffer commits to a child of its latest block and sends it.           *)
BufferAdvance(i, b) ==
  /\ seeded /\ buffers[i].unsent = Nil
  /\ Prev[b] = buffers[i].latest
  /\ buffers' = [buffers EXCEPT ![i] = [latest |-> b, unsent |-> b]]
  /\ UNCHANGED <<db, mem, bufferChan, seeded, ins, data, reader, 
                 offers, crashes, reads, fault>>

(* Mutant: a full channel loses the block.                                 *)
SendOrDrop(i) ==
  /\ buffers[i].unsent # Nil
  /\ bufferChan' = IF Len(bufferChan) < BufferChanCap
                   THEN Append(bufferChan, buffers[i].unsent) ELSE bufferChan
  /\ buffers' = [buffers EXCEPT ![i].unsent = Nil]
  /\ UNCHANGED <<db, mem, seeded, ins, data, reader, offers, crashes,
                 reads, fault>>

BufferSend(i) ==
  /\ buffers[i].unsent # Nil /\ Len(bufferChan) < BufferChanCap
  /\ bufferChan' = Append(bufferChan, buffers[i].unsent)
  /\ buffers' = [buffers EXCEPT ![i].unsent = Nil]
  /\ UNCHANGED <<db, mem, seeded, ins, data, reader, offers, crashes,
                 reads, fault>>

(* BlockProcessRoutine *)
BlockProcessRoutine ==
  /\ pc["routine"] = "idle" /\ bufferChan # <<>>
  /\ cur' = [cur EXCEPT !["routine"] = Head(bufferChan)]
  /\ bufferChan' = Tail(bufferChan)
  /\ pc' = [pc EXCEPT !["routine"] = "check"]
  /\ UNCHANGED <<db, mem, buffers, seeded, idx, data, reader,
                 offers, crashes, reads, fault>>

-----------------------------------------------------------------------------
(* insertBlock, in goroutine t.                                            *)
Return(t) ==
  /\ pc' = [pc EXCEPT ![t] = "idle"]
  /\ cur' = [cur EXCEPT ![t] = Nil]
  /\ idx' = [idx EXCEPT ![t] = 0]

(* The block exists; one found in the database is cached again.            *)
InsertExists(t) ==
  /\ pc[t] = "check"
  /\ Exists(cur[t])
  /\ blockCache' \in LruAdd(blockCache, cur[t])
  /\ Return(t)
  /\ UNCHANGED <<db, latestBlock, latestHeight, buf, seeded, data, reader,
                 offers, crashes, reads, fault>>

Continues(b) == latestBlock # Nil /\ isPrevBlock(latestBlock, b)

InsertRefuse(t) ==
  /\ pc[t] = "check"
  /\ ~Exists(cur[t])
  /\ cur[t] \notin Genesis /\ ~Continues(cur[t])
  /\ Return(t)
  /\ UNCHANGED <<db, mem, buf, seeded, data, reader, offers,
                 crashes, reads, fault>>

InsertCheck(t) ==
  /\ pc[t] = "check"
  /\ ~Exists(cur[t])
  /\ cur[t] \in Genesis \/ Continues(cur[t])
  /\ pc' = [pc EXCEPT ![t] = IF cur[t] \in Genesis THEN "init" ELSE "guard"]
  /\ UNCHANGED <<db, mem, buf, seeded, cur, idx, data, reader, 
                 offers, crashes, reads, fault>>

(* createBlockBuffer and genesisInitialization, before the height guard.   *)
createBlockBuffer(t) ==
  /\ pc[t] = "init"
  /\ buffers' = Append(buffers, NewBuffer(cur[t]))
  /\ pc' = [pc EXCEPT ![t] = "guard"]
  /\ UNCHANGED <<db, mem, bufferChan, seeded, cur, idx, data, reader,
                 offers, crashes, reads, fault>>

(* Mutant: the height is not compared under the lock.                      *)
AboveAny(b) == TRUE

AboveLatest(b) == Height[b] > latestHeight

GuardRefuse(t) ==
  /\ pc[t] = "guard"
  /\ ~AboveLatest(cur[t])
  /\ Return(t)
  /\ UNCHANGED <<db, mem, buf, seeded, data, reader, offers,
                 crashes, reads, fault>>

(* latestBlock, latestHeight and writeBlockCache.                          *)
GuardPass(t) ==
  /\ pc[t] = "guard"
  /\ AboveLatest(cur[t])
  /\ latestBlock' = cur[t] /\ latestHeight' = Height[cur[t]]
  /\ blockCache' \in LruAdd(blockCache, cur[t])
  /\ pc' = [pc EXCEPT ![t] = "tasks"]
  /\ UNCHANGED <<db, buf, seeded, cur, idx, data, reader, offers,
                 crashes, reads, fault>>

(* One transaction with a data command: its task goes to the processor.    *)
SendTask(t) ==
  /\ pc[t] = "tasks"
  /\ idx[t] < Tasks[cur[t]]
  /\ Len(taskChannel) < TaskChanCap
  /\ taskChannel' = Append(taskChannel, <<cur[t], idx[t]>>)
  /\ sent' = Append(sent, <<cur[t], idx[t]>>)
  /\ idx' = [idx EXCEPT ![t] = @ + 1]
  /\ UNCHANGED <<db, mem, buf, seeded, pc, cur, reader, offers,
                 crashes, reads, fault>>

TasksDone(t) ==
  /\ pc[t] = "tasks"
  /\ idx[t] = Tasks[cur[t]]
  /\ pc' = [pc EXCEPT ![t] = "commit"]
  /\ UNCHANGED <<db, mem, buf, seeded, cur, idx, data, reader, 
                 offers, crashes, reads, fault>>

(* The block or a transaction cannot be encoded.                           *)
InsertAbort(t) ==
  /\ fault = "disk"
  /\ pc[t] = "tasks"
  /\ Return(t)
  /\ UNCHANGED <<db, mem, buf, seeded, data, reader, offers, crashes,
                 reads, fault>>

(* After BatchInsert a genesis seeds the VDF.                              *)
Commit(t) ==
  /\ pc[t] = "commit"
  /\ db' = BatchInsert(cur[t])
  /\ seeded' = (seeded \/ cur[t] \in Genesis)
  /\ Return(t)
  /\ UNCHANGED <<mem, buf, data, reader, offers, crashes, reads, fault>>

(* Mutant: a failed write repeats the transactions.                        *)
CommitRetries(t) ==
  /\ fault = "disk"
  /\ pc[t] = "commit"
  /\ pc' = [pc EXCEPT ![t] = "tasks"]
  /\ idx' = [idx EXCEPT ![t] = 0]
  /\ UNCHANGED <<db, mem, buf, seeded, cur, data, reader, offers,
                 crashes, reads, fault>>

(* The error of BatchInsert is dropped.                                    *)
CommitFails(t) ==
  /\ fault = "disk"
  /\ pc[t] = "commit"
  /\ seeded' = (seeded \/ cur[t] \in Genesis)
  /\ Return(t)
  /\ UNCHANGED <<db, mem, buf, data, reader, offers, crashes, reads, fault>>

Insert(t) ==
  \/ InsertExists(t) \/ InsertRefuse(t) \/ InsertCheck(t)
  \/ createBlockBuffer(t)
  \/ GuardRefuse(t) \/ GuardPass(t) \/ SendTask(t) \/ TasksDone(t)
  \/ InsertAbort(t) \/ Commit(t) \/ CommitFails(t)

(* The data processor takes a task.                                        *)
TakeTask ==
  /\ taskChannel # <<>>
  /\ taskChannel' = Tail(taskChannel)
  /\ UNCHANGED <<db, mem, buf, seeded, ins, sent, reader, offers,
                 crashes, reads, fault>>

-----------------------------------------------------------------------------
(* GetLatestBlock of any goroutine, an inserter's included, that finds     *)
(* latestBlock nil: it asks the database and stores the answer, with the   *)
(* lock for the store only.                                                *)
ReadNil ==
  /\ fault = "reader"
  /\ readPc = "idle" /\ reads < MaxReads
  /\ latestBlock = Nil
  /\ reads' = reads + 1
  /\ readPc' = "get"
  /\ UNCHANGED <<db, mem, buf, seeded, ins, data, readLatest, 
                 offers, crashes, fault>>

ReadDb ==
  /\ readPc = "get"
  /\ readLatest' = db.latest
  /\ readPc' = IF db.latest = Nil THEN "idle" ELSE "set"
  /\ blockCache' \in IF db.latest = Nil THEN {blockCache}
                     ELSE LruAdd(blockCache, db.latest)
  /\ UNCHANGED <<db, latestBlock, latestHeight, buf, seeded, ins, data,
                 offers, crashes, reads, fault>>

ReadSet ==
  /\ readPc = "set"
  /\ latestBlock' = readLatest /\ latestHeight' = Height[readLatest]
  /\ readLatest' = Nil /\ readPc' = "idle"
  /\ UNCHANGED <<db, blockCache, buf, seeded, ins, data, offers,
                 crashes, reads, fault>>

(* Mutant: a buffer is made for an empty database too.                     *)
RestoredAlways == <<NewBuffer(db.latest)>>

(* The buffer NewBlockchain makes.                                         *)
Restored == IF db.latest = Nil THEN <<>> ELSE <<NewBuffer(db.latest)>>

(* The process dies and NewBlockchain runs: latest and genesis are loaded, *)
(* the buffer starts at latest, nothing appends a seed.  The histories     *)
(* cover one life of the process.                                          *)
Crash ==
  /\ fault = "crash" /\ crashes < MaxCrashes
  /\ crashes' = crashes + 1
  /\ latestBlock' = db.latest
  /\ latestHeight' = IF db.latest = Nil THEN -1 ELSE Height[db.latest]
  /\ blockCache' = {db.latest, db.byHeight[0]} \ {Nil}
  /\ buffers' = Restored
  /\ bufferChan' = <<>>
  /\ seeded' = (db.latest # Nil)
  /\ pc' = [t \in Inserter |-> "idle"] /\ cur' = [t \in Inserter |-> Nil]
  /\ idx' = [t \in Inserter |-> 0]
  /\ taskChannel' = <<>> /\ sent' = <<>>
  /\ readPc' = "idle" /\ readLatest' = Nil
  /\ offers' = Offers[fault]
  /\ UNCHANGED <<db, reads, fault>>

Next ==
  \/ \E b \in Genesis :
       AppendBlockTask(b) \/ NewGenesisBlock(b) \/ InsertBlock(b)
  \/ GenesisMade
  \/ \E i \in 1..Len(buffers) :
       BufferSend(i) \/ \E b \in Block : BufferAdvance(i, b)
  \/ BlockProcessRoutine
  \/ \E t \in Inserter : Insert(t)
  \/ TakeTask
  \/ ReadNil \/ ReadDb \/ ReadSet
  \/ Crash

(* Each goroutine keeps running.                                           *)
Fairness ==
  /\ \A i \in 1..Cardinality(AllOffers) :
       WF_vars(i <= Len(buffers) /\ BufferSend(i))
  /\ WF_vars(BlockProcessRoutine)
  /\ \A t \in Inserter : WF_vars(Insert(t))
  /\ WF_vars(TakeTask)

Spec == Init /\ [][Next]_vars
FairSpec == Spec /\ Fairness

-----------------------------------------------------------------------------
(* The durable chain, read through the height index up to latest, as long *)
(* as writes succeed and no late answer of GetLatestBlock rewinds the chain. *)
StoredChain ==
  IF fault # "crash" \/ db.latest = Nil THEN <<>>
  ELSE [i \in 1..(Height[db.latest] + 1) |-> db.byHeight[i - 1]]

L == INSTANCE Ledger WITH chain <- StoredChain

(* Every write extends the durable chain by one child of its last block,   *)
(* with three goroutines inserting, a second genesis, buffers started over *)
(* and a crash at any point; nothing stored is ever replaced.              *)
ImplementsLedger == L!LedgerSpec

(* Between two crashes data tasks are sent once each and in chain order,   *)
(* also when a write or an encoding fails in between.  (A late answer of   *)
(* GetLatestBlock puts an older block back, and heights are sent again.)   *)
TasksOrdered ==
  fault # "reader" =>
  \A i, j \in 1..Len(sent) : i < j =>
    \/ Height[sent[i][1]] < Height[sent[j][1]]
    \/ sent[i][1] = sent[j][1] /\ sent[i][2] < sent[j][2]

(* Popped and not yet through insertBlock.                                 *)
UnderWay(b) ==
  \/ \E i \in 1..Len(buffers) : buffers[i].unsent = b
  \/ \E i \in 1..Len(bufferChan) : bufferChan[i] = b
  \/ cur["routine"] = b

(* A popped block whose parent is stored is eventually decided: unless the *)
(* process dies, it or a sibling gets its height in the chain, although    *)
(* the buffer, insertBlock and the data processor wait for each other's    *)
(* channels.                                                               *)
PoppedDecided ==
  \A b \in Block, n \in 0..MaxCrashes :
    (fault = "crash" /\ crashes = n /\ UnderWay(b) /\ Prev[b] \in db.blocks)
      ~> (crashes > n \/ db.byHeight[Height[b]] # Nil)

(* core/blockchain.go:281: GetLatestBlock keeps the latest block of the    *)
(* chain; without a crash the latest height does not fall.                 *)
LatestKept == [][crashes' = crashes => latestHeight' >= latestHeight]_vars

(* core/blockchain.go:459: a genesis block comes only when there is no     *)
(* buffer, so the buffer stands on the chain's own genesis.                *)
BufferOnChain ==
  buffers # <<>> /\ db.latest # Nil =>
    LET latest == buffers[Len(buffers)].latest
    IN latest \in Genesis => latest = db.byHeight[0]
=============================================================================
