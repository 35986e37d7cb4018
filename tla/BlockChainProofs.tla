--------------------------- MODULE BlockChainProofs --------------------------
(***************************************************************************)
(* The chain store implements Ledger for every block tree, every capacity, *)
(* any number of crashes and any genesis blocks handed in: the durable     *)
(* chain only grows, by one child at a time.  As in module BlockChain,     *)
(* writes succeed and no late answer of GetLatestBlock is stored; that is  *)
(* the fault "crash".  Its data tasks come in order under every fault but  *)
(* that late answer.                                                       *)
(***************************************************************************)
EXTENDS BlockChain, SequenceTheorems, TLAPS

Writing(t) == pc[t] \in {"tasks", "commit"}

ChainType ==
  /\ db \in [blocks : SUBSET Block, latest : OrNil,
             byHeight : [0..MaxHeight -> OrNil]]
  /\ latestBlock \in OrNil
  /\ buffers \in Seq([latest : Block, unsent : OrNil])
  /\ bufferChan \in Seq(Block)
  /\ seeded \in BOOLEAN
  /\ pc \in [Inserter -> {"idle", "make", "check", "init", "guard", "tasks",
                          "commit"}]
  /\ cur \in [Inserter -> OrNil]
  /\ \A t \in Inserter : pc[t] # "idle" => cur[t] \in Block
  /\ readPc = "idle"

(* The memory's latest block and its height change together.               *)
LatestInv == latestHeight = IF latestBlock = Nil THEN -1 ELSE Height[latestBlock]

IndexInv == db.latest # Nil => db.byHeight[Height[db.latest]] = db.latest

(***************************************************************************)
(* Only BlockProcessRoutine is given blocks with a parent, and only after  *)
(* a seed was appended, which takes a stored genesis.                      *)
(***************************************************************************)
SeedInv ==
  /\ \A t \in {"caller", "maker"} : cur[t] \in Genesis \cup {Nil}
  /\ seeded <=> db.latest # Nil
  /\ ~seeded =>
       /\ cur["routine"] \in Genesis \cup {Nil}
       /\ \A i \in 1..Len(bufferChan) : bufferChan[i] \in Genesis
       /\ \A i \in 1..Len(buffers) : buffers[i].unsent = Nil

(***************************************************************************)
(* One goroutine at most is between the height guard and the write.  Its   *)
(* block is the latest one in memory and extends the stored chain;         *)
(* otherwise memory and database agree.                                    *)
(***************************************************************************)
Extends(b) == IF db.latest = Nil THEN b \in Genesis
              ELSE b \notin Genesis /\ Prev[b] = db.latest

WriterInv ==
  /\ \A t, u \in Inserter : Writing(t) /\ Writing(u) => t = u
  /\ \A t \in Inserter : Writing(t) => latestBlock = cur[t] /\ Extends(cur[t])
  /\ (\A t \in Inserter : ~Writing(t)) => latestBlock = db.latest

(* Between the parent check and the guard the latest block stays.          *)
CheckedInv ==
  \A t \in Inserter :
    /\ pc[t] = "init" => cur[t] \in Genesis
    /\ pc[t] = "guard" /\ cur[t] \notin Genesis =>
         latestBlock # Nil /\ Prev[cur[t]] = latestBlock

LInv == ChainType /\ LatestInv /\ IndexInv /\ SeedInv /\ WriterInv /\ CheckedInv

(* The invariant says nothing of behaviours with another fault.            *)
CInv == fault = "crash" => LInv

LEMMA TreeFacts ==
  /\ Nil \notin Block /\ MaxHeight \in Nat
  /\ Genesis \subseteq Block
  /\ \A b \in Block : Height[b] \in 0..MaxHeight
  /\ \A b \in Genesis : Height[b] = 0
  /\ \A b \in Block \ Genesis :
       Prev[b] \in Block /\ Height[b] = Height[Prev[b]] + 1
  /\ Inserter = {"routine", "caller", "maker"}
  BY ChainAssumption DEF Genesis, Inserter

LEMMA InitChain ==
  ASSUME Init
  PROVE  LInv
  <1> USE TreeFacts DEF Init
  <1>1. ChainType
    <2>1. <<>> \in Seq([latest : Block, unsent : OrNil]) /\ <<>> \in Seq(Block)
      OBVIOUS
    <2>2. /\ latestBlock \in OrNil /\ cur \in [Inserter -> OrNil]
          /\ db \in [blocks : SUBSET Block, latest : OrNil,
                     byHeight : [0..MaxHeight -> OrNil]]
      BY DEF OrNil
    <2> QED
      BY <2>1, <2>2 DEF ChainType
  <1>2. LatestInv /\ IndexInv
    BY DEF LatestInv, IndexInv
  <1>3. SeedInv
    BY DEF SeedInv
  <1>4. WriterInv /\ CheckedInv
    BY DEF WriterInv, CheckedInv, Writing
  <1> QED
    BY <1>1, <1>2, <1>3, <1>4 DEF LInv

chainVars == <<db, latestBlock, latestHeight, seeded>>

(* The goroutines that hand in genesis blocks.                             *)
LEMMA OffersKeep ==
  ASSUME LInv, NEW b \in Genesis,
         AppendBlockTask(b) \/ NewGenesisBlock(b) \/ InsertBlock(b)
  PROVE  LInv'
  <1> USE TreeFacts DEF LInv
  <1>1. CASE AppendBlockTask(b) \/ NewGenesisBlock(b)
    <2>1. PICK t \in {"caller", "maker"} :
            /\ pc[t] = "idle"
            /\ \/ pc' = [pc EXCEPT ![t] = "check"]
               \/ pc' = [pc EXCEPT ![t] = "make"]
            /\ cur' = [cur EXCEPT ![t] = b]
      BY <1>1 DEF AppendBlockTask, NewGenesisBlock
    <2>2. UNCHANGED <<chainVars, buffers, bufferChan, readPc>>
      BY <1>1 DEF AppendBlockTask, NewGenesisBlock, mem, buf, reader, chainVars
    <2>3. /\ pc \in [Inserter -> {"idle", "make", "check", "init", "guard",
                                  "tasks", "commit"}]
          /\ cur \in [Inserter -> OrNil] /\ b \in Block /\ t \in Inserter
      BY DEF ChainType
    <2>4. /\ pc'[t] \in {"check", "make"} /\ cur'[t] = b
          /\ \A u \in Inserter \ {t} : pc'[u] = pc[u] /\ cur'[u] = cur[u]
      BY <2>1, <2>3
    <2>5. ChainType'
      BY <2>1, <2>2, <2>3, <2>4 DEF ChainType, chainVars, OrNil
    <2>6. LatestInv' /\ IndexInv'
      BY <2>2 DEF LatestInv, IndexInv, chainVars
    <2>7. SeedInv'
      BY <2>2, <2>3, <2>4 DEF SeedInv, chainVars
    <2>8. \A u \in Inserter : /\ Writing(u)' <=> Writing(u)
                              /\ Writing(u) => cur'[u] = cur[u]
      BY <2>1, <2>3, <2>4 DEF Writing
    <2>9. WriterInv'
      BY <2>2, <2>8 DEF WriterInv, Extends, chainVars
    <2>10. CheckedInv'
      BY <2>2, <2>3, <2>4 DEF CheckedInv, chainVars
    <2> QED
      BY <2>5, <2>6, <2>7, <2>9, <2>10
  <1>2. CASE InsertBlock(b)
    <2>1. /\ bufferChan' = Append(bufferChan, b)
          /\ UNCHANGED <<chainVars, buffers, pc, cur, readPc>>
      BY <1>2 DEF InsertBlock, mem, ins, reader, chainVars
    <2>2. /\ bufferChan \in Seq(Block) /\ bufferChan' \in Seq(Block)
          /\ Len(bufferChan') = Len(bufferChan) + 1
          /\ bufferChan'[Len(bufferChan) + 1] = b
          /\ \A i \in 1..Len(bufferChan) : bufferChan'[i] = bufferChan[i]
      BY <2>1 DEF ChainType
    <2>3. ~seeded => \A i \in 1..Len(bufferChan') : bufferChan'[i] \in Genesis
      BY <2>2 DEF SeedInv
    <2>4. ChainType'
      BY <2>1, <2>2 DEF ChainType, chainVars
    <2>5. SeedInv'
      BY <2>1, <2>3 DEF SeedInv, chainVars
    <2>6. LatestInv' /\ IndexInv' /\ WriterInv' /\ CheckedInv'
      BY <2>1 DEF LatestInv, IndexInv, WriterInv, CheckedInv, Writing, Extends,
                  chainVars
    <2> QED
      BY <2>4, <2>5, <2>6
  <1> QED
    BY <1>1, <1>2

(***************************************************************************)
(* The buffers, which commit to blocks only if seeded, and the hand-over   *)
(* to BlockProcessRoutine.                                                 *)
(***************************************************************************)
LEMMA BuffersKeep ==
  ASSUME LInv,
         \/ \E i \in 1..Len(buffers) :
              BufferSend(i) \/ \E b \in Block : BufferAdvance(i, b)
         \/ BlockProcessRoutine
  PROVE  LInv'
  <1> USE TreeFacts DEF LInv
  <1>0. /\ buffers \in Seq([latest : Block, unsent : OrNil])
        /\ bufferChan \in Seq(Block)
        /\ pc \in [Inserter -> {"idle", "make", "check", "init", "guard",
                                "tasks", "commit"}]
        /\ cur \in [Inserter -> OrNil]
    BY DEF ChainType
  <1>1. ASSUME NEW i \in 1..Len(buffers), NEW b \in Block, BufferAdvance(i, b)
        PROVE  LInv'
    <2>1. /\ seeded
          /\ buffers' = [buffers EXCEPT ![i] = [latest |-> b, unsent |-> b]]
          /\ UNCHANGED <<chainVars, bufferChan, pc, cur, readPc>>
      BY <1>1 DEF BufferAdvance, mem, ins, reader, chainVars
    <2>2. buffers' \in Seq([latest : Block, unsent : OrNil])
      <3>1. [latest |-> b, unsent |-> b] \in [latest : Block, unsent : OrNil]
        BY DEF OrNil
      <3> QED
        BY <1>0, <2>1, <3>1, ExceptSeq
    <2>3. ChainType'
      BY <2>1, <2>2 DEF ChainType, chainVars
    <2>4. SeedInv'
      BY <2>1 DEF SeedInv, chainVars
    <2>5. LatestInv' /\ IndexInv' /\ WriterInv' /\ CheckedInv'
      BY <2>1 DEF LatestInv, IndexInv, WriterInv, CheckedInv, Writing, Extends,
                  chainVars
    <2> QED
      BY <2>3, <2>4, <2>5
  <1>2. ASSUME NEW i \in 1..Len(buffers), BufferSend(i)
        PROVE  LInv'
    <2> DEFINE x == buffers[i].unsent
    <2>1. /\ x # Nil /\ bufferChan' = Append(bufferChan, x)
          /\ buffers' = [buffers EXCEPT ![i].unsent = Nil]
          /\ UNCHANGED <<chainVars, pc, cur, readPc>>
      BY <1>2 DEF BufferSend, mem, ins, reader, chainVars
    <2>2. buffers[i] \in [latest : Block, unsent : OrNil] /\ x \in Block
      <3>1. buffers[i] \in [latest : Block, unsent : OrNil]
        BY <1>0, ElementOfSeq
      <3> QED
        BY <2>1, <3>1 DEF OrNil
    <2>3. buffers' \in Seq([latest : Block, unsent : OrNil])
      <3>1. buffers' = [buffers EXCEPT ![i] = [@ EXCEPT !.unsent = Nil]]
        BY <2>1
      <3>2. [buffers[i] EXCEPT !.unsent = Nil] \in [latest : Block, unsent : OrNil]
        BY <2>2 DEF OrNil
      <3> QED
        BY <1>0, <3>1, <3>2, ExceptSeq
    <2>4. seeded
      BY <2>1 DEF SeedInv
    <2>5. bufferChan' \in Seq(Block)
      BY <1>0, <2>1, <2>2, AppendProperties
    <2>6. ChainType'
      BY <2>1, <2>3, <2>5 DEF ChainType, chainVars
    <2>7. SeedInv'
      BY <2>1, <2>4 DEF SeedInv, chainVars
    <2>8. LatestInv' /\ IndexInv' /\ WriterInv' /\ CheckedInv'
      BY <2>1 DEF LatestInv, IndexInv, WriterInv, CheckedInv, Writing, Extends,
                  chainVars
    <2> QED
      BY <2>6, <2>7, <2>8
  <1>3. CASE BlockProcessRoutine
    <2>1. /\ pc["routine"] = "idle" /\ bufferChan # <<>>
          /\ cur' = [cur EXCEPT !["routine"] = Head(bufferChan)]
          /\ bufferChan' = Tail(bufferChan)
          /\ pc' = [pc EXCEPT !["routine"] = "check"]
          /\ UNCHANGED <<chainVars, buffers, readPc>>
      BY <1>3 DEF BlockProcessRoutine, mem, reader, chainVars
    <2>2. /\ Head(bufferChan) = bufferChan[1] /\ 1 \in 1..Len(bufferChan)
          /\ Head(bufferChan) \in Block /\ bufferChan' \in Seq(Block)
          /\ Len(bufferChan') = Len(bufferChan) - 1
          /\ \A i \in 1..Len(bufferChan') :
               bufferChan'[i] = bufferChan[i + 1] /\ i + 1 \in 1..Len(bufferChan)
      BY <1>0, <2>1
    <2>3. /\ pc'["routine"] = "check" /\ cur'["routine"] = bufferChan[1]
          /\ \A u \in Inserter \ {"routine"} : pc'[u] = pc[u] /\ cur'[u] = cur[u]
      BY <1>0, <2>1, <2>2
    <2>4. ChainType'
      <3>1. cur' \in [Inserter -> OrNil] /\ pc' \in [Inserter ->
              {"idle", "make", "check", "init", "guard", "tasks", "commit"}]
        BY <1>0, <2>1, <2>2 DEF OrNil
      <3>2. \A u \in Inserter : pc'[u] # "idle" => cur'[u] \in Block
        BY <2>2, <2>3 DEF ChainType
      <3> QED
        BY <2>1, <2>2, <3>1, <3>2 DEF ChainType, chainVars
    <2>5. SeedInv'
      BY <2>1, <2>2, <2>3 DEF SeedInv, chainVars
    <2>6. \A u \in Inserter : /\ Writing(u)' <=> Writing(u)
                              /\ Writing(u) => cur'[u] = cur[u]
      BY <2>1, <2>3 DEF Writing
    <2>7. WriterInv'
      BY <2>1, <2>6 DEF WriterInv, Extends, chainVars
    <2>8. CheckedInv'
      BY <2>1, <2>3 DEF CheckedInv, chainVars
    <2>9. LatestInv' /\ IndexInv'
      BY <2>1 DEF LatestInv, IndexInv, chainVars
    <2> QED
      BY <2>4, <2>5, <2>7, <2>8, <2>9
  <1> QED
    BY <1>1, <1>2, <1>3

(***************************************************************************)
(* insertBlock before the guard, and every return from it.                 *)
(***************************************************************************)
LEMMA MovesKeep ==
  ASSUME LInv, NEW t \in Inserter, UNCHANGED <<chainVars, bufferChan, readPc>>,
         buffers' = buffers \/ \E b \in Block : buffers' = Append(buffers, NewBuffer(b)),
         \A u \in Inserter \ {t} : pc'[u] = pc[u] /\ cur'[u] = cur[u],
         pc' \in [Inserter -> {"idle", "make", "check", "init", "guard",
                               "tasks", "commit"}],
         cur' \in [Inserter -> OrNil],
         \/ pc'[t] = "idle" /\ cur'[t] = Nil /\ ~Writing(t)
         \/ /\ pc[t] # "idle" /\ cur'[t] = cur[t]
            /\ Writing(t)' <=> Writing(t)
            /\ pc'[t] = "init" => cur[t] \in Genesis
            /\ pc'[t] = "guard" =>
                 cur[t] \in Genesis \/ (latestBlock # Nil /\ Prev[cur[t]] = latestBlock)
  PROVE  LInv'
  <1> USE TreeFacts DEF LInv
  <1>1. ChainType'
    <2>1. buffers' \in Seq([latest : Block, unsent : OrNil])
      <3>1. \A b \in Block : NewBuffer(b) \in [latest : Block, unsent : OrNil]
        BY DEF NewBuffer, OrNil
      <3>2. buffers \in Seq([latest : Block, unsent : OrNil])
        BY DEF ChainType
      <3>3. CASE buffers' = buffers
        BY <3>2, <3>3
      <3>4. ASSUME NEW b \in Block, buffers' = Append(buffers, NewBuffer(b))
            PROVE  buffers' \in Seq([latest : Block, unsent : OrNil])
        BY <3>1, <3>2, <3>4, AppendProperties
      <3> QED
        BY <3>3, <3>4
    <2>2. \A u \in Inserter : pc'[u] # "idle" => cur'[u] \in Block
      BY DEF ChainType
    <2> QED
      BY <2>1, <2>2 DEF ChainType, chainVars
  <1>2. LatestInv' /\ IndexInv'
    BY DEF LatestInv, IndexInv, chainVars
  <1>3. \A u \in Inserter : /\ Writing(u)' <=> Writing(u)
                            /\ Writing(u) => cur'[u] = cur[u]
    BY DEF Writing
  <1>4. SeedInv'
    <2>1. \A u \in Inserter : cur'[u] = cur[u] \/ cur'[u] = Nil
      OBVIOUS
    <2>2. ~seeded => \A i \in 1..Len(buffers') : buffers'[i].unsent = Nil
      <3>1. CASE buffers' = buffers
        BY <3>1 DEF SeedInv
      <3>2. ASSUME NEW b \in Block, buffers' = Append(buffers, NewBuffer(b))
            PROVE  ~seeded => \A i \in 1..Len(buffers') : buffers'[i].unsent = Nil
        <4>1. /\ Len(buffers') = Len(buffers) + 1
              /\ buffers'[Len(buffers) + 1] = NewBuffer(b)
              /\ \A i \in 1..Len(buffers) : buffers'[i] = buffers[i]
              /\ Len(buffers) \in Nat
          BY <3>2, AppendProperties DEF ChainType, NewBuffer, OrNil
        <4>2. NewBuffer(b).unsent = Nil
          BY DEF NewBuffer
        <4> QED
          BY <4>1, <4>2 DEF SeedInv
      <3> QED
        BY <3>1, <3>2
    <2> QED
      BY <2>1, <2>2 DEF SeedInv, chainVars
  <1>5. WriterInv'
    BY <1>3 DEF WriterInv, Extends, chainVars
  <1>6. CheckedInv'
    <2>1. ASSUME NEW u \in Inserter
          PROVE  /\ pc'[u] = "init" => cur'[u] \in Genesis
                 /\ pc'[u] = "guard" /\ cur'[u] \notin Genesis =>
                      latestBlock # Nil /\ Prev[cur'[u]] = latestBlock
      <3>1. CASE u = t
        BY <3>1
      <3>2. CASE u # t
        BY <3>2 DEF CheckedInv
      <3> QED
        BY <3>1, <3>2
    <2> QED
      BY <2>1 DEF CheckedInv, chainVars
  <1> QED
    BY <1>1, <1>2, <1>4, <1>5, <1>6

LEMMA BeforeGuardKeeps ==
  ASSUME LInv, NEW t \in Inserter,
         \/ InsertExists(t) \/ InsertRefuse(t) \/ InsertCheck(t)
         \/ createBlockBuffer(t) \/ GuardRefuse(t)
  PROVE  LInv'
  <1> USE TreeFacts
  <1>0. /\ pc \in [Inserter -> {"idle", "make", "check", "init", "guard",
                                "tasks", "commit"}]
        /\ cur \in [Inserter -> OrNil] /\ Nil \in OrNil
        /\ pc[t] # "idle" => cur[t] \in Block
        /\ pc[t] = "init" => cur[t] \in Genesis
    BY DEF LInv, ChainType, CheckedInv, OrNil
  <1>1. CASE InsertExists(t) \/ InsertRefuse(t) \/ GuardRefuse(t)
    <2>1. /\ pc[t] \in {"check", "guard"} /\ Return(t)
          /\ UNCHANGED <<chainVars, bufferChan, buffers, readPc>>
      BY <1>1 DEF InsertExists, InsertRefuse, GuardRefuse, mem, buf, reader,
           chainVars
    <2>2. /\ pc' = [pc EXCEPT ![t] = "idle"] /\ cur' = [cur EXCEPT ![t] = Nil]
          /\ ~Writing(t)
      BY <2>1 DEF Return, Writing
    <2>3. /\ pc'[t] = "idle" /\ cur'[t] = Nil
          /\ \A u \in Inserter \ {t} : pc'[u] = pc[u] /\ cur'[u] = cur[u]
          /\ pc' \in [Inserter -> {"idle", "make", "check", "init", "guard",
                                   "tasks", "commit"}]
          /\ cur' \in [Inserter -> OrNil]
      BY <1>0, <2>2
    <2> QED
      BY <2>1, <2>2, <2>3, MovesKeep
  <1>2. CASE InsertCheck(t)
    <2>1. /\ pc[t] = "check"
          /\ pc' = [pc EXCEPT ![t] = IF cur[t] \in Genesis THEN "init" ELSE "guard"]
          /\ UNCHANGED <<chainVars, bufferChan, buffers, cur, readPc>>
      BY <1>2 DEF InsertCheck, mem, buf, reader, chainVars
    <2>4. cur[t] \in Genesis \/ (latestBlock # Nil /\ Prev[cur[t]] = latestBlock)
      BY <1>2 DEF InsertCheck, Continues, isPrevBlock
    <2>2. /\ pc'[t] = IF cur[t] \in Genesis THEN "init" ELSE "guard"
          /\ \A u \in Inserter \ {t} : pc'[u] = pc[u]
          /\ pc' \in [Inserter -> {"idle", "make", "check", "init", "guard",
                                   "tasks", "commit"}]
      BY <1>0, <2>1
    <2>3. ~Writing(t) /\ ~Writing(t)'
      BY <2>1, <2>2 DEF Writing
    <2>5. \A u \in Inserter \ {t} : pc'[u] = pc[u] /\ cur'[u] = cur[u]
      BY <2>1, <2>2
    <2> QED
      BY <1>0, <2>1, <2>2, <2>3, <2>4, <2>5, MovesKeep
  <1>3. CASE createBlockBuffer(t)
    <2>1. /\ pc[t] = "init" /\ pc' = [pc EXCEPT ![t] = "guard"]
          /\ buffers' = Append(buffers, NewBuffer(cur[t]))
          /\ UNCHANGED <<chainVars, bufferChan, cur, readPc>>
      BY <1>3 DEF createBlockBuffer, mem, reader, chainVars
    <2>2. /\ pc'[t] = "guard" /\ \A u \in Inserter \ {t} : pc'[u] = pc[u]
          /\ pc' \in [Inserter -> {"idle", "make", "check", "init", "guard",
                                   "tasks", "commit"}]
      BY <1>0, <2>1
    <2>3. ~Writing(t) /\ ~Writing(t)' /\ cur[t] \in Genesis /\ cur[t] \in Block
      BY <1>0, <2>1, <2>2 DEF Writing
    <2>4. /\ \A u \in Inserter \ {t} : pc'[u] = pc[u] /\ cur'[u] = cur[u]
          /\ cur' \in [Inserter -> OrNil] /\ cur'[t] = cur[t]
      BY <1>0, <2>1, <2>2
    <2>5. \E b \in Block : buffers' = Append(buffers, NewBuffer(b))
      BY <2>1, <2>3
    <2>6. pc[t] # "idle" /\ pc'[t] # "init"
      BY <2>1, <2>2
    <2>7. /\ UNCHANGED <<chainVars, bufferChan, readPc>>
          /\ Writing(t)' <=> Writing(t)
      BY <2>1, <2>3
    <2> QED
      BY <1>0, <2>2, <2>3, <2>4, <2>5, <2>6, <2>7, MovesKeep
  <1> QED
    BY <1>1, <1>2, <1>3

(***************************************************************************)
(* The guard lets through a genesis only when there is no latest block,    *)
(* and a child only of the latest block: nobody can be writing then.       *)
(***************************************************************************)
LEMMA GuardKeeps ==
  ASSUME LInv, NEW t \in Inserter, GuardPass(t)
  PROVE  LInv'
  <1> USE TreeFacts
  <1>0. /\ pc \in [Inserter -> {"idle", "make", "check", "init", "guard",
                                "tasks", "commit"}]
        /\ cur \in [Inserter -> OrNil]
        /\ \A u \in Inserter : pc[u] # "idle" => cur[u] \in Block
        /\ latestBlock \in OrNil
    BY DEF LInv, ChainType
  <1>1. /\ pc[t] = "guard" /\ Height[cur[t]] > latestHeight
        /\ latestBlock' = cur[t] /\ latestHeight' = Height[cur[t]]
        /\ pc' = [pc EXCEPT ![t] = "tasks"]
        /\ UNCHANGED <<db, seeded, buffers, bufferChan, cur, readPc>>
    BY DEF GuardPass, AboveLatest, buf, reader
  <1>2. /\ pc'[t] = "tasks" /\ \A u \in Inserter \ {t} : pc'[u] = pc[u]
        /\ cur[t] \in Block
    BY <1>0, <1>1
  <1>3. Extends(cur[t]) /\ \A u \in Inserter : ~Writing(u)
    <2>1. CASE cur[t] \in Genesis
      <3>1. latestBlock = Nil
        BY <1>0, <1>1, <2>1 DEF LInv, LatestInv, OrNil
      <3>2. \A u \in Inserter : ~Writing(u)
        BY <1>0, <3>1 DEF LInv, WriterInv, Writing
      <3> QED
        BY <2>1, <3>1, <3>2 DEF LInv, WriterInv, Extends
    <2>2. CASE cur[t] \notin Genesis
      <3>1. latestBlock # Nil /\ Prev[cur[t]] = latestBlock
        BY <1>1, <2>2 DEF LInv, CheckedInv
      <3>2. t = "routine" /\ db.latest # Nil
        BY <1>2, <2>2 DEF LInv, SeedInv
      <3>3. ASSUME NEW u \in Inserter, Writing(u)
            PROVE  FALSE
        <4>1. u # t
          BY <1>1, <3>3 DEF Writing
        <4>2. cur[u] \in Block /\ cur[u] \notin Genesis
          BY <1>0, <3>2, <3>3 DEF LInv, WriterInv, Extends, Writing
        <4> QED
          BY <3>2, <4>1, <4>2 DEF LInv, SeedInv
      <3>4. latestBlock = db.latest
        BY <3>3 DEF LInv, WriterInv
      <3> QED
        BY <2>2, <3>1, <3>2, <3>3, <3>4 DEF Extends
    <2> QED
      BY <2>1, <2>2
  <1>4. ChainType'
    <2>1. pc' \in [Inserter -> {"idle", "make", "check", "init", "guard",
                                "tasks", "commit"}]
      BY <1>0, <1>1
    <2> QED
      BY <1>1, <1>2, <2>1 DEF LInv, ChainType, OrNil
  <1>5. LatestInv' /\ IndexInv' /\ SeedInv'
    BY <1>1, <1>2 DEF LInv, LatestInv, IndexInv, SeedInv
  <1>6. WriterInv'
    <2>1. \A u \in Inserter : Writing(u)' <=> u = t
      BY <1>2, <1>3 DEF Writing
    <2>2. Extends(cur[t])'
      BY <1>1, <1>3 DEF Extends
    <2> QED
      BY <1>1, <2>1, <2>2 DEF WriterInv
  <1>7. CheckedInv'
    <2>1. ASSUME NEW u \in Inserter \ {t}, pc[u] = "guard"
          PROVE  cur[u] \in Genesis
      <3>1. CASE cur[t] \in Genesis
        <4>1. db.latest = Nil /\ latestBlock = Nil
          BY <1>3, <3>1 DEF Extends, LInv, WriterInv
        <4> QED
          BY <2>1, <4>1 DEF LInv, CheckedInv
      <3>2. CASE cur[t] \notin Genesis
        <4>1. t = "routine"
          BY <1>2, <3>2 DEF LInv, SeedInv
        <4>2. cur[u] \in Block
          BY <1>0, <2>1
        <4> QED
          BY <2>1, <4>1, <4>2 DEF LInv, SeedInv
      <3> QED
        BY <3>1, <3>2
    <2> QED
      BY <1>1, <1>2, <2>1 DEF LInv, CheckedInv
  <1> QED
    BY <1>4, <1>5, <1>6, <1>7 DEF LInv

(* Between the guard and the write: the data tasks.                        *)
LEMMA TasksKeep ==
  ASSUME LInv, NEW t \in Inserter, SendTask(t) \/ TasksDone(t)
  PROVE  LInv'
  <1>0. /\ pc \in [Inserter -> {"idle", "make", "check", "init", "guard",
                                "tasks", "commit"}]
        /\ cur \in [Inserter -> OrNil]
        /\ pc[t] # "idle" => cur[t] \in Block
    BY DEF LInv, ChainType
  <1>1. CASE SendTask(t)
    <2>1. UNCHANGED <<chainVars, buffers, bufferChan, pc, cur, readPc>>
      BY <1>1 DEF SendTask, mem, buf, reader, chainVars
    <2> QED
      BY <2>1 DEF LInv, ChainType, LatestInv, IndexInv, SeedInv, WriterInv,
                  CheckedInv, Writing, Extends, chainVars
  <1>2. CASE TasksDone(t)
    <2>1. /\ pc[t] = "tasks" /\ pc' = [pc EXCEPT ![t] = "commit"]
          /\ UNCHANGED <<chainVars, buffers, bufferChan, cur, readPc>>
      BY <1>2 DEF TasksDone, mem, buf, reader, chainVars
    <2>2. /\ pc'[t] = "commit" /\ \A u \in Inserter \ {t} : pc'[u] = pc[u]
          /\ pc' \in [Inserter -> {"idle", "make", "check", "init", "guard",
                                   "tasks", "commit"}]
      BY <1>0, <2>1
    <2>3. (Writing(t)' <=> Writing(t)) /\ pc[t] # "idle"
      BY <2>1, <2>2 DEF Writing
    <2>4. /\ \A u \in Inserter \ {t} : pc'[u] = pc[u] /\ cur'[u] = cur[u]
          /\ cur' \in [Inserter -> OrNil] /\ cur'[t] = cur[t]
      BY <1>0, <2>1, <2>2
    <2>5. pc'[t] # "init" /\ pc'[t] # "guard"
      BY <2>2
    <2> QED
      BY <2>1, <2>2, <2>3, <2>4, <2>5, MovesKeep
  <1> QED
    BY <1>1, <1>2

(* The parameters of a genesis block have been made.                       *)
LEMMA MadeKeeps ==
  ASSUME LInv, GenesisMade
  PROVE  LInv'
  <1> DEFINE t == "maker"
  <1>1. /\ pc[t] = "make" /\ pc' = [pc EXCEPT ![t] = "check"] /\ t \in Inserter
        /\ UNCHANGED <<chainVars, buffers, bufferChan, cur, readPc>>
    BY DEF GenesisMade, Inserter, mem, buf, reader, chainVars
  <1>2. /\ pc'[t] = "check" /\ \A u \in Inserter \ {t} : pc'[u] = pc[u]
        /\ pc' \in [Inserter -> {"idle", "make", "check", "init", "guard",
                                 "tasks", "commit"}]
        /\ cur \in [Inserter -> OrNil]
    BY <1>1 DEF LInv, ChainType
  <1>3. (Writing(t)' <=> Writing(t)) /\ pc[t] # "idle"
    BY <1>1, <1>2 DEF Writing
  <1>4. /\ \A u \in Inserter \ {t} : pc'[u] = pc[u] /\ cur'[u] = cur[u]
        /\ cur' \in [Inserter -> OrNil] /\ cur'[t] = cur[t]
    BY <1>1, <1>2
  <1>5. pc'[t] # "init" /\ pc'[t] # "guard"
    BY <1>2
  <1> HIDE DEF t
  <1> QED
    BY <1>1, <1>2, <1>3, <1>4, <1>5, MovesKeep

(***************************************************************************)
(* The write: the database catches up with the memory, and every later     *)
(* block may pass VerifyBlockVDF.                                          *)
(***************************************************************************)
LEMMA CommitKeeps ==
  ASSUME LInv, NEW t \in Inserter, Commit(t)
  PROVE  LInv'
  <1> USE TreeFacts
  <1>0. /\ pc \in [Inserter -> {"idle", "make", "check", "init", "guard",
                                "tasks", "commit"}]
        /\ cur \in [Inserter -> OrNil]
        /\ \A u \in Inserter : pc[u] # "idle" => cur[u] \in Block
        /\ db \in [blocks : SUBSET Block, latest : OrNil,
                   byHeight : [0..MaxHeight -> OrNil]]
    BY DEF LInv, ChainType
  <1>1. /\ pc[t] = "commit" /\ db' = BatchInsert(cur[t])
        /\ seeded' = (seeded \/ cur[t] \in Genesis)
        /\ pc' = [pc EXCEPT ![t] = "idle"] /\ cur' = [cur EXCEPT ![t] = Nil]
        /\ UNCHANGED <<latestBlock, latestHeight, buffers, bufferChan, readPc>>
    BY DEF Commit, Return, mem, buf, reader
  <1>2. /\ pc'[t] = "idle" /\ cur'[t] = Nil
        /\ \A u \in Inserter \ {t} : pc'[u] = pc[u] /\ cur'[u] = cur[u]
        /\ cur[t] \in Block
    BY <1>0, <1>1
  <1>3. Writing(t) /\ \A u \in Inserter \ {t} : ~Writing(u)
    BY <1>1 DEF LInv, WriterInv, Writing
  <1>4. latestBlock = cur[t] /\ Extends(cur[t])
    BY <1>3 DEF LInv, WriterInv
  <1>5. /\ db'.latest = cur[t]
        /\ db'.byHeight[Height[cur[t]]] = cur[t]
        /\ db' \in [blocks : SUBSET Block, latest : OrNil,
                    byHeight : [0..MaxHeight -> OrNil]]
    BY <1>0, <1>1, <1>2 DEF BatchInsert, OrNil
  <1>6. ChainType'
    <2>1. /\ pc' \in [Inserter -> {"idle", "make", "check", "init", "guard",
                                   "tasks", "commit"}]
          /\ cur' \in [Inserter -> OrNil] /\ seeded' \in BOOLEAN
      BY <1>0, <1>1 DEF OrNil
    <2>2. \A u \in Inserter : pc'[u] # "idle" => cur'[u] \in Block
      BY <1>0, <1>2
    <2> QED
      BY <1>1, <1>5, <2>1, <2>2 DEF LInv, ChainType
  <1>7. LatestInv' /\ IndexInv'
    BY <1>1, <1>5 DEF LInv, LatestInv, IndexInv
  <1>8. SeedInv'
    <2>1. seeded' = TRUE
      BY <1>1, <1>4 DEF LInv, SeedInv, Extends, ChainType
    <2>2. db'.latest # Nil
      BY <1>2, <1>5
    <2> QED
      BY <1>2, <2>1, <2>2 DEF LInv, SeedInv
  <1>9. WriterInv'
    <2>1. \A u \in Inserter : ~Writing(u)'
      BY <1>2, <1>3 DEF Writing
    <2> QED
      BY <1>1, <1>4, <1>5, <2>1 DEF WriterInv
  <1>10. CheckedInv'
    BY <1>1, <1>2 DEF LInv, CheckedInv
  <1> QED
    BY <1>6, <1>7, <1>8, <1>9, <1>10 DEF LInv

(* A restart finds memory and database in agreement.                       *)
LEMMA CrashKeeps ==
  ASSUME LInv, Crash
  PROVE  LInv'
  <1> USE TreeFacts
  <1>1. /\ db' = db /\ latestBlock' = db.latest
        /\ latestHeight' = IF db.latest = Nil THEN -1 ELSE Height[db.latest]
        /\ buffers' = Restored /\ bufferChan' = <<>>
        /\ seeded' = (db.latest # Nil)
        /\ pc' = [t \in Inserter |-> "idle"]
        /\ cur' = [t \in Inserter |-> Nil]
        /\ readPc' = "idle"
    BY DEF Crash
  <1>2. /\ db \in [blocks : SUBSET Block, latest : OrNil,
                   byHeight : [0..MaxHeight -> OrNil]]
        /\ db.latest \in OrNil
    BY DEF LInv, ChainType
  <1>3. buffers' \in Seq([latest : Block, unsent : OrNil])
    <2>1. CASE db.latest = Nil
      BY <1>1, <2>1 DEF Restored
    <2>2. CASE db.latest # Nil
      <3>1. NewBuffer(db.latest) \in [latest : Block, unsent : OrNil]
        BY <1>2, <2>2 DEF NewBuffer, OrNil
      <3> QED
        BY <1>1, <2>2, <3>1 DEF Restored
    <2> QED
      BY <2>1, <2>2
  <1>4. ChainType'
    BY <1>1, <1>2, <1>3 DEF ChainType, OrNil
  <1>5. LatestInv' /\ IndexInv'
    BY <1>1 DEF LInv, LatestInv, IndexInv
  <1>6. SeedInv'
    <2>1. seeded' <=> db'.latest # Nil
      BY <1>1
    <2>2. \A t \in Inserter : cur'[t] = Nil
      BY <1>1
    <2>3. ~seeded' => buffers' = <<>>
      BY <1>1 DEF Restored
    <2>4. ~seeded' => \A i \in 1..Len(buffers') : buffers'[i].unsent = Nil
      BY <2>3
    <2>5. \A i \in 1..Len(bufferChan') : bufferChan'[i] \in Genesis
      BY <1>1
    <2> QED
      BY <2>1, <2>2, <2>4, <2>5 DEF SeedInv
  <1>7. WriterInv' /\ CheckedInv'
    BY <1>1 DEF WriterInv, CheckedInv, Writing
  <1> QED
    BY <1>4, <1>5, <1>6, <1>7 DEF LInv

(* What each step leaves of the database and of the kind of fault.         *)
LEMMA OnlyCommitWrites ==
  ASSUME Next
  PROVE  /\ fault' = fault
         /\ db' = db \/ \E t \in Inserter : Commit(t)
  BY DEF Next, Insert, AppendBlockTask, NewGenesisBlock, InsertBlock,
         GenesisMade, BufferSend, BufferAdvance, BlockProcessRoutine,
         InsertExists, InsertRefuse, InsertCheck, createBlockBuffer,
         GuardRefuse, GuardPass, SendTask, TasksDone, InsertAbort, Commit,
         CommitFails, TakeTask, ReadNil, ReadDb, ReadSet, Crash

LEMMA StepChain ==
  ASSUME LInv, fault = "crash", Next
  PROVE  LInv'
  <1>1. CASE \E b \in Genesis :
               AppendBlockTask(b) \/ NewGenesisBlock(b) \/ InsertBlock(b)
    BY <1>1, OffersKeep
  <1>2. CASE GenesisMade
    BY <1>2, MadeKeeps
  <1>3. CASE \/ \E i \in 1..Len(buffers) :
                  BufferSend(i) \/ \E b \in Block : BufferAdvance(i, b)
             \/ BlockProcessRoutine
    BY <1>3, BuffersKeep
  <1>4. ASSUME NEW t \in Inserter, Insert(t)
        PROVE  LInv'
    <2>1. CASE \/ InsertExists(t) \/ InsertRefuse(t) \/ InsertCheck(t)
               \/ createBlockBuffer(t) \/ GuardRefuse(t)
      BY <2>1, BeforeGuardKeeps
    <2>2. CASE GuardPass(t)
      BY <2>2, GuardKeeps
    <2>3. CASE SendTask(t) \/ TasksDone(t)
      BY <2>3, TasksKeep
    <2>4. CASE Commit(t)
      BY <2>4, CommitKeeps
    <2>5. ~InsertAbort(t) /\ ~CommitFails(t)
      BY DEF InsertAbort, CommitFails
    <2> QED
      BY <1>4, <2>1, <2>2, <2>3, <2>4, <2>5 DEF Insert
  <1>5. CASE TakeTask
    <2>1. UNCHANGED <<chainVars, buffers, bufferChan, pc, cur, readPc>>
      BY <1>5 DEF TakeTask, mem, buf, ins, reader, chainVars
    <2> QED
      BY <2>1 DEF LInv, ChainType, LatestInv, IndexInv, SeedInv, WriterInv,
                  CheckedInv, Writing, Extends, chainVars
  <1>6. ~(ReadNil \/ ReadDb \/ ReadSet)
    BY DEF LInv, ChainType, ReadNil, ReadDb, ReadSet
  <1>7. CASE Crash
    BY <1>7, CrashKeeps
  <1> QED
    BY <1>1, <1>2, <1>3, <1>4, <1>5, <1>6, <1>7 DEF Next

LEMMA ChainInvariance == Spec => []CInv
  <1>1. Init => CInv
    BY InitChain DEF CInv
  <1>2. CInv /\ [Next]_vars => CInv'
    <2> SUFFICES ASSUME CInv, [Next]_vars, fault' = "crash"
                 PROVE  LInv'
      BY DEF CInv
    <2>1. CASE Next
      BY <2>1, OnlyCommitWrites, StepChain DEF CInv
    <2>2. CASE UNCHANGED vars
      BY <2>2 DEF CInv, LInv, ChainType, LatestInv, IndexInv, SeedInv,
         WriterInv, CheckedInv, Writing, Extends, vars, mem, buf, ins, reader
    <2> QED
      BY <2>1, <2>2
  <1> QED
    BY <1>1, <1>2, PTL DEF Spec

(***************************************************************************)
(* The write appends the writer's block to the chain read through the      *)
(* height index: it extends the block stored under the last height.        *)
(***************************************************************************)
LEMMA CommitExtends ==
  ASSUME LInv, fault = "crash", fault' = fault, NEW t \in Inserter, Commit(t)
  PROVE  L!LedgerNext
  <1> DEFINE b == cur[t]
  <1> USE TreeFacts
  <1>1. b \in Block /\ Extends(b) /\ db' = BatchInsert(b)
    BY DEF Commit, LInv, ChainType, WriterInv, Writing
  <1>2. /\ db \in [blocks : SUBSET Block, latest : OrNil,
                   byHeight : [0..MaxHeight -> OrNil]]
        /\ Height[b] \in 0..MaxHeight
    BY <1>1 DEF LInv, ChainType
  <1>3. /\ db'.latest = b /\ b # Nil
        /\ db'.byHeight = [db.byHeight EXCEPT ![Height[b]] = b]
    BY <1>1 DEF BatchInsert
  <1>4. StoredChain' = [i \in 1..(Height[b] + 1) |-> db'.byHeight[i - 1]]
    BY <1>3 DEF StoredChain
  <1>5. L!Extend(b)
    <2>1. CASE db.latest = Nil
      <3>1. StoredChain = <<>> /\ Height[b] = 0 /\ Prev[b] = Nil
        BY <1>1, <2>1 DEF StoredChain, Extends, Genesis
      <3>2. StoredChain' = <<b>>
        <4>1. db'.byHeight[0] = b
          BY <1>2, <1>3, <3>1
        <4>2. StoredChain' = [i \in 1..1 |-> db'.byHeight[i - 1]]
          BY <1>4, <3>1
        <4> HIDE DEF b
        <4> QED
          BY <4>1, <4>2
      <3> QED
        BY <3>1, <3>2 DEF L!Extend
    <2>2. CASE db.latest # Nil
      <3> DEFINE h == Height[db.latest]
      <3>1. /\ Prev[b] = db.latest /\ db.latest \in Block /\ h \in 0..MaxHeight
            /\ Height[b] = h + 1 /\ db.byHeight[h] = db.latest
        BY <1>1, <1>2, <2>2 DEF Extends, LInv, IndexInv, OrNil
      <3>2. StoredChain = [i \in 1..(h + 1) |-> db.byHeight[i - 1]]
        BY <2>2 DEF StoredChain
      <3>3. /\ StoredChain \in Seq(OrNil) /\ Len(StoredChain) = h + 1
            /\ StoredChain # <<>>
            /\ StoredChain[Len(StoredChain)] = db.latest
        <4>1. \A i \in 1..(h + 1) : db.byHeight[i - 1] \in OrNil
          BY <1>2, <3>1
        <4>2. /\ h + 1 \in Nat /\ h + 1 \in 1..(h + 1)
              /\ db.byHeight[(h + 1) - 1] = db.latest
          BY <3>1
        <4> HIDE DEF h
        <4>3. StoredChain \in Seq(OrNil)
          BY <3>2, <4>1, <4>2
        <4>4. Len(StoredChain) = h + 1
          BY <3>2, <4>2
        <4> QED
          BY <3>2, <4>2, <4>3, <4>4
      <3>4. StoredChain' = Append(StoredChain, b)
        <4>1. /\ StoredChain' = [i \in 1..(h + 2) |-> db'.byHeight[i - 1]]
              /\ \A i \in 1..(h + 1) : db'.byHeight[i - 1] = db.byHeight[i - 1]
              /\ db'.byHeight[h + 1] = b
          BY <1>2, <1>3, <1>4, <3>1
        <4>2. \A i \in 1..(h + 2) :
                db'.byHeight[i - 1] = IF i <= h + 1 THEN db.byHeight[i - 1] ELSE b
          <5>1. ASSUME NEW i \in 1..(h + 2)
                PROVE  db'.byHeight[i - 1] =
                         IF i <= h + 1 THEN db.byHeight[i - 1] ELSE b
            <6>1. CASE i <= h + 1
              BY <3>1, <4>1, <6>1
            <6>2. CASE i = h + 2
              BY <3>1, <4>1, <6>2
            <6> QED
              BY <3>1, <6>1, <6>2
          <5> QED
            BY <5>1
        <4> HIDE DEF h, b
        <4> QED
          BY <3>1, <3>2, <3>3, <4>1, <4>2
      <3> QED
        BY <3>1, <3>3, <3>4 DEF L!Extend
    <2> QED
      BY <2>1, <2>2
  <1> QED
    BY <1>1, <1>5 DEF L!LedgerNext

(***************************************************************************)
(* The chain store implements Ledger: with three goroutines inserting,     *)
(* genesis blocks handed in anywhere, buffers started over and any number  *)
(* of crashes, every write extends the durable chain by one child of its   *)
(* last block, and a restart finds it as it was.                           *)
(***************************************************************************)
THEOREM ChainOnlyGrows == Spec => ImplementsLedger
  <1>1. Init => L!LedgerInit
    BY DEF Init, L!LedgerInit, StoredChain
  <1>2. CInv /\ [Next]_vars => [L!LedgerNext]_StoredChain
    <2> SUFFICES ASSUME CInv, [Next]_vars
                 PROVE  L!LedgerNext \/ StoredChain' = StoredChain
      OBVIOUS
    <2>1. fault' = fault /\ (db' = db \/ \E t \in Inserter : Commit(t))
      BY OnlyCommitWrites DEF vars
    <2>2. CASE fault # "crash"
      BY <2>1, <2>2 DEF StoredChain
    <2>3. CASE fault = "crash" /\ db' = db
      BY <2>1, <2>3 DEF StoredChain
    <2>4. CASE fault = "crash" /\ \E t \in Inserter : Commit(t)
      BY <2>1, <2>4, CommitExtends DEF CInv
    <2> QED
      BY <2>1, <2>2, <2>3, <2>4
  <1> QED
    BY <1>1, <1>2, ChainInvariance, PTL DEF Spec, ImplementsLedger, L!LedgerSpec

-----------------------------------------------------------------------------
(***************************************************************************)
(* The types of the store under every fault, and the order in which it     *)
(* sends data tasks when a crash, a failing write or a failing encoding    *)
(* comes in between.  The order needs none of the database: it follows     *)
(* from the height guard and from who can be past it.                      *)
(***************************************************************************)
BufferState == [latest : Block, unsent : OrNil]
Steps == {"idle", "make", "check", "init", "guard", "tasks", "commit"}

TypeInv ==
  /\ TypeOK
  /\ \A t \in Inserter : pc[t] # "idle" => cur[t] \in Block
  /\ readPc = "set" => readLatest \in Block

LEMMA LruBlocks ==
  ASSUME NEW c \in SUBSET Block, NEW b \in Block, NEW d \in LruAdd(c, b)
  PROVE  d \subseteq Block
  BY DEF LruAdd

LEMMA OfferFacts ==
  ASSUME NEW f \in Fault
  PROVE  Offers[f] \subseteq AllOffers
  BY DEF AllOffers

LEMMA InitTypes ==
  ASSUME Init
  PROVE  TypeInv
  <1> USE TreeFacts, ChainAssumption DEF Init
  <1>1. /\ <<>> \in Seq(BufferState) /\ <<>> \in Seq(Block)
        /\ <<>> \in Seq(Block \X Nat)
    OBVIOUS
  <1>2. /\ latestBlock \in OrNil /\ readLatest \in OrNil
        /\ cur \in [Inserter -> OrNil]
        /\ db \in [blocks : SUBSET Block, latest : OrNil,
                   byHeight : [0..MaxHeight -> OrNil]]
    BY DEF OrNil
  <1>3. offers \subseteq AllOffers
    BY OfferFacts
  <1>4. latestHeight \in -1..MaxHeight /\ blockCache \subseteq Block
    OBVIOUS
  <1>5. /\ pc \in [Inserter -> Steps] /\ idx \in [Inserter -> Nat]
        /\ crashes \in 0..MaxCrashes /\ reads \in 0..MaxReads
    BY DEF Steps
  <1> QED
    BY <1>1, <1>2, <1>3, <1>4, <1>5 DEF TypeInv, TypeOK, BufferState, Steps

(* The goroutines that hand in genesis blocks, and those of the buffers.   *)
LEMMA HandInTypes ==
  ASSUME TypeInv,
         \/ \E b \in Genesis :
              AppendBlockTask(b) \/ NewGenesisBlock(b) \/ InsertBlock(b)
         \/ GenesisMade \/ BlockProcessRoutine
  PROVE  TypeInv'
  <1> USE TreeFacts DEF TypeInv, TypeOK
  <1>1. ASSUME NEW b \in Genesis, AppendBlockTask(b) \/ NewGenesisBlock(b)
        PROVE  TypeInv'
    <2>1. PICK t \in {"caller", "maker"} :
            /\ \/ pc' = [pc EXCEPT ![t] = "check"]
               \/ pc' = [pc EXCEPT ![t] = "make"]
            /\ cur' = [cur EXCEPT ![t] = b]
      BY <1>1 DEF AppendBlockTask, NewGenesisBlock
    <2>2. /\ offers' \subseteq offers
          /\ UNCHANGED <<db, mem, buf, seeded, idx, data, reader, crashes,
                         reads, fault>>
      BY <1>1 DEF AppendBlockTask, NewGenesisBlock
    <2>3. /\ pc' \in [Inserter -> Steps] /\ cur' \in [Inserter -> OrNil]
          /\ \A u \in Inserter : pc'[u] # "idle" => cur'[u] \in Block
      BY <2>1 DEF Steps, OrNil
    <2> QED
      BY <2>2, <2>3 DEF mem, buf, data, reader, Steps
  <1>2. ASSUME NEW b \in Genesis, InsertBlock(b)
        PROVE  TypeInv'
    <2>1. bufferChan' \in Seq(Block) /\ offers' \subseteq offers
      BY <1>2 DEF InsertBlock
    <2>2. UNCHANGED <<db, mem, buffers, seeded, ins, data, reader, crashes,
                      reads, fault>>
      BY <1>2 DEF InsertBlock
    <2> QED
      BY <2>1, <2>2 DEF mem, ins, data, reader
  <1>3. CASE GenesisMade
    <2>1. /\ pc' \in [Inserter -> Steps] /\ pc["maker"] # "idle"
          /\ \A u \in Inserter : pc'[u] # "idle" => cur[u] \in Block
      BY <1>3 DEF GenesisMade, Steps
    <2>2. UNCHANGED <<db, mem, buf, seeded, cur, idx, data, reader, offers,
                      crashes, reads, fault>>
      BY <1>3 DEF GenesisMade
    <2> QED
      BY <2>1, <2>2 DEF mem, buf, data, reader, Steps
  <1>4. CASE BlockProcessRoutine
    <2>1. Head(bufferChan) \in Block /\ bufferChan' \in Seq(Block)
      BY <1>4 DEF BlockProcessRoutine
    <2>2. /\ cur' = [cur EXCEPT !["routine"] = Head(bufferChan)]
          /\ pc' = [pc EXCEPT !["routine"] = "check"]
          /\ UNCHANGED <<db, mem, buffers, seeded, idx, data, reader, offers,
                         crashes, reads, fault>>
      BY <1>4 DEF BlockProcessRoutine
    <2>3. /\ pc' \in [Inserter -> Steps] /\ cur' \in [Inserter -> OrNil]
          /\ \A u \in Inserter : pc'[u] # "idle" => cur'[u] \in Block
      BY <2>1, <2>2 DEF Steps, OrNil
    <2> QED
      BY <2>1, <2>2, <2>3 DEF mem, data, reader, Steps
  <1> QED
    BY <1>1, <1>2, <1>3, <1>4

LEMMA BufferTypes ==
  ASSUME TypeInv, NEW i \in 1..Len(buffers),
         BufferSend(i) \/ \E b \in Block : BufferAdvance(i, b)
  PROVE  TypeInv'
  <1> USE TreeFacts DEF TypeInv, TypeOK
  <1>0. buffers \in Seq(BufferState) /\ buffers[i] \in BufferState
    BY ElementOfSeq DEF BufferState
  <1>1. ASSUME NEW b \in Block, BufferAdvance(i, b)
        PROVE  TypeInv'
    <2>1. [latest |-> b, unsent |-> b] \in BufferState
      BY DEF BufferState, OrNil
    <2>2. buffers' \in Seq(BufferState)
      BY <1>0, <1>1, <2>1, ExceptSeq DEF BufferAdvance
    <2>3. UNCHANGED <<db, mem, bufferChan, seeded, ins, data, reader, offers,
                      crashes, reads, fault>>
      BY <1>1 DEF BufferAdvance
    <2> QED
      BY <2>2, <2>3 DEF mem, ins, data, reader, BufferState
  <1>2. CASE BufferSend(i)
    <2>1. buffers[i].unsent \in Block
      BY <1>0, <1>2 DEF BufferSend, BufferState, OrNil
    <2>2. bufferChan' \in Seq(Block)
      BY <1>2, <2>1 DEF BufferSend
    <2>3. buffers' \in Seq(BufferState)
      <3>1. buffers' = [buffers EXCEPT ![i] = [@ EXCEPT !.unsent = Nil]]
        BY <1>2 DEF BufferSend
      <3>2. [buffers[i] EXCEPT !.unsent = Nil] \in BufferState
        BY <1>0 DEF BufferState, OrNil
      <3> QED
        BY <1>0, <3>1, <3>2, ExceptSeq
    <2>4. UNCHANGED <<db, mem, seeded, ins, data, reader, offers, crashes,
                      reads, fault>>
      BY <1>2 DEF BufferSend
    <2> QED
      BY <2>2, <2>3, <2>4 DEF mem, ins, data, reader, BufferState
  <1> QED
    BY <1>1, <1>2

(* What the steps of insertBlock change besides the caller's pc and block. *)
LEMMA InsertTypes ==
  ASSUME TypeInv, NEW t \in Inserter, Insert(t)
  PROVE  TypeInv'
  <1> USE TreeFacts DEF TypeInv, TypeOK
  <1>0. /\ pc \in [Inserter -> Steps] /\ cur \in [Inserter -> OrNil]
        /\ idx \in [Inserter -> Nat]
    BY DEF Steps
  <1>1. pc[t] # "idle" /\ cur[t] \in Block
    BY DEF Insert, InsertExists, InsertRefuse, InsertCheck, createBlockBuffer,
           GuardRefuse, GuardPass, SendTask, TasksDone, InsertAbort, Commit,
           CommitFails
  <1> DEFINE Inserters ==
               /\ pc \in [Inserter -> Steps] /\ cur \in [Inserter -> OrNil]
               /\ idx \in [Inserter -> Nat]
               /\ \A u \in Inserter : pc[u] # "idle" => cur[u] \in Block
  <1>2. Inserters'
    <2>1. ASSUME Return(t)
          PROVE  Inserters'
      BY <1>0, <2>1 DEF Return, Steps, OrNil
    <2>2. ASSUME NEW s \in Steps, pc' = [pc EXCEPT ![t] = s],
                 UNCHANGED <<cur, idx>>
          PROVE  Inserters'
      BY <1>0, <1>1, <2>2
    <2>3. CASE SendTask(t)
      BY <1>0, <1>1, <2>3, SMTT(30) DEF SendTask
    <2>4. \/ Return(t) \/ SendTask(t)
          \/ (\E s \in {"init", "guard", "tasks", "commit"} :
                pc' = [pc EXCEPT ![t] = s]) /\ UNCHANGED <<cur, idx>>
      BY DEF Insert, InsertExists, InsertRefuse, InsertCheck,
             createBlockBuffer, GuardRefuse, GuardPass, TasksDone,
             InsertAbort, Commit, CommitFails
    <2> QED
      BY <2>1, <2>2, <2>3, <2>4 DEF Steps
  <1>3. UNCHANGED <<bufferChan, reader, offers, crashes, reads, fault>>
    BY DEF Insert, InsertExists, InsertRefuse, InsertCheck, createBlockBuffer,
           GuardRefuse, GuardPass, SendTask, TasksDone, InsertAbort, Commit,
           CommitFails, buf
  <1>4. db' \in [blocks : SUBSET Block, latest : OrNil,
                 byHeight : [0..MaxHeight -> OrNil]]
    <2>1. CASE Commit(t)
      BY <1>1, <2>1 DEF Commit, BatchInsert, OrNil
    <2>2. CASE ~Commit(t)
      BY <2>2 DEF Insert, InsertExists, InsertRefuse, InsertCheck,
                  createBlockBuffer, GuardRefuse, GuardPass, SendTask,
                  TasksDone, InsertAbort, CommitFails
    <2> QED
      BY <2>1, <2>2
  <1>5. /\ latestBlock' \in OrNil /\ latestHeight' \in -1..MaxHeight
        /\ blockCache' \subseteq Block
    <2>1. CASE GuardPass(t)
      BY <1>1, <2>1, LruBlocks DEF GuardPass, OrNil
    <2>2. CASE InsertExists(t)
      BY <1>1, <2>2, LruBlocks DEF InsertExists
    <2>3. CASE ~GuardPass(t) /\ ~InsertExists(t)
      BY <2>3 DEF Insert, InsertRefuse, InsertCheck, createBlockBuffer,
                  GuardRefuse, SendTask, TasksDone, InsertAbort, Commit,
                  CommitFails, mem
    <2> QED
      BY <2>1, <2>2, <2>3
  <1>6. buffers' \in Seq(BufferState)
    <2>1. CASE createBlockBuffer(t)
      <3>1. NewBuffer(cur[t]) \in BufferState
        BY <1>1 DEF NewBuffer, BufferState, OrNil
      <3> QED
        BY <2>1, <3>1 DEF createBlockBuffer, BufferState
    <2>2. CASE ~createBlockBuffer(t)
      BY <2>2 DEF Insert, InsertExists, InsertRefuse, InsertCheck,
                  GuardRefuse, GuardPass, SendTask, TasksDone, InsertAbort,
                  Commit, CommitFails, buf, BufferState
    <2> QED
      BY <2>1, <2>2
  <1>7. seeded' \in BOOLEAN
    BY DEF Insert, InsertExists, InsertRefuse, InsertCheck, createBlockBuffer,
           GuardRefuse, GuardPass, SendTask, TasksDone, InsertAbort, Commit,
           CommitFails
  <1>8. taskChannel' \in Seq(Block \X Nat) /\ sent' \in Seq(Block \X Nat)
    <2>1. CASE SendTask(t)
      <3>1. <<cur[t], idx[t]>> \in Block \X Nat
        BY <1>0, <1>1
      <3> QED
        BY <2>1, <3>1 DEF SendTask
    <2>2. CASE ~SendTask(t)
      BY <2>2 DEF Insert, InsertExists, InsertRefuse, InsertCheck,
                  createBlockBuffer, GuardRefuse, GuardPass, TasksDone,
                  InsertAbort, Commit, CommitFails, data
    <2> QED
      BY <2>1, <2>2
  <1> QED
    BY <1>2, <1>3, <1>4, <1>5, <1>6, <1>7, <1>8
       DEF reader, BufferState, Steps

(* The late answer of GetLatestBlock, and a crash.                         *)
LEMMA OtherTypes ==
  ASSUME TypeInv, TakeTask \/ ReadNil \/ ReadDb \/ ReadSet \/ Crash
  PROVE  TypeInv'
  <1> USE TreeFacts DEF TypeInv, TypeOK
  <1>1. CASE TakeTask
    <2>1. taskChannel' \in Seq(Block \X Nat)
      BY <1>1 DEF TakeTask
    <2> QED
      BY <1>1, <2>1 DEF TakeTask, mem, buf, ins, reader
  <1>2. CASE ReadNil
    <2>1. reads' \in 0..MaxReads
      BY <1>2, ChainAssumption DEF ReadNil
    <2> QED
      BY <1>2, <2>1 DEF ReadNil, mem, buf, ins, data
  <1>3. CASE ReadDb
    <2>1. db.latest \in OrNil
      OBVIOUS
    <2>2. blockCache' \subseteq Block
      BY <1>3, <2>1, LruBlocks DEF ReadDb, OrNil
    <2>3. readPc' = "set" => readLatest' \in Block
      BY <1>3, <2>1 DEF ReadDb, OrNil
    <2> QED
      BY <1>3, <2>1, <2>2, <2>3 DEF ReadDb, buf, ins, data
  <1>4. CASE ReadSet
    BY <1>4 DEF ReadSet, buf, ins, data, OrNil
  <1>5. CASE Crash
    <2>1. db.latest \in OrNil /\ db.byHeight[0] \in OrNil
      <3>1. 0 \in 0..MaxHeight
        OBVIOUS
      <3> QED
        BY <3>1
    <2>2. /\ latestBlock' \in OrNil /\ latestHeight' \in -1..MaxHeight
          /\ blockCache' \subseteq Block
      <3>1. latestBlock' \in OrNil /\ blockCache' \subseteq Block
        BY <1>5, <2>1 DEF Crash, OrNil
      <3>2. latestHeight' \in -1..MaxHeight
        BY <1>5, <2>1 DEF Crash, OrNil
      <3> QED
        BY <3>1, <3>2
    <2>3. buffers' \in Seq(BufferState)
      <3>1. db.latest # Nil => NewBuffer(db.latest) \in BufferState
        BY <2>1 DEF NewBuffer, BufferState, OrNil
      <3> QED
        BY <1>5, <3>1 DEF Crash, Restored
    <2>4. crashes' \in 0..MaxCrashes
      BY <1>5, ChainAssumption DEF Crash
    <2>5. offers' \subseteq AllOffers
      BY <1>5, OfferFacts DEF Crash
    <2>6. /\ pc' \in [Inserter -> Steps] /\ cur' \in [Inserter -> OrNil]
          /\ idx' \in [Inserter -> Nat]
          /\ \A t \in Inserter : pc'[t] = "idle"
      BY <1>5 DEF Crash, Steps, OrNil
    <2>7. /\ bufferChan' \in Seq(Block)
          /\ taskChannel' \in Seq(Block \X Nat) /\ sent' \in Seq(Block \X Nat)
      BY <1>5 DEF Crash
    <2>8. /\ seeded' \in BOOLEAN /\ readPc' = "idle" /\ readLatest' \in OrNil
          /\ UNCHANGED <<db, reads, fault>>
      BY <1>5 DEF Crash, OrNil
    <2> QED
      BY <2>2, <2>3, <2>4, <2>5, <2>6, <2>7, <2>8 DEF BufferState, Steps
  <1> QED
    BY <1>1, <1>2, <1>3, <1>4, <1>5

(* Every step of every goroutine keeps the types.                          *)
LEMMA StepTypes ==
  ASSUME TypeInv, [Next]_vars
  PROVE  TypeInv'
  <1>1. CASE UNCHANGED vars
    BY <1>1 DEF vars, mem, buf, ins, data, reader, TypeInv, TypeOK
  <1>2. CASE Next
    BY <1>2, HandInTypes, BufferTypes, InsertTypes, OtherTypes DEF Next
  <1> QED
    BY <1>1, <1>2

(* In every behaviour, whatever fails or crashes, the chain store's        *)
(* variables keep their types: the latest height is that of a block of the *)
(* tree, and a goroutine past its check holds a block.                     *)
THEOREM ChainTypeCorrect == Spec => []TypeOK
  <1>1. Init => TypeInv
    BY InitTypes
  <1>2. TypeInv /\ [Next]_vars => TypeInv'
    BY StepTypes
  <1>3. TypeInv => TypeOK
    BY DEF TypeInv
  <1> QED
    BY <1>1, <1>2, <1>3, PTL DEF Spec

-----------------------------------------------------------------------------
(***************************************************************************)
(* The order of the data tasks.  Before the seed every goroutine holds     *)
(* genesis blocks only, and after it the two that are given nothing else   *)
(* never pass the height guard again: so one goroutine at most is past it, *)
(* and what was sent lies below its block, or before its next transaction. *)
(***************************************************************************)
GenesisFirst ==
  /\ \A t \in {"caller", "maker"} : cur[t] \in Genesis \cup {Nil}
  /\ ~seeded =>
       /\ cur["routine"] \in Genesis \cup {Nil}
       /\ \A i \in 1..Len(bufferChan) : bufferChan[i] \in Genesis
       /\ \A i \in 1..Len(buffers) : buffers[i].unsent = Nil

OneWriter ==
  /\ \A t, u \in Inserter : Writing(t) /\ Writing(u) => t = u
  /\ \A t \in Inserter : IF Writing(t) THEN latestBlock = cur[t]
                                       ELSE idx[t] = 0
  /\ seeded => /\ latestBlock # Nil
               /\ \A t \in {"caller", "maker"} : ~Writing(t)

(* The task s comes before transaction i of block b.                       *)
Before(s, b, i) == \/ Height[s[1]] < Height[b]
                   \/ s[1] = b /\ s[2] < i

SentInv ==
  /\ \A i \in 1..Len(sent) : Height[sent[i][1]] <= latestHeight
  /\ \A t \in Inserter : Writing(t) =>
       \A i \in 1..Len(sent) : Before(sent[i], cur[t], idx[t])

SentOrdered ==
  \A i, j \in 1..Len(sent) : i < j => Before(sent[i], sent[j][1], sent[j][2])

TaskInv ==
  /\ readPc = "idle" /\ LatestInv
  /\ GenesisFirst /\ OneWriter /\ SentInv /\ SentOrdered

(* A step that touches neither the latest block nor the tasks: a goroutine *)
(* past the guard goes on with its block or returns, and nobody passes it. *)
Quiet ==
  /\ UNCHANGED <<latestBlock, latestHeight, seeded, sent, readPc>>
  /\ \A t \in Inserter :
       \/ /\ Writing(t) /\ Writing(t)'
          /\ cur'[t] = cur[t] /\ idx'[t] = idx[t]
       \/ /\ ~Writing(t)'
          /\ idx'[t] = 0 \/ (~Writing(t) /\ idx'[t] = idx[t])

LEMMA QuietKeeps ==
  ASSUME TaskInv, Quiet, GenesisFirst'
  PROVE  TaskInv'
  <1> USE DEF TaskInv
  <1>1. readPc' = "idle" /\ LatestInv'
    BY DEF Quiet, LatestInv
  <1>2. OneWriter'
    <2>1. \A t \in Inserter : Writing(t)' => Writing(t) /\ cur'[t] = cur[t]
      BY DEF Quiet
    <2>2. \A t \in Inserter : ~Writing(t)' => idx'[t] = 0
      BY DEF Quiet, OneWriter
    <2>3. {"caller", "maker"} \subseteq Inserter
      BY TreeFacts
    <2> QED
      BY <2>1, <2>2, <2>3 DEF Quiet, OneWriter
  <1>3. SentInv'
    BY DEF Quiet, SentInv, Before
  <1>4. SentOrdered'
    BY DEF Quiet, SentOrdered, Before
  <1> QED
    BY <1>1, <1>2, <1>3, <1>4

(* The goroutines that hand in genesis blocks, and those of the buffers.   *)
LEMMA HandInTasks ==
  ASSUME TypeInv, TaskInv,
         \/ \E b \in Genesis :
              AppendBlockTask(b) \/ NewGenesisBlock(b) \/ InsertBlock(b)
         \/ GenesisMade \/ BlockProcessRoutine
  PROVE  TaskInv'
  <1>0. /\ pc \in [Inserter -> Steps] /\ cur \in [Inserter -> OrNil]
        /\ bufferChan \in Seq(Block)
    BY DEF TypeInv, TypeOK, Steps
  <1> USE TreeFacts, <1>0
  <1>1. ASSUME NEW b \in Genesis, AppendBlockTask(b) \/ NewGenesisBlock(b)
        PROVE  Quiet /\ GenesisFirst'
    <2>1. PICK t \in {"caller", "maker"} :
            /\ pc[t] = "idle"
            /\ \/ pc' = [pc EXCEPT ![t] = "check"]
               \/ pc' = [pc EXCEPT ![t] = "make"]
            /\ cur' = [cur EXCEPT ![t] = b]
      BY <1>1 DEF AppendBlockTask, NewGenesisBlock
    <2>2. UNCHANGED <<latestBlock, latestHeight, seeded, sent, readPc, idx,
                      bufferChan, buffers>>
      BY <1>1 DEF AppendBlockTask, NewGenesisBlock, mem, buf, data, reader
    <2>3. /\ ~Writing(t) /\ ~Writing(t)'
          /\ \A u \in Inserter \ {t} : pc'[u] = pc[u] /\ cur'[u] = cur[u]
      BY <2>1 DEF Writing
    <2>4. Quiet
      BY <2>2, <2>3 DEF Quiet, Writing
    <2>5. GenesisFirst'
      BY <2>1, <2>2 DEF TaskInv, GenesisFirst
    <2> QED
      BY <2>4, <2>5
  <1>2. ASSUME NEW b \in Genesis, InsertBlock(b)
        PROVE  Quiet /\ GenesisFirst'
    <2>1. /\ bufferChan' = Append(bufferChan, b)
          /\ UNCHANGED <<latestBlock, latestHeight, seeded, sent, readPc, pc,
                         cur, idx, buffers>>
      BY <1>2 DEF InsertBlock, mem, ins, data, reader
    <2>2. Quiet
      BY <2>1 DEF Quiet, Writing
    <2>3. ~seeded => \A i \in 1..Len(bufferChan') : bufferChan'[i] \in Genesis
      <3>1. /\ Len(bufferChan') = Len(bufferChan) + 1
            /\ bufferChan'[Len(bufferChan) + 1] = b
            /\ \A i \in 1..Len(bufferChan) : bufferChan'[i] = bufferChan[i]
        BY <2>1
      <3> QED
        BY <3>1 DEF TaskInv, GenesisFirst
    <2>4. GenesisFirst'
      BY <2>1, <2>3 DEF TaskInv, GenesisFirst
    <2> QED
      BY <2>2, <2>4
  <1>3. ASSUME GenesisMade
        PROVE  Quiet /\ GenesisFirst'
    <2>1. /\ pc["maker"] = "make" /\ pc' = [pc EXCEPT !["maker"] = "check"]
          /\ UNCHANGED <<latestBlock, latestHeight, seeded, sent, readPc, cur,
                         idx, buffers, bufferChan>>
      BY <1>3 DEF GenesisMade, mem, buf, data, reader
    <2>2. Quiet
      BY <2>1 DEF Quiet, Writing
    <2> QED
      BY <2>1, <2>2 DEF TaskInv, GenesisFirst
  <1>4. ASSUME BlockProcessRoutine
        PROVE  Quiet /\ GenesisFirst'
    <2>1. /\ pc["routine"] = "idle" /\ bufferChan # <<>>
          /\ pc' = [pc EXCEPT !["routine"] = "check"]
          /\ cur' = [cur EXCEPT !["routine"] = Head(bufferChan)]
          /\ bufferChan' = Tail(bufferChan)
          /\ UNCHANGED <<latestBlock, latestHeight, seeded, sent, readPc, idx,
                         buffers>>
      BY <1>4 DEF BlockProcessRoutine, mem, data, reader
    <2>2. Quiet
      BY <2>1 DEF Quiet, Writing
    <2>3. /\ Head(bufferChan) = bufferChan[1] /\ 1 \in 1..Len(bufferChan)
          /\ \A i \in 1..Len(bufferChan') : /\ i + 1 \in 1..Len(bufferChan)
                                            /\ bufferChan'[i] = bufferChan[i + 1]
      BY <2>1
    <2>4. GenesisFirst'
      BY <2>1, <2>3 DEF TaskInv, GenesisFirst
    <2> QED
      BY <2>2, <2>4
  <1> QED
    BY <1>1, <1>2, <1>3, <1>4, QuietKeeps

LEMMA BufferTasks ==
  ASSUME TypeInv, TaskInv, NEW i \in 1..Len(buffers),
         BufferSend(i) \/ \E b \in Block : BufferAdvance(i, b)
  PROVE  TaskInv'
  <1>1. /\ seeded
        /\ UNCHANGED <<latestBlock, latestHeight, seeded, sent, readPc, pc,
                       cur, idx>>
    <2>1. BufferSend(i) => seeded
      BY DEF BufferSend, TaskInv, GenesisFirst
    <2> QED
      BY <2>1, TreeFacts
         DEF BufferSend, BufferAdvance, mem, ins, data, reader, TypeInv, TypeOK
  <1>2. Quiet
    BY <1>1 DEF Quiet, Writing, TaskInv, OneWriter
  <1>3. GenesisFirst'
    BY <1>1 DEF TaskInv, GenesisFirst
  <1> QED
    BY <1>2, <1>3, QuietKeeps

(* A return from insertBlock releases the writer's place, if it was held.  *)
LEMMA ReturnTasks ==
  ASSUME TypeInv, NEW t \in Inserter, Return(t)
  PROVE  /\ ~Writing(t)' /\ idx'[t] = 0 /\ cur'[t] = Nil
         /\ \A u \in Inserter \ {t} : /\ Writing(u)' <=> Writing(u)
                                      /\ cur'[u] = cur[u] /\ idx'[u] = idx[u]
  BY DEF Return, Writing, TypeInv, TypeOK

LEMMA GenesisReturns ==
  ASSUME TypeInv, GenesisFirst, NEW t \in Inserter, Return(t),
         seeded => seeded', UNCHANGED buf
  PROVE  GenesisFirst'
  BY ReturnTasks, TreeFacts DEF GenesisFirst, buf

(* The steps of insertBlock away from the guard, the tasks and the write.  *)
LEMMA InsertQuiet ==
  ASSUME TypeInv, TaskInv, NEW t \in Inserter,
         \/ InsertExists(t) \/ InsertRefuse(t) \/ InsertCheck(t)
         \/ createBlockBuffer(t) \/ GuardRefuse(t) \/ TasksDone(t)
         \/ InsertAbort(t)
  PROVE  TaskInv'
  <1>0. /\ pc \in [Inserter -> Steps] /\ cur \in [Inserter -> OrNil]
        /\ buffers \in Seq(BufferState)
    BY DEF TypeInv, TypeOK, Steps, BufferState
  <1>1. UNCHANGED <<latestBlock, latestHeight, seeded, sent, readPc, bufferChan>>
    BY DEF InsertExists, InsertRefuse, InsertCheck, createBlockBuffer,
           GuardRefuse, TasksDone, InsertAbort, mem, buf, data, reader
  <1>2. Quiet /\ (buffers' = buffers => GenesisFirst')
    <2>1. CASE Return(t)
      <3>1. Quiet
        BY <1>1, <2>1, ReturnTasks DEF Quiet, TaskInv, OneWriter
      <3>2. buffers' = buffers => GenesisFirst'
        BY <1>1, <2>1, GenesisReturns DEF TaskInv, buf
      <3> QED
        BY <3>1, <3>2
    <2>2. CASE ~Return(t)
      <3>1. /\ UNCHANGED <<cur, idx>>
            /\ \E s \in Steps :
                 /\ pc' = [pc EXCEPT ![t] = s]
                 /\ s \in {"tasks", "commit"} <=> Writing(t)
        BY <2>2 DEF InsertExists, InsertRefuse, InsertCheck,
                    createBlockBuffer, GuardRefuse, TasksDone, InsertAbort,
                    Steps, Writing
      <3>2. \A u \in Inserter : Writing(u)' <=> Writing(u)
        BY <1>0, <3>1 DEF Writing
      <3>3. Quiet
        BY <1>1, <3>1, <3>2 DEF Quiet, TaskInv, OneWriter
      <3>4. buffers' = buffers => GenesisFirst'
        BY <1>1, <3>1 DEF TaskInv, GenesisFirst
      <3> QED
        BY <3>3, <3>4
    <2> QED
      BY <2>1, <2>2
  <1>3. GenesisFirst'
    <2>1. CASE createBlockBuffer(t)
      <3>1. /\ buffers' = Append(buffers, NewBuffer(cur[t]))
            /\ cur' = cur /\ cur[t] \in Block
        BY <2>1 DEF createBlockBuffer, TypeInv
      <3>2. NewBuffer(cur[t]) \in BufferState /\ NewBuffer(cur[t]).unsent = Nil
        BY <3>1 DEF NewBuffer, BufferState, OrNil
      <3>3. /\ Len(buffers') = Len(buffers) + 1
            /\ buffers'[Len(buffers) + 1] = NewBuffer(cur[t])
            /\ \A i \in 1..Len(buffers) : buffers'[i] = buffers[i]
        BY <1>0, <3>1, <3>2
      <3>4. ~seeded => \A i \in 1..Len(buffers') : buffers'[i].unsent = Nil
        BY <1>0, <3>2, <3>3 DEF TaskInv, GenesisFirst
      <3> QED
        BY <1>1, <3>1, <3>4 DEF TaskInv, GenesisFirst
    <2>2. CASE ~createBlockBuffer(t)
      BY <1>2, <2>2 DEF InsertExists, InsertRefuse, InsertCheck, GuardRefuse,
                        TasksDone, InsertAbort, buf
    <2> QED
      BY <2>1, <2>2
  <1> QED
    BY <1>2, <1>3, QuietKeeps

(* Past the guard: nobody else is, and everything sent lies below.         *)
LEMMA GuardTasks ==
  ASSUME TypeInv, TaskInv, NEW t \in Inserter, GuardPass(t)
  PROVE  TaskInv'
  <1> USE TreeFacts DEF TaskInv
  <1>0. /\ pc \in [Inserter -> Steps] /\ cur \in [Inserter -> OrNil]
        /\ cur[t] \in Block /\ latestBlock \in OrNil
        /\ latestHeight \in -1..MaxHeight /\ sent \in Seq(Block \X Nat)
        /\ idx \in [Inserter -> Nat]
    BY DEF TypeInv, TypeOK, Steps, GuardPass
  <1>1. /\ pc[t] = "guard" /\ pc' = [pc EXCEPT ![t] = "tasks"]
        /\ latestBlock' = cur[t] /\ latestHeight' = Height[cur[t]]
        /\ Height[cur[t]] > latestHeight
        /\ UNCHANGED <<seeded, buffers, bufferChan, cur, idx, sent, readPc>>
    BY DEF GuardPass, AboveLatest, buf, data, reader
  <1>2. \A u \in Inserter : ~Writing(u)
    <2>1. CASE latestBlock = Nil
      BY <1>0, <2>1 DEF OneWriter, Writing, TypeInv
    <2>2. CASE latestBlock # Nil
      <3>1. latestHeight \in 0..MaxHeight
        BY <1>0, <2>2 DEF LatestInv, OrNil
      <3>2. cur[t] \notin Genesis
        BY <1>1, <3>1
      <3>3. seeded /\ t = "routine"
        BY <1>0, <3>2 DEF GenesisFirst
      <3>4. ~Writing("routine") /\ ~Writing("caller") /\ ~Writing("maker")
        BY <1>1, <3>3 DEF OneWriter, Writing
      <3> QED
        BY <3>4
    <2> QED
      BY <2>1, <2>2
  <1>3. Writing(t)' /\ \A u \in Inserter \ {t} : ~Writing(u)'
    BY <1>0, <1>1, <1>2 DEF Writing
  <1>4. readPc' = "idle" /\ LatestInv' /\ GenesisFirst'
    BY <1>0, <1>1 DEF LatestInv, GenesisFirst
  <1>5. OneWriter'
    <2>1. seeded => t \notin {"caller", "maker"}
      <3>1. SUFFICES ASSUME seeded, t \in {"caller", "maker"}
                     PROVE  FALSE
        OBVIOUS
      <3>2. cur[t] \in Genesis /\ latestBlock \in Block
        BY <1>0, <3>1 DEF GenesisFirst, OneWriter, OrNil
      <3> QED
        BY <1>1, <3>2 DEF LatestInv
    <2> QED
      BY <1>0, <1>1, <1>2, <1>3, <2>1 DEF OneWriter
  <1>6. SentInv'
    <2>1. \A i \in 1..Len(sent) : Height[sent[i][1]] < Height[cur[t]]
      <3>1. \A i \in 1..Len(sent) : Height[sent[i][1]] \in 0..MaxHeight
        BY <1>0, ElementOfSeq
      <3> QED
        BY <1>0, <1>1, <3>1 DEF SentInv
    <2>2. \A i \in 1..Len(sent) : Height[sent[i][1]] \in 0..MaxHeight
      BY <1>0, ElementOfSeq
    <2>3. Height[cur[t]] \in 0..MaxHeight
      BY <1>0
    <2> QED
      BY <1>1, <1>3, <2>1, <2>2, <2>3 DEF SentInv, Before
  <1>7. SentOrdered'
    BY <1>1 DEF SentOrdered, Before
  <1> QED
    BY <1>4, <1>5, <1>6, <1>7

(* One more task, of the block past the guard and its next transaction.    *)
LEMMA SendTasks ==
  ASSUME TypeInv, TaskInv, NEW t \in Inserter, SendTask(t)
  PROVE  TaskInv'
  <1> USE TreeFacts DEF TaskInv
  <1>0. /\ cur[t] \in Block /\ idx \in [Inserter -> Nat]
        /\ latestHeight \in -1..MaxHeight /\ sent \in Seq(Block \X Nat)
    BY DEF TypeInv, TypeOK, SendTask
  <1> DEFINE s == <<cur[t], idx[t]>>
  <1>1. /\ pc[t] = "tasks" /\ sent' = Append(sent, s)
        /\ idx' = [idx EXCEPT ![t] = @ + 1]
        /\ UNCHANGED <<latestBlock, latestHeight, seeded, buffers, bufferChan,
                       pc, cur, readPc>>
    BY DEF SendTask, mem, buf, reader
  <1>2. /\ Len(sent) \in Nat /\ Len(sent') = Len(sent) + 1
        /\ sent'[Len(sent) + 1] = s
        /\ \A i \in 1..Len(sent) : sent'[i] = sent[i]
    BY <1>0, <1>1
  <1>3. \A i \in 1..Len(sent) : /\ Height[sent[i][1]] \in 0..MaxHeight
                                /\ sent[i][2] \in Nat
    BY <1>0, ElementOfSeq
  <1>4. \A u \in Inserter : /\ Writing(u)' <=> u = t
                            /\ Writing(u) <=> u = t
    BY <1>1 DEF Writing, OneWriter
  <1>5. readPc' = "idle" /\ LatestInv' /\ GenesisFirst'
    BY <1>1 DEF LatestInv, GenesisFirst
  <1>6. OneWriter'
    BY <1>0, <1>1, <1>4 DEF OneWriter
  <1>7. \A i \in 1..Len(sent) : Before(sent[i], cur[t], idx[t])
    BY <1>4 DEF SentInv
  <1>8. SentInv'
    <2>1. Height[cur[t]] <= latestHeight
      BY <1>0, <1>4 DEF OneWriter, LatestInv
    <2>2. \A i \in 1..Len(sent') : Height[sent'[i][1]] <= latestHeight
      BY <1>2, <2>1 DEF SentInv
    <2>3. idx'[t] = idx[t] + 1 /\ idx[t] \in Nat
      BY <1>0, <1>1
    <2>4. \A i \in 1..Len(sent) : Before(sent[i], cur[t], idx[t] + 1)
      BY <1>3, <1>7, <2>3 DEF Before
    <2>5. Before(s, cur[t], idx[t] + 1)
      BY <2>3 DEF Before
    <2>6. \A i \in 1..Len(sent') : Before(sent'[i], cur[t], idx[t] + 1)
      BY <1>2, <2>4, <2>5
    <2> QED
      BY <1>1, <1>4, <2>2, <2>3, <2>6, SMTT(30) DEF SentInv, Before
  <1>9. SentOrdered'
    <2>1. SUFFICES ASSUME NEW i \in 1..Len(sent'), NEW j \in 1..Len(sent'),
                          i < j
                   PROVE  Before(sent'[i], sent'[j][1], sent'[j][2])
      BY DEF SentOrdered, Before
    <2>2. i \in 1..Len(sent)
      BY <1>2, <2>1
    <2>3. CASE j \in 1..Len(sent)
      BY <1>2, <2>1, <2>2, <2>3 DEF SentOrdered
    <2>4. CASE j = Len(sent) + 1
      BY <1>2, <1>7, <2>2, <2>4
    <2> QED
      BY <1>2, <2>3, <2>4
  <1> QED
    BY <1>5, <1>6, <1>8, <1>9

(* The write ends the insertion, whether BatchInsert succeeds or not; a    *)
(* genesis seeds the calculator, and nobody else is past the guard.        *)
LEMMA CommitTasks ==
  ASSUME TypeInv, TaskInv, NEW t \in Inserter, Commit(t) \/ CommitFails(t)
  PROVE  TaskInv'
  <1> USE TreeFacts DEF TaskInv
  <1>1. /\ Return(t) /\ Writing(t) /\ cur[t] \in Block
        /\ seeded' = (seeded \/ cur[t] \in Genesis) /\ seeded \in BOOLEAN
        /\ UNCHANGED <<latestBlock, latestHeight, sent, readPc, buf>>
    BY DEF Commit, CommitFails, mem, buf, data, reader, Writing, TypeInv,
           TypeOK
  <1>2. \A u \in Inserter : ~Writing(u)' /\ idx'[u] = 0
    BY <1>1, ReturnTasks DEF OneWriter
  <1>3. OneWriter'
    <2>1. latestBlock = cur[t]
      BY <1>1 DEF OneWriter
    <2> QED
      BY <1>1, <1>2, <2>1 DEF OneWriter
  <1>4. GenesisFirst'
    BY <1>1, GenesisReturns
  <1>5. readPc' = "idle" /\ LatestInv' /\ SentInv' /\ SentOrdered'
    BY <1>1, <1>2 DEF LatestInv, SentInv, SentOrdered, Before
  <1> QED
    BY <1>3, <1>4, <1>5

LEMMA CrashTasks ==
  ASSUME TypeInv, Crash
  PROVE  TaskInv'
  <1>1. db.latest \in OrNil
    BY DEF TypeInv, TypeOK
  <1>2. /\ latestBlock' = db.latest /\ seeded' = (db.latest # Nil)
        /\ latestHeight' = IF db.latest = Nil THEN -1 ELSE Height[db.latest]
        /\ bufferChan' = <<>> /\ sent' = <<>> /\ readPc' = "idle"
        /\ \A t \in Inserter : pc'[t] = "idle" /\ cur'[t] = Nil /\ idx'[t] = 0
        /\ db.latest = Nil => buffers' = <<>>
    BY DEF Crash, Restored
  <1>3. \A t \in Inserter : ~Writing(t)'
    BY <1>2 DEF Writing
  <1>4. LatestInv'
    BY <1>2 DEF LatestInv
  <1>5. GenesisFirst'
    <2>1. ~seeded' => buffers' = <<>>
      BY <1>2
    <2>2. ~seeded' => \A i \in 1..Len(buffers') : buffers'[i].unsent = Nil
      BY <2>1
    <2> QED
      BY <1>2, <2>2, TreeFacts DEF GenesisFirst
  <1>6. OneWriter'
    BY <1>2, <1>3, TreeFacts DEF OneWriter
  <1>7. SentInv' /\ SentOrdered'
    BY <1>2, <1>3 DEF SentInv, SentOrdered
  <1> QED
    BY <1>2, <1>4, <1>5, <1>6, <1>7 DEF TaskInv

(* Without a late answer of GetLatestBlock every step keeps the order.     *)
LEMMA StepTasks ==
  ASSUME TypeInv, TaskInv, fault # "reader", [Next]_vars
  PROVE  TaskInv'
  <1>1. CASE UNCHANGED vars
    <2>1. UNCHANGED <<latestBlock, latestHeight, seeded, sent, readPc, pc, cur,
                      idx, buffers, bufferChan>>
      BY <1>1 DEF vars, mem, buf, ins, data, reader
    <2>2. Quiet /\ GenesisFirst'
      BY <2>1 DEF Quiet, TaskInv, OneWriter, GenesisFirst, Writing
    <2> QED
      BY <2>2, QuietKeeps
  <1>2. CASE TakeTask
    <2>1. UNCHANGED <<latestBlock, latestHeight, seeded, sent, readPc, pc, cur,
                      idx, buffers, bufferChan>>
      BY <1>2 DEF TakeTask, mem, buf, ins, reader
    <2>2. Quiet /\ GenesisFirst'
      BY <2>1 DEF Quiet, TaskInv, OneWriter, GenesisFirst, Writing
    <2> QED
      BY <2>2, QuietKeeps
  <1>3. CASE ReadNil \/ ReadDb \/ ReadSet
    BY <1>3 DEF ReadNil, ReadDb, ReadSet, TaskInv
  <1>4. CASE \E t \in Inserter : Insert(t)
    BY <1>4, InsertQuiet, GuardTasks, SendTasks, CommitTasks DEF Insert
  <1>5. CASE Crash
    BY <1>5, CrashTasks
  <1>6. CASE \/ \E b \in Genesis :
                  AppendBlockTask(b) \/ NewGenesisBlock(b) \/ InsertBlock(b)
             \/ GenesisMade \/ BlockProcessRoutine
    BY <1>6, HandInTasks
  <1>7. CASE \E i \in 1..Len(buffers) :
               BufferSend(i) \/ \E b \in Block : BufferAdvance(i, b)
    BY <1>7, BufferTasks
  <1> QED
    BY <1>1, <1>2, <1>3, <1>4, <1>5, <1>6, <1>7 DEF Next

(* What goes wrong in a behaviour is settled at its start.                 *)
TInv == TypeInv /\ (fault # "reader" => TaskInv)

LEMMA FaultFixed ==
  ASSUME [Next]_vars
  PROVE  fault' = fault
  BY DEF Next, AppendBlockTask, NewGenesisBlock, InsertBlock, GenesisMade,
         BufferSend, BufferAdvance, BlockProcessRoutine, Insert, InsertExists,
         InsertRefuse, InsertCheck, createBlockBuffer, GuardRefuse, GuardPass,
         SendTask, TasksDone, InsertAbort, Commit, CommitFails, TakeTask,
         ReadNil, ReadDb, ReadSet, Crash, vars

LEMMA InitTasks ==
  ASSUME Init
  PROVE  TInv
  <1>1. LatestInv /\ GenesisFirst
    BY TreeFacts DEF Init, LatestInv, GenesisFirst
  <1>2. OneWriter /\ SentInv /\ SentOrdered
    BY TreeFacts DEF Init, OneWriter, SentInv, SentOrdered, Writing
  <1> QED
    BY <1>1, <1>2, InitTypes DEF Init, TaskInv, TInv

(* Between two crashes the data tasks leave in chain order and once each,  *)
(* for every block tree and every capacity: a failing write, an encoding   *)
(* that fails halfway and a second genesis do not repeat or swap them.     *)
THEOREM TasksInOrder == Spec => []TasksOrdered
  <1>1. Init => TInv
    BY InitTasks
  <1>2. TInv /\ [Next]_vars => TInv'
    BY StepTypes, StepTasks, FaultFixed DEF TInv
  <1>3. TInv => TasksOrdered
    BY DEF TInv, TaskInv, SentOrdered, TasksOrdered, Before
  <1> QED
    BY <1>1, <1>2, <1>3, PTL DEF Spec
=============================================================================
