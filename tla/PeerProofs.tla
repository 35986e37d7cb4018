----------------------------- MODULE PeerProofs ------------------------------
(***************************************************************************)
(* A node and its peers.  The manager: the tables of streams agree and its *)
(* queues and caches keep their types, for every set of remote nodes,      *)
(* every limit and every plan.  One stream: its types, for any capacities, *)
(* skews and losses, and the agreement of the clocks.                      *)
(***************************************************************************)
EXTENDS P2PManager, PeerStream, SequenceTheorems, FiniteSetTheorems, TLAPS

LEMMA SeqWiden ==
  ASSUME NEW S, NEW T, S \subseteq T, NEW q \in Seq(S)
  PROVE  q \in Seq(T)
  <1>1. Len(q) \in Nat /\ \A i \in 1..Len(q) : q[i] \in T
    OBVIOUS
  <1> QED
    BY <1>1, SeqDef

-----------------------------------------------------------------------------
(***************************************************************************)
(* The manager.  Only the streams' own steps change the tables of streams; *)
(* the rest of the manager reads peerSet alone.                            *)
(***************************************************************************)

Stream == [peer : Peer, stopped : BOOLEAN]

(***************************************************************************)
(* TablesAgree speaks of peerSet at the places that peers names, so the    *)
(* tables must also name places that exist.  This needs no bound: neither  *)
(* streamLimit nor the plan plays a part.                                  *)
(***************************************************************************)
PlacesExist ==
  /\ peerSet \in Seq(Stream)
  /\ DOMAIN peers \subseteq Peer
  /\ \A p \in DOMAIN peers : peers[p] \in 1..Len(peerSet)
  /\ syncPeers \subseteq 1..Len(peerSet)

TablesInv == PlacesExist /\ TablesAgree

LEMMA InitTablesInv ==
  ASSUME StreamsInit
  PROVE  TablesInv
  <1>1. /\ peerSet = <<>> /\ peers = <<>> /\ syncPeers = {}
        /\ DOMAIN peerSet = {} /\ DOMAIN peers = {}
    BY DEF StreamsInit
  <1>2. peerSet \in Seq(Stream)
    BY <1>1
  <1> QED
    BY <1>1, <1>2 DEF TablesInv, PlacesExist, TablesAgree

(***************************************************************************)
(* A new stream is the last of peerSet, takes over its node's entry and is *)
(* known to the syncer.                                                    *)
(***************************************************************************)
LEMMA NewPeerKeeps ==
  ASSUME TablesInv, NEW p \in Peer, NewPeer(p)
  PROVE  TablesInv'
  <1> DEFINE i == Len(peerSet) + 1
             new == [peer |-> p, stopped |-> FALSE]
  <1>1. /\ peerSet' = Append(peerSet, new)
        /\ peers' = [q \in DOMAIN peers \cup {p} |->
                      IF q = p THEN i ELSE peers[q]]
        /\ syncPeers' = syncPeers \cup {i}
    BY DEF NewPeer
  <1>2. /\ peerSet \in Seq(Stream) /\ new \in Stream
        /\ Len(peerSet) \in Nat /\ DOMAIN peerSet = 1..Len(peerSet)
    BY DEF TablesInv, PlacesExist, Stream
  <1>3. /\ peerSet' \in Seq(Stream)
        /\ Len(peerSet') = i /\ DOMAIN peerSet' = 1..i
        /\ peerSet'[i] = new
        /\ \A j \in 1..Len(peerSet) : peerSet'[j] = peerSet[j]
    BY <1>1, <1>2
  <1>4. PlacesExist'
    <2>1. DOMAIN peers' = DOMAIN peers \cup {p}
      BY <1>1
    <2>2. \A q \in DOMAIN peers' : peers'[q] \in 1..i
      BY <1>1, <1>2 DEF TablesInv, PlacesExist
    <2>3. syncPeers' \subseteq 1..i
      <3>1. syncPeers \subseteq 1..i
        BY <1>2 DEF TablesInv, PlacesExist
      <3>2. i \in 1..i
        BY <1>2
      <3> HIDE DEF i
      <3> QED
        BY <1>1, <3>1, <3>2
    <2> QED
      BY <1>3, <2>1, <2>2, <2>3 DEF TablesInv, PlacesExist
  <1>5. ASSUME NEW j \in DOMAIN peerSet'
        PROVE  /\ peerSet'[j].peer \in DOMAIN peers'
               /\ j <= peers'[peerSet'[j].peer]
               /\ ~peerSet'[j].stopped => j \in syncPeers'
    <2>1. CASE j = i
      BY <1>1, <1>2, <1>3, <2>1
    <2>2. CASE j \in 1..Len(peerSet)
      <3>1. /\ peerSet'[j] = peerSet[j]
            /\ peerSet[j].peer \in DOMAIN peers
            /\ j <= peers[peerSet[j].peer]
            /\ ~peerSet[j].stopped => j \in syncPeers
        BY <1>2, <1>3, <2>2 DEF TablesInv, TablesAgree, Connected
      <3> QED
        BY <1>1, <1>2, <2>2, <3>1
    <2> QED
      BY <1>2, <1>3, <2>1, <2>2
  <1>6. ASSUME NEW q \in DOMAIN peers'
        PROVE  peerSet'[peers'[q]].peer = q
    <2>1. CASE q = p
      BY <1>1, <1>3, <2>1
    <2>2. CASE q # p
      <3>1. q \in DOMAIN peers /\ peers'[q] = peers[q]
        BY <1>1, <2>2
      <3>2. peers[q] \in 1..Len(peerSet) /\ peerSet[peers[q]].peer = q
        BY <3>1 DEF TablesInv, PlacesExist, TablesAgree
      <3> QED
        BY <1>3, <3>1, <3>2
    <2> QED
      BY <2>1, <2>2
  <1>7. TablesAgree'
    BY <1>5, <1>6 DEF TablesAgree, Connected
  <1> QED
    BY <1>4, <1>7 DEF TablesInv

(* A stream that stops keeps its place and its node.                       *)
LEMMA StreamStopsKeeps ==
  ASSUME TablesInv, NEW i \in DOMAIN peerSet, StreamStops(i)
  PROVE  TablesInv'
  <1>1. /\ peerSet' = [peerSet EXCEPT ![i].stopped = TRUE]
        /\ peers' = peers /\ syncPeers' = syncPeers
    BY DEF StreamStops
  <1>2. /\ peerSet \in Seq(Stream) /\ Len(peerSet) \in Nat
        /\ DOMAIN peerSet = 1..Len(peerSet)
        /\ \A j \in 1..Len(peerSet) : peerSet[j] \in Stream
    BY DEF TablesInv, PlacesExist
  <1>3. /\ DOMAIN peerSet' = DOMAIN peerSet
        /\ \A j \in DOMAIN peerSet :
             /\ peerSet'[j] \in Stream
             /\ peerSet'[j].peer = peerSet[j].peer
             /\ ~peerSet'[j].stopped => ~peerSet[j].stopped
    BY <1>1, <1>2 DEF Stream
  <1>4. peerSet' \in Seq(Stream) /\ Len(peerSet') = Len(peerSet)
    <2>1. peerSet' = [j \in 1..Len(peerSet) |-> peerSet'[j]]
      BY <1>1, <1>2
    <2> QED
      BY <1>2, <1>3, <2>1, IsASeq, LenProperties
  <1>5. PlacesExist'
    BY <1>1, <1>4 DEF TablesInv, PlacesExist
  <1>6. TablesAgree'
    <2>1. \A p \in DOMAIN peers : peers[p] \in DOMAIN peerSet
      BY <1>2 DEF TablesInv, PlacesExist
    <2> QED
      BY <1>1, <1>3, <2>1 DEF TablesInv, TablesAgree, Connected
  <1> QED
    BY <1>5, <1>6 DEF TablesInv

(* run of the syncer drops stopped streams only.                           *)
LEMMA DropStoppedKeeps ==
  ASSUME TablesInv, DropStopped
  PROVE  TablesInv'
  <1>1. /\ syncPeers' = {i \in syncPeers : ~peerSet[i].stopped}
        /\ peerSet' = peerSet /\ peers' = peers
    BY DEF DropStopped
  <1>2. PlacesExist'
    BY <1>1 DEF TablesInv, PlacesExist
  <1>3. TablesAgree'
    BY <1>1 DEF TablesInv, TablesAgree, Connected
  <1> QED
    BY <1>2, <1>3 DEF TablesInv

LEMMA TablesUnchanged ==
  ASSUME TablesInv, UNCHANGED <<peerSet, peers, syncPeers>>
  PROVE  TablesInv'
  BY DEF TablesInv, PlacesExist, TablesAgree, Connected

LEMMA StreamsNextKeeps ==
  ASSUME TablesInv, StreamsNext
  PROVE  TablesInv'
  <1>1. ASSUME NEW p \in Peer, HandleStream(p) \/ CheckAndCreateStream(p)
        PROVE  TablesInv'
    BY <1>1, NewPeerKeeps DEF HandleStream, CheckAndCreateStream
  <1>2. ASSUME NEW p \in Peer,
               NewStreamFails(p) \/ RetryIntervalPassed(p) \/ Reachability(p)
        PROVE  TablesInv'
    BY <1>2, TablesUnchanged
       DEF NewStreamFails, RetryIntervalPassed, Reachability
  <1>3. ASSUME NEW i \in DOMAIN peerSet, StreamStops(i)
        PROVE  TablesInv'
    BY <1>3, StreamStopsKeeps
  <1>4. CASE DropStopped
    BY <1>4, DropStoppedKeeps
  <1> QED
    BY <1>1, <1>2, <1>3, <1>4 DEF StreamsNext

(***************************************************************************)
(* The other routines of the manager leave the tables alone.               *)
(***************************************************************************)
LEMMA OthersKeepStreams ==
  ASSUME ManagerNext, ~Streams
  PROVE  UNCHANGED streamVars
  <1>1. CASE StatusChanges \/ TimeSyncs \/ Synced
    BY <1>1 DEF StatusChanges, TimeSyncs, Synced
  <1>2. CASE Package \/ AppendOwn \/ EnqueueOwn \/ broadcastBlock
    BY <1>2 DEF Package, AppendOwn, EnqueueOwn, broadcastBlock
  <1>3. ASSUME NEW b \in Block, Deliver(b)
        PROVE  UNCHANGED streamVars
    BY <1>3 DEF Deliver
  <1>4. CASE gossipBlockSubscribe
    BY <1>4 DEF gossipBlockSubscribe, ReadEarly, ReadKnown, ReadZero,
                ReadRejected, Rejects, ReadVerified, ReadNew, Receive,
                AppendBlockTask
  <1>5. ASSUME NEW t \in Tx, TransactionUDP(t) \/ SubmitTransaction(t)
        PROVE  UNCHANGED streamVars
    BY <1>5 DEF TransactionUDP, SubmitTransaction
  <1>6. ASSUME NEW x \in Adder, SendTx(x) \/ AddToPool(x)
        PROVE  UNCHANGED streamVars
    BY <1>6 DEF SendTx, AddToPool
  <1>7. CASE broadcastTransaction
    BY <1>7 DEF broadcastTransaction
  <1> QED
    BY <1>1, <1>2, <1>3, <1>4, <1>5, <1>6, <1>7 DEF ManagerNext

(***************************************************************************)
(* peers names the newest stream of each node that ever had one, and the   *)
(* syncer's list misses no stream that works: HandleStream, Discover and   *)
(* the syncer's run change the three tables in any order.                  *)
(***************************************************************************)
THEOREM StreamTables == ManagerSpec => []TablesAgree
  <1>1. ManagerInit => TablesInv
    BY InitTablesInv DEF ManagerInit
  <1>2. TablesInv /\ [ManagerNext]_managerVars => TablesInv'
    <2> SUFFICES ASSUME TablesInv, [ManagerNext]_managerVars
                 PROVE  TablesInv'
      OBVIOUS
    <2>1. CASE Streams
      BY <2>1, StreamsNextKeeps DEF Streams
    <2>2. CASE ManagerNext /\ ~Streams
      <3>1. UNCHANGED <<peerSet, peers, syncPeers>>
        BY <2>2, OthersKeepStreams DEF streamVars
      <3> QED
        BY <3>1, TablesUnchanged
    <2>3. CASE UNCHANGED managerVars
      BY <2>3, TablesUnchanged DEF managerVars, streamVars
    <2> QED
      BY <2>1, <2>2, <2>3
  <1>3. TablesInv => TablesAgree
    BY DEF TablesInv
  <1> QED
    BY <1>1, <1>2, <1>3, PTL DEF ManagerSpec

-----------------------------------------------------------------------------
(* The types, one part for each group of routines.                         *)
BoundsInv ==
  /\ bounds.streams \in Nat /\ Len(peerSet) <= bounds.streams
  /\ triedPeers \subseteq Peer /\ reachable \subseteq Peer

StatusInv ==
  /\ status \in {"blockSyncing", "bufferSyncing", "synced"}
  /\ timeSynced \in BOOLEAN /\ started \in BOOLEAN

(* What an LRU cache of the given capacity may hold.                       *)
CacheOK(c, S, cap) == c \subseteq S /\ IsFiniteSet(c) /\ Cardinality(c) <= cap

TopicInv ==
  /\ inbox \in Seq(Block) /\ Len(inbox) <= InboxCap
  /\ reader \in {"next", "append", "returned"} /\ block \in Block
  /\ CacheOK(knownBlock, Block, maxKnownBlock)
  /\ handed \in Seq(Block)

(* Only blocks that were made wait to be published.                        *)
PackageInv ==
  /\ packager \in {"tick", "append", "enqueue"}
  /\ made \in Nat /\ published \in Nat /\ published <= made
  /\ blockQueue \in Seq(0..made) /\ Len(blockQueue) <= BlockQueueCap

TxInv ==
  /\ txQueue \in Seq(Tx) /\ Len(txQueue) <= TxQueueCap
  /\ CacheOK(knownTx, Tx, maxKnownTx)
  /\ adding \in [Adder -> {"idle", "send", "add"}] /\ tx \in [Adder -> Tx]
  /\ pooled \subseteq Tx /\ sent \subseteq Tx

ManagerInv ==
  TablesInv /\ BoundsInv /\ StatusInv /\ TopicInv /\ PackageInv /\ TxInv

LEMMA ManagerFacts ==
  /\ Some(Block) \in Block /\ Some(Tx) \in Tx
  /\ InboxCap \in Nat \ {0} /\ BlockQueueCap \in Nat \ {0}
  /\ TxQueueCap \in Nat \ {0}
  /\ maxKnownBlock \in Nat \ {0} /\ maxKnownTx \in Nat \ {0}
  /\ "udp" \in Adder /\ "rpc" \in Adder
  <1>1. Block # {} /\ Tx # {}
    BY ManagerAssumption
  <1>2. {InboxCap, BlockQueueCap, TxQueueCap, maxKnownBlock, maxKnownTx}
          \subseteq Nat \ {0}
    BY ManagerAssumption, Zenon
  <1> QED
    BY <1>1, <1>2 DEF Some, Adder

LEMMA LruFacts ==
  ASSUME NEW S, NEW cap \in Nat \ {0}, NEW c, CacheOK(c, S, cap), NEW x \in S,
         NEW R \in LruAdd(c, x, cap)
  PROVE  CacheOK(R, S, cap)
  <1> DEFINE d == c \cup {x}
  <1>1. /\ c \subseteq S /\ IsFiniteSet(c)
        /\ Cardinality(c) \in Nat /\ Cardinality(c) <= cap
    BY FS_CardinalityType DEF CacheOK
  <1>2. /\ d \subseteq S /\ IsFiniteSet(d)
        /\ Cardinality(d) \in Nat /\ Cardinality(d) <= cap + 1
    <2>1. IsFiniteSet(d) /\ (Cardinality(d) = Cardinality(c)
                             \/ Cardinality(d) = Cardinality(c) + 1)
      BY <1>1, FS_AddElement
    <2> QED
      BY <1>1, <2>1
  <1> HIDE DEF d
  <1>3. CASE Cardinality(d) <= cap
    <2>1. R = d
      BY <1>3 DEF LruAdd, d
    <2> QED
      BY <1>2, <1>3, <2>1 DEF CacheOK
  <1>4. CASE ~(Cardinality(d) <= cap)
    <2>1. PICK v \in d : R = d \ {v}
      BY <1>4 DEF LruAdd, d
    <2>2. IsFiniteSet(R) /\ Cardinality(R) = Cardinality(d) - 1
      BY <1>2, <2>1, FS_RemoveElement
    <2> QED
      BY <1>2, <2>1, <2>2 DEF CacheOK
  <1> QED
    BY <1>3, <1>4

LEMMA InitManager ==
  ASSUME ManagerInit
  PROVE  ManagerInv
  <1> USE ManagerFacts DEF ManagerInit
  <1>1. TablesInv
    BY InitTablesInv
  <1>2. plan \in Plans /\ bounds = plan.bounds
    OBVIOUS
  <1>3. BoundsInv
    <2>1. bounds.streams \in Nat
      BY <1>2, ManagerAssumption
    <2>2. Len(peerSet) = 0 /\ triedPeers = {} /\ reachable = Peer
      BY DEF StreamsInit
    <2> QED
      BY <2>1, <2>2 DEF BoundsInv
  <1>4. StatusInv
    <2>1. plan.genesis \in BOOLEAN
      BY <1>2, ManagerAssumption
    <2> QED
      BY <2>1 DEF StatusInv
  <1>5. IsFiniteSet({}) /\ Cardinality({}) = 0
    BY FS_EmptySet
  <1>6. TopicInv
    BY <1>5 DEF TopicInv, CacheOK
  <1>7. PackageInv
    BY DEF PackageInv
  <1>8. TxInv
    BY <1>5 DEF TxInv, CacheOK
  <1> QED
    BY <1>1, <1>3, <1>4, <1>6, <1>7, <1>8 DEF ManagerInv

LEMMA StreamsType ==
  ASSUME ManagerInv, Streams
  PROVE  BoundsInv' /\ StatusInv' /\ TopicInv' /\ PackageInv' /\ TxInv'
  <1>1. Len(peerSet) \in Nat /\ bounds' = bounds
    BY DEF ManagerInv, TablesInv, PlacesExist, Streams, StreamsNext,
           HandleStream, CheckAndCreateStream, NewStreamFails,
           RetryIntervalPassed, Reachability, StreamStops, DropStopped
  <1>2. BoundsInv'
    <2> USE DEF ManagerInv, BoundsInv
    <2>1. ASSUME NEW p \in Peer, HandleStream(p) \/ CheckAndCreateStream(p)
          PROVE  BoundsInv'
      <3>1. /\ Len(peerSet) < bounds.streams
            /\ peerSet' = Append(peerSet, [peer |-> p, stopped |-> FALSE])
            /\ UNCHANGED <<triedPeers, reachable>>
        BY <2>1 DEF HandleStream, CheckAndCreateStream, NewPeer
      <3>2. peerSet \in Seq(Stream)
        BY DEF TablesInv, PlacesExist
      <3>3. Len(peerSet') = Len(peerSet) + 1
        <4>1. [peer |-> p, stopped |-> FALSE] \in Stream
          BY DEF Stream
        <4> QED
          BY <3>1, <3>2, <4>1, AppendProperties
      <3> QED
        BY <1>1, <3>1, <3>3
    <2>2. ASSUME NEW p \in Peer,
                 NewStreamFails(p) \/ RetryIntervalPassed(p) \/ Reachability(p)
          PROVE  BoundsInv'
      BY <1>1, <2>2 DEF NewStreamFails, RetryIntervalPassed, Reachability,
           Leave, Return
    <2>3. ASSUME NEW i \in DOMAIN peerSet, StreamStops(i)
          PROVE  BoundsInv'
      <3>1. /\ peerSet' = [peerSet EXCEPT ![i].stopped = TRUE]
            /\ UNCHANGED <<triedPeers, reachable>>
        BY <2>3 DEF StreamStops
      <3>2. peerSet \in Seq(Stream) /\ peerSet' \in Seq(Stream)
        BY <2>3, StreamStopsKeeps DEF TablesInv, PlacesExist
      <3>3. DOMAIN peerSet' = DOMAIN peerSet
        BY <3>1
      <3>4. Len(peerSet') = Len(peerSet)
        BY <3>2, <3>3, LenProperties
      <3> QED
        BY <1>1, <3>1, <3>4
    <2>4. CASE DropStopped
      BY <1>1, <2>4 DEF DropStopped
    <2> QED
      BY <2>1, <2>2, <2>3, <2>4 DEF Streams, StreamsNext
  <1>3. UNCHANGED <<syncVars, topicVars, packageVars, txVars>>
    BY DEF Streams
  <1>4. StatusInv' /\ TopicInv'
    BY <1>3 DEF ManagerInv, StatusInv, TopicInv, syncVars, topicVars
  <1>5. PackageInv' /\ TxInv'
    BY <1>3 DEF ManagerInv, PackageInv, TxInv, packageVars, txVars
  <1> QED
    BY <1>2, <1>4, <1>5

(* A step that leaves a group's variables alone keeps its part.            *)
LEMMA Frames ==
  ASSUME ManagerInv
  PROVE  /\ UNCHANGED streamVars => TablesInv' /\ BoundsInv'
         /\ UNCHANGED syncVars => StatusInv'
         /\ UNCHANGED topicVars => TopicInv'
         /\ UNCHANGED packageVars => PackageInv'
         /\ UNCHANGED txVars => TxInv'
  <1> USE DEF ManagerInv
  <1>1. UNCHANGED streamVars => TablesInv' /\ BoundsInv'
    BY TablesUnchanged DEF streamVars, BoundsInv
  <1>2. UNCHANGED syncVars => StatusInv'
    BY DEF syncVars, StatusInv
  <1>3. UNCHANGED topicVars => TopicInv'
    BY DEF topicVars, TopicInv
  <1>4. UNCHANGED packageVars => PackageInv'
    BY DEF packageVars, PackageInv
  <1>5. UNCHANGED txVars => TxInv'
    BY DEF txVars, TxInv
  <1> QED
    BY <1>1, <1>2, <1>3, <1>4, <1>5

LEMMA SyncType ==
  ASSUME ManagerInv, StatusChanges \/ TimeSyncs \/ Synced
  PROVE  ManagerInv'
  <1>1. StatusInv'
    BY DEF ManagerInv, StatusInv, StatusChanges, TimeSyncs, Synced, StartsNow,
           SyncedNow
  <1>2. UNCHANGED <<streamVars, topicVars, packageVars, txVars>>
    BY DEF StatusChanges, TimeSyncs, Synced
  <1> QED
    BY <1>1, <1>2, Frames DEF ManagerInv

LEMMA PackagerType ==
  ASSUME ManagerInv, Package \/ AppendOwn \/ EnqueueOwn \/ broadcastBlock
  PROVE  ManagerInv'
  <1> USE DEF ManagerInv, PackageInv, StatusInv
  <1>1. CASE Package
    <2>1. /\ packager' = "append" /\ made' = made + 1
          /\ UNCHANGED <<streamVars, status, timeSynced, topicVars, blockQueue,
                         published, txVars>>
      BY <1>1 DEF Package
    <2>2. StatusInv'
      BY <1>1 DEF Package, StartsNow, SyncedNow
    <2>3. blockQueue \in Seq(0..made')
      <3>1. 0..made \subseteq 0..made'
        BY <2>1
      <3> QED
        BY <3>1, SeqWiden
    <2> QED
      BY <2>1, <2>2, <2>3, Frames
  <1>2. CASE AppendOwn
    <2>1. packager' = "enqueue" /\ UNCHANGED <<made, blockQueue, published>>
      BY <1>2 DEF AppendOwn
    <2>2. UNCHANGED <<streamVars, syncVars, topicVars, txVars>>
      BY <1>2 DEF AppendOwn
    <2> QED
      BY <2>1, <2>2, Frames
  <1>3. CASE EnqueueOwn
    <2>1. /\ packager' = "tick" /\ blockQueue' = Append(blockQueue, made)
          /\ Len(blockQueue) < BlockQueueCap /\ UNCHANGED <<made, published>>
      BY <1>3 DEF EnqueueOwn
    <2>2. UNCHANGED <<streamVars, syncVars, topicVars, txVars>>
      BY <1>3 DEF EnqueueOwn
    <2>3. /\ made \in 0..made
          /\ blockQueue' \in Seq(0..made) /\ Len(blockQueue') = Len(blockQueue) + 1
      BY <2>1
    <2>4. PackageInv'
      BY <2>1, <2>3, ManagerFacts
    <2> QED
      BY <2>2, <2>4, Frames
  <1>4. CASE broadcastBlock
    <2>1. /\ blockQueue # <<>> /\ published' = Head(blockQueue)
          /\ blockQueue' = Tail(blockQueue) /\ UNCHANGED <<packager, made>>
      BY <1>4 DEF broadcastBlock
    <2>2. UNCHANGED <<streamVars, syncVars, topicVars, txVars>>
      BY <1>4 DEF broadcastBlock
    <2>3. /\ Head(blockQueue) \in 0..made /\ Tail(blockQueue) \in Seq(0..made)
          /\ Len(Tail(blockQueue)) = Len(blockQueue) - 1
      BY <2>1
    <2>4. PackageInv'
      BY <2>1, <2>3, ManagerFacts
    <2> QED
      BY <2>2, <2>4, Frames
  <1> QED
    BY <1>1, <1>2, <1>3, <1>4

LEMMA TopicType ==
  ASSUME ManagerInv,
         (\E b \in Block : Deliver(b)) \/ gossipBlockSubscribe
  PROVE  ManagerInv'
  <1> USE DEF ManagerInv
  <1>1. UNCHANGED <<streamVars, syncVars, packageVars, txVars>>
    BY DEF Deliver, gossipBlockSubscribe, ReadEarly, ReadKnown, ReadZero,
           ReadRejected, Rejects, ReadVerified, ReadNew, Receive,
           AppendBlockTask
  <1>2. ASSUME NEW b \in Block, Deliver(b)
        PROVE  TopicInv'
    <2>1. /\ inbox' \in {inbox, Append(inbox, b)}
          /\ inbox' # inbox => Len(inbox) < InboxCap
          /\ UNCHANGED <<reader, block, knownBlock, handed>>
      BY <1>2 DEF Deliver
    <2>2. inbox' \in Seq(Block) /\ Len(inbox') <= InboxCap
      BY <2>1, ManagerFacts DEF TopicInv
    <2> QED
      BY <2>1, <2>2 DEF TopicInv
  <1>3. ASSUME NEW b \in Block, Receive(b)
        PROVE  inbox' \in Seq(Block) /\ Len(inbox') <= InboxCap
    <2>1. inbox # <<>> /\ inbox' = Tail(inbox)
      BY <1>3 DEF Receive
    <2>2. Tail(inbox) \in Seq(Block) /\ Len(Tail(inbox)) = Len(inbox) - 1
      BY <2>1 DEF TopicInv
    <2> QED
      BY <2>1, <2>2, ManagerFacts DEF TopicInv
  <1>4. ASSUME NEW b \in Block, ReadEarly(b) \/ ReadKnown(b)
        PROVE  TopicInv'
    BY <1>3, <1>4 DEF TopicInv, ReadEarly, ReadKnown
  <1>5. ASSUME NEW b \in Block,
               ReadZero(b) \/ ReadRejected(b) \/ ReadVerified(b)
        PROVE  TopicInv'
    <2>1. ReadNew(b) /\ Receive(b)
      BY <1>5 DEF ReadZero, ReadRejected, Rejects, ReadVerified, ReadNew
    <2>2. CacheOK(knownBlock', Block, maxKnownBlock)
      BY <2>1, LruFacts, ManagerFacts DEF ReadNew, TopicInv
    <2>3. /\ reader' \in {"next", "append", "returned"}
          /\ block' \in Block
          /\ handed' \in {handed, Append(handed, b)}
      BY <1>5 DEF TopicInv, ReadZero, ReadRejected, Rejects, ReadVerified
    <2>4. handed' \in Seq(Block)
      BY <2>3 DEF TopicInv
    <2> QED
      BY <1>3, <2>1, <2>2, <2>3, <2>4 DEF TopicInv
  <1>6. ASSUME AppendBlockTask
        PROVE  TopicInv'
    <2>1. /\ reader' = "next" /\ handed' = Append(handed, block)
          /\ block' = Some(Block) /\ UNCHANGED <<inbox, knownBlock>>
      BY <1>6 DEF AppendBlockTask
    <2>2. handed' \in Seq(Block)
      BY <2>1 DEF TopicInv
    <2>3. CacheOK(knownBlock', Block, maxKnownBlock) /\ block' \in Block
      BY <2>1, ManagerFacts DEF TopicInv
    <2> QED
      BY <2>1, <2>2, <2>3 DEF TopicInv
  <1>7. TopicInv'
    BY <1>2, <1>4, <1>5, <1>6 DEF gossipBlockSubscribe
  <1> QED
    BY <1>1, <1>7, Frames

LEMMA TransactionType ==
  ASSUME ManagerInv,
         \/ \E t \in Tx : TransactionUDP(t) \/ SubmitTransaction(t)
         \/ \E x \in Adder : SendTx(x) \/ AddToPool(x)
         \/ broadcastTransaction
  PROVE  ManagerInv'
  <1> USE DEF ManagerInv
  <1>1. UNCHANGED <<streamVars, syncVars, topicVars, packageVars>>
    BY DEF TransactionUDP, SubmitTransaction, SendTx, AddToPool,
           broadcastTransaction
  <1>2. ASSUME NEW t \in Tx, NEW x \in Adder, AddTransaction(x, t)
        PROVE  /\ CacheOK(knownTx', Tx, maxKnownTx)
               /\ adding' \in [Adder -> {"idle", "send", "add"}]
               /\ tx' \in [Adder -> Tx]
    <2>1. CacheOK(knownTx', Tx, maxKnownTx)
      BY <1>2, LruFacts, ManagerFacts DEF AddTransaction, TxInv
    <2> QED
      BY <1>2, <2>1 DEF AddTransaction, TxInv
  <1>3. ASSUME NEW t \in Tx, TransactionUDP(t) \/ SubmitTransaction(t)
        PROVE  TxInv'
    <2>1. \/ AddTransaction("udp", t) \/ AddTransaction("rpc", t)
          \/ UNCHANGED <<knownTx, adding, tx>>
      BY <1>3 DEF TransactionUDP, SubmitTransaction
    <2>2. UNCHANGED <<txQueue, pooled, sent>>
      BY <1>3 DEF TransactionUDP, SubmitTransaction
    <2> QED
      BY <1>2, <2>1, <2>2, ManagerFacts DEF TxInv
  <1>4. ASSUME NEW x \in Adder, SendTx(x)
        PROVE  TxInv'
    <2>1. /\ Len(txQueue) < TxQueueCap /\ txQueue' = Append(txQueue, tx[x])
          /\ adding' = [adding EXCEPT ![x] = "add"]
          /\ UNCHANGED <<knownTx, tx, pooled, sent>>
      BY <1>4 DEF SendTx
    <2>2. txQueue' \in Seq(Tx) /\ Len(txQueue') <= TxQueueCap
      BY <2>1, ManagerFacts DEF TxInv
    <2> QED
      BY <2>1, <2>2 DEF TxInv
  <1>5. ASSUME NEW x \in Adder, AddToPool(x)
        PROVE  TxInv'
    BY <1>5, ManagerFacts DEF AddToPool, TxInv
  <1>6. ASSUME broadcastTransaction
        PROVE  TxInv'
    <2>1. /\ txQueue # <<>> /\ txQueue' = Tail(txQueue)
          /\ sent' \in {sent, sent \cup {Head(txQueue)}}
          /\ UNCHANGED <<knownTx, adding, tx, pooled>>
      BY <1>6 DEF broadcastTransaction, UDPGossipBroadcast
    <2>2. /\ Head(txQueue) \in Tx /\ Tail(txQueue) \in Seq(Tx)
          /\ Len(Tail(txQueue)) = Len(txQueue) - 1
      BY <2>1 DEF TxInv
    <2>3. txQueue' \in Seq(Tx) /\ Len(txQueue') <= TxQueueCap
      BY <2>1, <2>2, ManagerFacts DEF TxInv
    <2>4. CacheOK(knownTx', Tx, maxKnownTx) /\ sent' \subseteq Tx
      BY <2>1, <2>2 DEF TxInv
    <2> QED
      BY <2>1, <2>3, <2>4 DEF TxInv
  <1>7. TxInv'
    BY <1>3, <1>4, <1>5, <1>6
  <1> QED
    BY <1>1, <1>7, Frames

(* Queues and caches of the manager keep within their capacities and hold  *)
(* what they should, however its routines interleave, and nothing is       *)
(* published that packageBlockRoutine has not made.                        *)
THEOREM ManagerTypeCorrect == ManagerSpec => []ManagerTypeOK
  <1>1. ManagerInit => ManagerInv
    BY InitManager
  <1>2. ManagerInv /\ [ManagerNext]_managerVars => ManagerInv'
    <2> SUFFICES ASSUME ManagerInv, [ManagerNext]_managerVars
                 PROVE  ManagerInv'
      OBVIOUS
    <2>1. CASE Streams
      BY <2>1, StreamsType, StreamsNextKeeps DEF Streams, ManagerInv
    <2>2. CASE UNCHANGED managerVars
      BY <2>2, Frames DEF managerVars, ManagerInv
    <2> QED
      BY <2>1, <2>2, SyncType, PackagerType, TopicType, TransactionType
         DEF ManagerNext
  <1>3. ManagerInv => ManagerTypeOK
    <2> SUFFICES ASSUME ManagerInv
                 PROVE  ManagerTypeOK
      OBVIOUS
    <2>1. StreamsOK
      <3>1. DOMAIN peerSet = 1..Len(peerSet)
        BY DEF ManagerInv, TablesInv, PlacesExist
      <3>2. Range(peers) \subseteq DOMAIN peerSet
        BY <3>1 DEF ManagerInv, TablesInv, PlacesExist, Range
      <3> QED
        BY <3>1, <3>2
           DEF ManagerInv, TablesInv, PlacesExist, Stream, BoundsInv, StreamsOK
    <2> QED
      BY <2>1 DEF ManagerInv, StatusInv, TopicInv, PackageInv, TxInv, CacheOK,
                  ManagerTypeOK
  <1> QED
    BY <1>1, <1>2, <1>3, PTL DEF ManagerSpec

-----------------------------------------------------------------------------
(***************************************************************************)
(* The stream.  Types and clocks both need to know what is under way: the  *)
(* type counts the time requests and their answers in the queues and       *)
(* handlers, the clocks say which adjustments each of them was stamped     *)
(* under.                                                                  *)
(***************************************************************************)

LEMMA Ends ==
  ASSUME NEW n \in Node
  PROVE  /\ Other(n) \in Node /\ Other(n) # n
         /\ \A p \in Node : p = n \/ p = Other(n)
         /\ Other(Other(n)) = n
  <1>1. /\ IsFiniteSet(Node \ {n}) /\ Cardinality(Node \ {n}) = 1
    BY PeerAssumption, FS_RemoveElement
  <1>2. PICK o : Node \ {n} = {o}
    BY <1>1, FS_Singleton
  <1>3. o \in Node /\ o # n /\ \A p \in Node : p = n \/ p = o
    BY <1>2
  <1>4. Other(n) = o
    BY <1>3 DEF Other
  <1>5. Other(o) = n
    BY <1>3 DEF Other
  <1> QED
    BY <1>3, <1>4, <1>5

(***************************************************************************)
(* Counting messages.  In a queue a message is its place, in a bag it is   *)
(* itself with a number.                                                   *)
(***************************************************************************)
Places(q, c) == {i \in 1..Len(q) : q[i].code = c}
Copies(B, c) == {t \in (DOMAIN B) \X Nat : t[1].code = c /\ t[2] \in 1..B[t[1]]}

Counts(c, d) == IF c = d THEN 1 ELSE 0

LEMMA PlacesFinite ==
  ASSUME NEW M, NEW q \in Seq(M), NEW c
  PROVE  /\ IsFiniteSet(Places(q, c))
         /\ Cardinality(Places(q, c)) \in Nat
  <1>1. IsFiniteSet(1..Len(q))
    BY FS_Interval
  <1>2. Places(q, c) \subseteq 1..Len(q)
    BY DEF Places
  <1> QED
    BY <1>1, <1>2, FS_Subset, FS_CardinalityType

LEMMA PlacesEmpty ==
  ASSUME NEW c
  PROVE  Cardinality(Places(<<>>, c)) = 0
  <1>1. Places(<<>>, c) = {}
    BY DEF Places
  <1> QED
    BY <1>1, FS_EmptySet

LEMMA PlacesAppend ==
  ASSUME NEW M, NEW q \in Seq(M), NEW m \in M, NEW c
  PROVE  Cardinality(Places(Append(q, m), c))
           = Cardinality(Places(q, c)) + Counts(m.code, c)
  <1>1. Len(q) \in Nat /\ Len(q) + 1 \notin Places(q, c)
    BY DEF Places
  <1>2. Places(Append(q, m), c)
          = IF m.code = c THEN Places(q, c) \cup {Len(q) + 1}
            ELSE Places(q, c)
    BY DEF Places
  <1>3. CASE m.code = c
    BY <1>1, <1>2, <1>3, PlacesFinite, FS_AddElement DEF Counts
  <1>4. CASE m.code # c
    BY <1>2, <1>4, PlacesFinite DEF Counts
  <1> QED
    BY <1>3, <1>4

LEMMA PlacesTail ==
  ASSUME NEW M, NEW q \in Seq(M), q # <<>>, NEW c
  PROVE  Cardinality(Places(q, c))
           = Cardinality(Places(Tail(q), c)) + Counts(Head(q).code, c)
  <1> DEFINE S == Places(Tail(q), c)
             T == Places(q, c) \ {1}
             f == [i \in S |-> i + 1]
  <1>1. /\ Tail(q) \in Seq(M) /\ Len(q) \in Nat \ {0}
        /\ Len(Tail(q)) = Len(q) - 1 /\ Head(q) = q[1]
        /\ \A i \in 1..Len(Tail(q)) : Tail(q)[i] = q[i + 1]
    OBVIOUS
  <1>2. /\ S \subseteq Nat
        /\ \A i \in S : i + 1 \in T
        /\ \A j \in T : j - 1 \in S /\ j \in Int
    BY <1>1 DEF Places
  <1>3. f \in Bijection(S, T)
    <2> HIDE DEF S, T
    <2>1. f \in [S -> T]
      BY <1>2
    <2>2. \A i, j \in S : f[i] = f[j] => i = j
      BY <1>2
    <2>3. \A j \in T : \E i \in S : f[i] = j
      <3> TAKE j \in T
      <3>1. j - 1 \in S /\ f[j - 1] = j
        BY <1>2
      <3> QED
        BY <3>1
    <2> QED
      BY <2>1, <2>2, <2>3 DEF Bijection, Injection, Surjection, IsInjective
  <1>4. IsFiniteSet(S) /\ Cardinality(S) \in Nat
    BY <1>1, PlacesFinite
  <1>5. Cardinality(T) = Cardinality(S)
    <2> HIDE DEF S, T, f
    <2> QED
      BY <1>3, <1>4, FS_Bijection DEF ExistsBijection
  <1>6. 1 \in Places(q, c) <=> Head(q).code = c
    BY <1>1 DEF Places
  <1>7. /\ IsFiniteSet(Places(q, c)) /\ Cardinality(Places(q, c)) \in Nat
        /\ Cardinality(T) = IF 1 \in Places(q, c)
                            THEN Cardinality(Places(q, c)) - 1
                            ELSE Cardinality(Places(q, c))
    BY PlacesFinite, FS_RemoveElement
  <1> QED
    BY <1>4, <1>5, <1>6, <1>7 DEF Counts

BagAdd(B, m) == B (+) SetToBag({m})
BagRemove(B, m) == B (-) SetToBag({m})

LEMMA BagAddFacts ==
  ASSUME NEW B, IsABag(B), NEW m
  PROVE  /\ IsABag(BagAdd(B, m))
         /\ BagToSet(BagAdd(B, m)) = BagToSet(B) \cup {m}
         /\ \A x \in BagToSet(BagAdd(B, m)) :
              BagAdd(B, m)[x] = IF x # m THEN B[x]
                                ELSE IF m \in BagToSet(B) THEN B[m] + 1
                                ELSE 1
  <1> DEFINE C == SetToBag({m})
             A == BagAdd(B, m)
  <1>1. DOMAIN C = {m} /\ C[m] = 1
    BY DEF SetToBag
  <1>2. \A x \in DOMAIN B : B[x] \in Nat \ {0}
    BY DEF IsABag
  <1> HIDE DEF C
  <1>3. A = [x \in DOMAIN B \cup {m} |->
                (IF x \in DOMAIN B THEN B[x] ELSE 0)
                + (IF x \in DOMAIN C THEN C[x] ELSE 0)]
    BY <1>1 DEF BagAdd, (+), C
  <1>4. /\ DOMAIN A = DOMAIN B \cup {m}
        /\ \A x \in DOMAIN A :
             /\ A[x] = IF x # m THEN B[x]
                       ELSE IF m \in DOMAIN B THEN B[m] + 1 ELSE 1
             /\ A[x] \in {n \in Nat : n > 0}
    BY <1>1, <1>2, <1>3
  <1>5. A = [x \in DOMAIN A |-> A[x]]
    BY <1>3
  <1> HIDE DEF A
  <1>6. A \in [DOMAIN A -> {n \in Nat : n > 0}]
    BY <1>4, <1>5
  <1> QED
    BY <1>4, <1>6 DEF IsABag, BagToSet, A

LEMMA BagRemoveFacts ==
  ASSUME NEW B, IsABag(B), NEW m \in BagToSet(B)
  PROVE  /\ IsABag(BagRemove(B, m))
         /\ BagToSet(BagRemove(B, m))
              = IF B[m] = 1 THEN BagToSet(B) \ {m} ELSE BagToSet(B)
         /\ \A x \in BagToSet(BagRemove(B, m)) :
              BagRemove(B, m)[x] = IF x # m THEN B[x] ELSE B[m] - 1
  <1> DEFINE C == SetToBag({m})
             D == [x \in DOMAIN B |-> IF x \in DOMAIN C THEN B[x] - C[x]
                                      ELSE B[x]]
             A == BagRemove(B, m)
  <1>1. DOMAIN C = {m} /\ C[m] = 1
    BY DEF SetToBag
  <1>2. m \in DOMAIN B /\ \A x \in DOMAIN B : B[x] \in Nat \ {0}
    BY DEF IsABag, BagToSet
  <1>3. A = [x \in {y \in DOMAIN D : D[y] > 0} |-> D[x]]
    BY DEF BagRemove, (-)
  <1> HIDE DEF C
  <1>4. /\ DOMAIN D = DOMAIN B
        /\ \A x \in DOMAIN B : D[x] = IF x # m THEN B[x] ELSE B[m] - 1
    BY <1>1
  <1> HIDE DEF D
  <1>5. {y \in DOMAIN D : D[y] > 0}
          = IF B[m] = 1 THEN DOMAIN B \ {m} ELSE DOMAIN B
    BY <1>2, <1>4
  <1>6. /\ DOMAIN A = IF B[m] = 1 THEN DOMAIN B \ {m} ELSE DOMAIN B
        /\ \A x \in DOMAIN A :
             /\ A[x] = IF x # m THEN B[x] ELSE B[m] - 1
             /\ A[x] \in {n \in Nat : n > 0}
    BY <1>2, <1>3, <1>4, <1>5
  <1>7. A = [x \in DOMAIN A |-> A[x]]
    BY <1>3
  <1> HIDE DEF A
  <1>8. A \in [DOMAIN A -> {n \in Nat : n > 0}]
    BY <1>6, <1>7
  <1> QED
    BY <1>6, <1>8 DEF IsABag, BagToSet, A

LEMMA Pairs ==
  ASSUME NEW D, NEW E
  PROVE  /\ \A x, i : <<x, i>> \in D \X E <=> x \in D /\ i \in E
         /\ \A t \in D \X E : t = <<t[1], t[2]>>
  OBVIOUS

LEMMA CopiesAre ==
  ASSUME NEW B, NEW c
  PROVE  /\ \A x, i : <<x, i>> \in Copies(B, c)
                        <=> /\ x \in DOMAIN B /\ i \in Nat
                            /\ x.code = c /\ i \in 1..B[x]
         /\ \A t \in Copies(B, c) : t = <<t[1], t[2]>>
  <1>1. ASSUME NEW x, NEW i
        PROVE  <<x, i>> \in Copies(B, c)
                 <=> /\ x \in DOMAIN B /\ i \in Nat
                     /\ x.code = c /\ i \in 1..B[x]
    <2>1. <<x, i>>[1] = x /\ <<x, i>>[2] = i
      OBVIOUS
    <2>2. <<x, i>> \in (DOMAIN B) \X Nat <=> x \in DOMAIN B /\ i \in Nat
      BY Pairs, Zenon
    <2> QED
      BY <2>1, <2>2, Zenon DEF Copies
  <1>2. \A t \in (DOMAIN B) \X Nat : t = <<t[1], t[2]>>
    BY Pairs, Zenon
  <1>3. Copies(B, c) \subseteq (DOMAIN B) \X Nat
    BY DEF Copies
  <1> QED
    BY <1>1, <1>2, <1>3

LEMMA CopiesAdd ==
  ASSUME NEW B, IsABag(B), NEW m, NEW c, IsFiniteSet(Copies(B, c))
  PROVE  /\ IsFiniteSet(Copies(BagAdd(B, m), c))
         /\ Cardinality(Copies(BagAdd(B, m), c))
              = Cardinality(Copies(B, c)) + Counts(m.code, c)
  <1> DEFINE A == BagAdd(B, m)
             k == IF m \in DOMAIN B THEN B[m] + 1 ELSE 1
  <1>1. \A x \in DOMAIN B : B[x] \in Nat \ {0}
    BY DEF IsABag
  <1>2. k \in Nat \ {0} /\ <<m, k>> \notin Copies(B, c)
    BY <1>1, CopiesAre
  <1>3. /\ DOMAIN A = DOMAIN B \cup {m}
        /\ \A x \in DOMAIN A : A[x] = IF x # m THEN B[x] ELSE k
    BY BagAddFacts DEF BagToSet
  <1>4. m \in DOMAIN B => k = B[m] + 1
    OBVIOUS
  <1>5. m \notin DOMAIN B => k = 1
    OBVIOUS
  <1> HIDE DEF A, k
  <1>6. Copies(A, c)
          = IF m.code = c THEN Copies(B, c) \cup {<<m, k>>} ELSE Copies(B, c)
    <2>1. Copies(A, c) \subseteq Copies(B, c) \cup {<<m, k>>}
      <3> SUFFICES ASSUME NEW t \in Copies(A, c), t # <<m, k>>
                   PROVE  t \in Copies(B, c)
        OBVIOUS
      <3>1. PICK x, i : t = <<x, i>>
        BY CopiesAre
      <3>2. x \in DOMAIN A /\ i \in Nat /\ x.code = c /\ i \in 1..A[x]
        BY <3>1, CopiesAre
      <3>3. x \in DOMAIN B /\ i \in 1..B[x]
        BY <1>1, <1>2, <1>3, <1>4, <1>5, <3>1, <3>2
      <3> QED
        BY <3>1, <3>2, <3>3, CopiesAre
    <2>2. Copies(B, c) \subseteq Copies(A, c)
      <3> SUFFICES ASSUME NEW t \in Copies(B, c)
                   PROVE  t \in Copies(A, c)
        OBVIOUS
      <3>1. PICK x, i : t = <<x, i>>
        BY CopiesAre
      <3>2. x \in DOMAIN B /\ i \in Nat /\ x.code = c /\ i \in 1..B[x]
        BY <3>1, CopiesAre
      <3>3. x \in DOMAIN A /\ i \in 1..A[x]
        BY <1>1, <1>3, <1>4, <3>2
      <3> QED
        BY <3>1, <3>2, <3>3, CopiesAre
    <2>3. <<m, k>> \in Copies(A, c) <=> m.code = c
      BY <1>2, <1>3, CopiesAre
    <2> QED
      BY <1>2, <2>1, <2>2, <2>3
  <1>7. Cardinality(Copies(B, c)) \in Nat
    BY FS_CardinalityType
  <1>8. CASE m.code = c
    <2>1. Copies(A, c) = Copies(B, c) \cup {<<m, k>>}
      BY <1>6, <1>8
    <2>2. /\ IsFiniteSet(Copies(A, c))
          /\ Cardinality(Copies(A, c)) = Cardinality(Copies(B, c)) + 1
      BY <1>2, <2>1, FS_AddElement
    <2> QED
      BY <1>8, <2>2 DEF Counts, A
  <1>9. CASE m.code # c
    BY <1>6, <1>7, <1>9 DEF Counts, A
  <1> QED
    BY <1>8, <1>9

LEMMA CopiesRemove ==
  ASSUME NEW B, IsABag(B), NEW m \in BagToSet(B), NEW c,
         IsFiniteSet(Copies(B, c))
  PROVE  /\ IsFiniteSet(Copies(BagRemove(B, m), c))
         /\ Cardinality(Copies(B, c))
              = Cardinality(Copies(BagRemove(B, m), c)) + Counts(m.code, c)
  <1> DEFINE A == BagRemove(B, m)
  <1>1. m \in DOMAIN B /\ \A x \in DOMAIN B : B[x] \in Nat \ {0}
    BY DEF IsABag, BagToSet
  <1>2. <<m, B[m]>> \in Copies(B, c) <=> m.code = c
    BY <1>1, CopiesAre
  <1>3. /\ DOMAIN A = IF B[m] = 1 THEN DOMAIN B \ {m} ELSE DOMAIN B
        /\ \A x \in DOMAIN A : A[x] = IF x # m THEN B[x] ELSE B[m] - 1
    BY BagRemoveFacts DEF BagToSet
  <1> HIDE DEF A
  <1>4. Copies(A, c) = Copies(B, c) \ {<<m, B[m]>>}
    <2>1. ASSUME NEW t \in Copies(A, c)
          PROVE  t \in Copies(B, c) /\ t # <<m, B[m]>>
      <3>1. PICK x, i : t = <<x, i>>
        BY CopiesAre
      <3>2. x \in DOMAIN A /\ i \in Nat /\ x.code = c /\ i \in 1..A[x]
        BY <3>1, CopiesAre
      <3>3. x \in DOMAIN B /\ i \in 1..B[x] /\ ~(x = m /\ i = B[m])
        BY <1>1, <1>3, <3>2
      <3> QED
        BY <3>1, <3>2, <3>3, CopiesAre
    <2>2. ASSUME NEW t \in Copies(B, c), t # <<m, B[m]>>
          PROVE  t \in Copies(A, c)
      <3>1. PICK x, i : t = <<x, i>>
        BY CopiesAre
      <3>2. x \in DOMAIN B /\ i \in Nat /\ x.code = c /\ i \in 1..B[x]
        BY <3>1, CopiesAre
      <3>3. x \in DOMAIN A /\ i \in 1..A[x]
        BY <1>1, <1>3, <2>2, <3>1, <3>2
      <3> QED
        BY <3>1, <3>2, <3>3, CopiesAre
    <2> QED
      BY <2>1, <2>2
  <1>5. Cardinality(Copies(B, c)) \in Nat
    BY FS_CardinalityType
  <1>6. /\ IsFiniteSet(Copies(A, c))
        /\ Cardinality(Copies(A, c))
             = IF m.code = c THEN Cardinality(Copies(B, c)) - 1
               ELSE Cardinality(Copies(B, c))
    BY <1>2, <1>4, FS_RemoveElement
  <1> QED
    BY <1>5, <1>6 DEF Counts, A

(***************************************************************************)
(* The invariant of the types.  A time syncer that has not answered has    *)
(* the values of NewTimeSyncer, and one that confirms has not confirmed    *)
(* often enough.                                                           *)
(***************************************************************************)
Message == [code : Code, out : Int, back : Int]
Syncer == [status : {"INITIAL", "CONFIRMING", "SYNCED"}, delta : Int,
           confirmTimes : 0..confirmThreshold]

Handled(h) ==
  /\ h = [n \in Node |-> h[n]]
  /\ \A n \in Node : /\ IsABag(h[n]) /\ BagToSet(h[n]) \subseteq Message
                     /\ \A c \in Code : IsFiniteSet(Copies(h[n], c))

StreamType ==
  /\ connected \in BOOLEAN
  /\ {broken, stopped, handling} \subseteq [Node -> BOOLEAN]
  /\ sendQueue \in [Node -> Seq(Message)] /\ msgQueue \in [Node -> Seq(Message)]
  /\ Handled(handlers)
  /\ ticks \in [Node -> Nat]
  /\ ts \in [Node -> Syncer]
  /\ open \in [Node -> Nat]
  /\ \A n \in Node :
       /\ Len(sendQueue[n]) <= SendCap /\ Len(msgQueue[n]) <= RecvCap
       /\ ticks[n] <= StatusTicks[n]

SyncerOK(t) ==
  /\ t.status = "INITIAL" => t.delta = 0 /\ t.confirmTimes = 0
  /\ t.status = "CONFIRMING" => t.confirmTimes < confirmThreshold

(***************************************************************************)
(* The requests of a node on their way to the other end, their answers on  *)
(* the way back, and the bound on both: a handler that lowers open finds   *)
(* it positive, and the genesis node, which asks nothing, gets no answer.  *)
(***************************************************************************)
InQueue(q, n, c) == Cardinality(Places(q[n], c))
InHandlers(h, n, c) == Cardinality(Copies(h[n], c))

UnderWay(s, r, h, n) ==
  LET o == Other(n)
  IN  InQueue(s, n, "timeReq") + InQueue(r, o, "timeReq")
      + InHandlers(h, o, "timeReq") + InQueue(s, o, "timeRsp")
      + InQueue(r, n, "timeRsp") + InHandlers(h, n, "timeRsp")

OpenInv ==
  \A n \in Node :
    /\ UnderWay(sendQueue, msgQueue, handlers, n) <= open[n]
    /\ open[n] <= MaxOpen
    /\ n \in GenesisNode => open[n] = 0

StreamInv == StreamType /\ OpenInv /\ \A n \in Node : SyncerOK(ts[n])

(***************************************************************************)
(* What the messages of a client say, given the offset to the genesis node *)
(* and the adjustments its clock may have had when it stamped them: a      *)
(* request may be stamped before the first adjustment and answered after.  *)
(***************************************************************************)
Client(n) == n \notin GenesisNode /\ Other(n) \in GenesisNode
Offset(n) == Skew[Other(n)] - Skew[n]
Adjusted(n) == 2 * Half(Offset(n))
Deltas(n, t) == IF t.status = "INITIAL" THEN {0} ELSE {0, Adjusted(n)}

Asking(n, t) ==
  {m \in Message : m.code = "timeReq" =>
     \E d \in Deltas(n, t) : m.out = -(Skew[n] + d)}
Stamping(n, t, c) ==
  {m \in Message : m.code = c =>
     m.back = Skew[Other(n)] /\ \E d \in Deltas(n, t) : m.out = Offset(n) - d}
Answering(n, t) ==
  {m \in Message : m.code = "timeRsp" =>
     /\ \E d \in Deltas(n, t) : m.out = Offset(n) - d
     /\ \E d \in Deltas(n, t) : m.back = Offset(n) - d}

ClientInv(n, o) ==
  /\ ts[n].status # "INITIAL" => ts[n].delta = Adjusted(n)
  /\ ts[o].delta = 0
  /\ sendQueue[n] \in Seq(Asking(n, ts[n]))
  /\ msgQueue[o] \in Seq(Asking(n, ts[n]))
  /\ BagToSet(handlers[o]) \subseteq Stamping(n, ts[n], "timeReq")
  /\ sendQueue[o] \in Seq(Stamping(n, ts[n], "timeRsp"))
  /\ msgQueue[n] \in Seq(Stamping(n, ts[n], "timeRsp"))
  /\ BagToSet(handlers[n]) \subseteq Answering(n, ts[n])

ClockInv == \A n \in Node : Client(n) => ClientInv(n, Other(n))

-----------------------------------------------------------------------------
(* What the actions do to the queues and to the bags of handlers.          *)
Appended(q, r, k, m) == r = [q EXCEPT ![k] = Append(@, m)]
Taken(q, r, k) == q[k] # <<>> /\ r = [q EXCEPT ![k] = Tail(@)]
Started(h, r, k, m) == r = [h EXCEPT ![k] = BagAdd(@, m)]
Ended(h, r, k, m) ==
  m \in BagToSet(h[k]) /\ r = [h EXCEPT ![k] = BagRemove(@, m)]

LEMMA QueueAppend ==
  ASSUME NEW q \in [Node -> Seq(Message)], NEW k \in Node, NEW m \in Message,
         NEW r, Appended(q, r, k, m)
  PROVE  /\ r \in [Node -> Seq(Message)]
         /\ \A n \in Node : Len(r[n]) = Len(q[n]) + Counts(n, k)
         /\ \A n \in Node, c \in Code :
              InQueue(r, n, c)
                = InQueue(q, n, c)
                  + IF n = k THEN Counts(m.code, c) ELSE 0
  <1> USE DEF Appended
  <1>1. r \in [Node -> Seq(Message)]
    OBVIOUS
  <1>2. \A n \in Node : n # k => r[n] = q[n]
    OBVIOUS
  <1>3. r[k] = Append(q[k], m) /\ Len(r[k]) = Len(q[k]) + 1
    OBVIOUS
  <1>4. \A c : Cardinality(Places(r[k], c))
                 = Cardinality(Places(q[k], c)) + Counts(m.code, c)
    BY <1>3, PlacesAppend
  <1>5. \A n \in Node, c \in Code : InQueue(q, n, c) \in Nat
    BY PlacesFinite DEF InQueue
  <1> QED
    BY <1>1, <1>2, <1>3, <1>4, <1>5 DEF Counts, InQueue

LEMMA QueueTail ==
  ASSUME NEW q \in [Node -> Seq(Message)], NEW k \in Node,
         NEW r, Taken(q, r, k)
  PROVE  /\ r \in [Node -> Seq(Message)] /\ Head(q[k]) \in Message
         /\ \A n \in Node : Len(r[n]) <= Len(q[n])
         /\ \A n \in Node, c \in Code :
              InQueue(q, n, c)
                = InQueue(r, n, c)
                  + IF n = k THEN Counts(Head(q[k]).code, c) ELSE 0
  <1> USE DEF Taken
  <1>1. r \in [Node -> Seq(Message)] /\ Head(q[k]) \in Message
    OBVIOUS
  <1>2. \A n \in Node : n # k => r[n] = q[n]
    OBVIOUS
  <1>3. r[k] = Tail(q[k]) /\ Len(r[k]) <= Len(q[k])
    OBVIOUS
  <1>4. \A c : Cardinality(Places(q[k], c))
                 = Cardinality(Places(r[k], c)) + Counts(Head(q[k]).code, c)
    BY <1>3, PlacesTail
  <1>5. \A n \in Node, c \in Code : InQueue(q, n, c) \in Nat
    BY PlacesFinite DEF InQueue
  <1> QED
    BY <1>1, <1>2, <1>3, <1>4, <1>5 DEF Counts, InQueue

LEMMA HandlersAdd ==
  ASSUME NEW h, Handled(h), NEW k \in Node, NEW m \in Message,
         NEW r, Started(h, r, k, m)
  PROVE  /\ Handled(r)
         /\ BagToSet(r[k]) = BagToSet(h[k]) \cup {m}
         /\ \A n \in Node : n # k => r[n] = h[n]
         /\ \A n \in Node, c \in Code :
              InHandlers(r, n, c)
                = InHandlers(h, n, c)
                  + IF n = k THEN Counts(m.code, c) ELSE 0
  <1> USE DEF Started
  <1>1. \A n \in Node : n # k => r[n] = h[n]
    BY DEF Handled
  <1>2. r[k] = BagAdd(h[k], m) /\ r = [n \in Node |-> r[n]]
    BY DEF Handled
  <1>3. IsABag(r[k]) /\ BagToSet(r[k]) = BagToSet(h[k]) \cup {m}
    BY <1>2, BagAddFacts DEF Handled
  <1>4. \A c \in Code :
          /\ IsFiniteSet(Copies(r[k], c))
          /\ Cardinality(Copies(r[k], c))
               = Cardinality(Copies(h[k], c)) + Counts(m.code, c)
    BY <1>2, CopiesAdd DEF Handled
  <1>5. \A n \in Node, c \in Code : InHandlers(h, n, c) \in Nat
    BY FS_CardinalityType DEF Handled, InHandlers
  <1>6. Handled(r)
    BY <1>1, <1>2, <1>3, <1>4 DEF Handled
  <1> QED
    BY <1>1, <1>3, <1>4, <1>5, <1>6 DEF InHandlers

LEMMA HandlersRemove ==
  ASSUME NEW h, Handled(h), NEW k \in Node, NEW m,
         NEW r, Ended(h, r, k, m)
  PROVE  /\ Handled(r)
         /\ \A n \in Node : BagToSet(r[n]) \subseteq BagToSet(h[n])
         /\ \A n \in Node, c \in Code :
              InHandlers(h, n, c)
                = InHandlers(r, n, c)
                  + IF n = k THEN Counts(m.code, c) ELSE 0
  <1> USE DEF Ended
  <1>1. \A n \in Node : n # k => r[n] = h[n]
    BY DEF Handled
  <1>2. r[k] = BagRemove(h[k], m) /\ r = [n \in Node |-> r[n]]
    BY DEF Handled
  <1>3. IsABag(r[k]) /\ BagToSet(r[k]) \subseteq BagToSet(h[k])
    BY <1>2, BagRemoveFacts DEF Handled
  <1>4. \A c \in Code :
          /\ IsFiniteSet(Copies(r[k], c))
          /\ Cardinality(Copies(h[k], c))
               = Cardinality(Copies(r[k], c)) + Counts(m.code, c)
    BY <1>2, CopiesRemove DEF Handled
  <1>5. \A n \in Node, c \in Code : InHandlers(h, n, c) \in Nat
    BY FS_CardinalityType DEF Handled, InHandlers
  <1>6. Handled(r)
    BY <1>1, <1>2, <1>3, <1>4 DEF Handled
  <1> QED
    BY <1>1, <1>3, <1>4, <1>5, <1>6 DEF InHandlers

LEMMA MessageFacts ==
  /\ \A c \in Code : Msg(c) \in Message /\ Msg(c).code = c
  /\ \A m \in Message, c \in Code :
       [m EXCEPT !.code = c] \in Message /\ [m EXCEPT !.code = c].code = c
  /\ \A m \in Message, x \in Int :
       [m EXCEPT !.out = x] \in Message /\ [m EXCEPT !.out = x].code = m.code
  BY DEF Message, Msg

LEMMA ClockType ==
  ASSUME StreamType, NEW n \in Node
  PROVE  GetLogicClock(n) \in Int
  BY PeerAssumption DEF StreamType, Syncer, GetLogicClock

LEMMA StampedFacts ==
  ASSUME StreamType, NEW n \in Node, NEW m \in Message
  PROVE  Stamped(n, m) \in Message /\ Stamped(n, m).code = m.code
  <1> DEFINE t == GetLogicClock(n)
  <1>1. t \in Int
    BY ClockType
  <1> HIDE DEF t
  <1>2. /\ m.out + t \in Int /\ t \in Int /\ m.back - t \in Int
    BY <1>1 DEF Message
  <1>3. CASE m.code = "timeReq"
    BY <1>2, <1>3 DEF Stamped, Message, t
  <1>4. CASE m.code = "timeRsp"
    BY <1>2, <1>4 DEF Stamped, Message, t
  <1>5. CASE m.code \notin {"timeReq", "timeRsp"}
    BY <1>5 DEF Stamped
  <1> QED
    BY <1>3, <1>4, <1>5

(* The syncer after an answer.                                             *)
LEMMA AnswerKeeps ==
  ASSUME NEW t \in Syncer, SyncerOK(t), NEW m \in Message
  PROVE  LET u == ProcessSyncRespond(t, m)
         IN  u \in Syncer /\ SyncerOK(u) /\ u.status # "INITIAL"
  <1>1. Delta(m) \in Int
    BY DEF Delta, Half, Message
  <1>2. CASE t.status = "INITIAL"
    <2>1. ProcessSyncRespond(t, m)
            = [t EXCEPT !.status = "CONFIRMING", !.delta = @ + Delta(m)]
      BY <1>2 DEF ProcessSyncRespond, FirstAnswer
    <2>2. t.confirmTimes = 0 /\ t.delta + Delta(m) \in Int
      BY <1>1, <1>2 DEF Syncer, SyncerOK
    <2>3. 0 < confirmThreshold
      BY TimeAssumption
    <2> HIDE DEF ProcessSyncRespond
    <2> QED
      BY <2>1, <2>2, <2>3 DEF Syncer, SyncerOK
  <1>3. CASE t.status # "INITIAL"
    <2> DEFINE confirming == t.status = "CONFIRMING"
               times == IF ~Near(Delta(m)) THEN 0
                        ELSE t.confirmTimes + (IF confirming THEN 1 ELSE 0)
               phase == IF confirming /\ times = confirmThreshold
                        THEN "SYNCED" ELSE t.status
               delta == t.delta + (IF Near(Delta(m)) THEN Delta(m) ELSE 0)
    <2>1. ProcessSyncRespond(t, m)
            = [status |-> phase, delta |-> delta, confirmTimes |-> times]
      BY <1>3 DEF ProcessSyncRespond, Confirm
    <2>2. times \in 0..confirmThreshold
      BY TimeAssumption DEF Syncer, SyncerOK
    <2>3. delta \in Int
      BY <1>1 DEF Syncer
    <2>4. phase \in {"CONFIRMING", "SYNCED"}
      BY <1>3 DEF Syncer
    <2>5. phase = "CONFIRMING" => times < confirmThreshold
      BY <2>2, TimeAssumption DEF Syncer
    <2> HIDE DEF times, phase, delta
    <2> QED
      BY <2>1, <2>2, <2>3, <2>4, <2>5 DEF Syncer, SyncerOK
  <1> QED
    BY <1>2, <1>3

LEMMA InitStream ==
  ASSUME Init
  PROVE  StreamInv
  <1> USE DEF Init
  <1>1. EmptyBag = SetToBag({}) /\ IsABag(EmptyBag) /\ BagToSet(EmptyBag) = {}
    BY DEF EmptyBag, SetToBag, IsABag, BagToSet
  <1>2. \A c : Copies(EmptyBag, c) = {}
    BY <1>1 DEF Copies, BagToSet
  <1>3. /\ Handled(handlers)
        /\ \A n \in Node : \A c : InHandlers(handlers, n, c) = 0
    BY <1>1, <1>2, FS_EmptySet DEF Handled, InHandlers
  <1>4. \A n \in Node : \A c : InQueue(sendQueue, n, c) = 0 /\ InQueue(msgQueue, n, c) = 0
    BY PlacesEmpty DEF InQueue
  <1>5. \A n \in Node : ts[n] \in Syncer /\ SyncerOK(ts[n])
    BY TimeAssumption DEF NewTimeSyncer, Syncer, SyncerOK
  <1>6. StreamType
    <2>1. ts \in [Node -> Syncer]
      BY <1>5
    <2>2. <<>> \in Seq(Message) /\ Len(<<>>) = 0
      OBVIOUS
    <2> QED
      BY <1>3, <2>1, <2>2, PeerAssumption DEF StreamType
  <1>7. OpenInv
    <2>1. \A n \in Node : UnderWay(sendQueue, msgQueue, handlers, n) = 0
      BY <1>3, <1>4, Ends DEF UnderWay
    <2>2. 0 <= MaxOpen
      BY PeerAssumption
    <2> QED
      BY <2>1, <2>2 DEF OpenInv
  <1> QED
    BY <1>5, <1>6, <1>7 DEF StreamInv

LEMMA CountTypes ==
  ASSUME NEW s \in [Node -> Seq(Message)], NEW r \in [Node -> Seq(Message)],
         NEW h, Handled(h)
  PROVE  /\ \A n \in Node, c \in Code :
              /\ InQueue(s, n, c) \in Nat /\ InQueue(r, n, c) \in Nat
              /\ InHandlers(h, n, c) \in Nat
         /\ \A n \in Node : UnderWay(s, r, h, n) \in Nat
  <1>1. \A n \in Node, c \in Code :
          /\ InQueue(s, n, c) \in Nat /\ InQueue(r, n, c) \in Nat
          /\ InHandlers(h, n, c) \in Nat
    BY PlacesFinite, FS_CardinalityType DEF Handled, InQueue, InHandlers
  <1>2. ASSUME NEW n \in Node
        PROVE  UnderWay(s, r, h, n) \in Nat
    <2>1. Other(n) \in Node /\ "timeReq" \in Code /\ "timeRsp" \in Code
      BY Ends DEF Code
    <2>2. /\ InQueue(s, n, "timeReq") \in Nat
          /\ InQueue(r, Other(n), "timeReq") \in Nat
          /\ InHandlers(h, Other(n), "timeReq") \in Nat
          /\ InQueue(s, Other(n), "timeRsp") \in Nat
          /\ InQueue(r, n, "timeRsp") \in Nat
          /\ InHandlers(h, n, "timeRsp") \in Nat
      BY <1>1, <2>1
    <2> QED
      BY <2>2 DEF UnderWay
  <1> QED
    BY <1>1, <1>2

(* An action that adds no time message keeps the bound.                    *)
LEMMA CountsKeep ==
  ASSUME StreamType, OpenInv, StreamType', open' = open,
         \A n \in Node : UnderWay(sendQueue', msgQueue', handlers', n)
                           <= UnderWay(sendQueue, msgQueue, handlers, n)
  PROVE  OpenInv'
  <1>1. \A n \in Node : /\ UnderWay(sendQueue, msgQueue, handlers, n) \in Nat
                        /\ UnderWay(sendQueue', msgQueue', handlers', n) \in Nat
    BY CountTypes DEF StreamType
  <1> QED
    BY <1>1 DEF OpenInv, StreamType

(* A message is sent.                                                      *)
LEMMA SendFacts ==
  ASSUME StreamType, NEW k \in Node, NEW m \in Message, Send(k, m)
  PROVE  /\ sendQueue' \in [Node -> Seq(Message)]
         /\ \A n \in Node : Len(sendQueue'[n]) <= SendCap
         /\ \A n \in Node, c \in Code :
              InQueue(sendQueue', n, c)
                = InQueue(sendQueue, n, c) + IF n = k THEN Counts(m.code, c) ELSE 0
         /\ \A n \in Node, c \in Code :
              c # m.code => InQueue(sendQueue', n, c) = InQueue(sendQueue, n, c)
  <1>1. /\ sendQueue \in [Node -> Seq(Message)]
        /\ \A n \in Node : Len(sendQueue[n]) <= SendCap
    BY DEF StreamType
  <1>2. Appended(sendQueue, sendQueue', k, m) /\ Len(sendQueue[k]) < SendCap
    BY DEF Send, Appended
  <1>3. /\ sendQueue' \in [Node -> Seq(Message)]
        /\ \A n \in Node : Len(sendQueue'[n]) = Len(sendQueue[n]) + Counts(n, k)
        /\ \A n \in Node, c \in Code :
             InQueue(sendQueue', n, c)
               = InQueue(sendQueue, n, c) + IF n = k THEN Counts(m.code, c) ELSE 0
    BY <1>1, <1>2, QueueAppend
  <1>4. \A n \in Node : Len(sendQueue'[n]) <= SendCap
    BY <1>1, <1>2, <1>3, PeerAssumption DEF Counts
  <1>5. \A n \in Node, c \in Code : InQueue(sendQueue, n, c) \in Nat
    BY CountTypes DEF StreamType
  <1>6. \A c \in Code : c # m.code => Counts(m.code, c) = 0
    BY DEF Counts
  <1>7. \A n \in Node, c \in Code :
          c # m.code => InQueue(sendQueue', n, c) = InQueue(sendQueue, n, c)
    BY <1>3, <1>5, <1>6
  <1> QED
    BY <1>3, <1>4, <1>7

(* A handler ends.                                                         *)
LEMMA DoneFacts ==
  ASSUME StreamType, NEW k \in Node, NEW m, NEW d \in Code,
         Running(k, m, d), Done(k, m)
  PROVE  /\ Handled(handlers') /\ m \in Message /\ m.code = d
         /\ \A n \in Node : BagToSet(handlers'[n]) \subseteq BagToSet(handlers[n])
         /\ \A n \in Node, c \in Code :
              InHandlers(handlers, n, c)
                = InHandlers(handlers', n, c) + IF n = k THEN Counts(d, c) ELSE 0
  <1>1. Handled(handlers) /\ m \in Message /\ m.code = d
    BY DEF StreamType, Handled, Running
  <1>2. Ended(handlers, handlers', k, m)
    BY DEF Ended, Running, Done, BagRemove
  <1> QED
    BY <1>1, <1>2, HandlersRemove

LEMMA StatusKeeps ==
  ASSUME StreamInv, NEW k \in Node, sendStatus(k)
  PROVE  StreamInv'
  <1> USE DEF StreamInv
  <1> DEFINE m == Msg("statusReq")
  <1>1. /\ Send(k, m)
        /\ ticks[k] > 0
        /\ ticks' = [ticks EXCEPT ![k] = IF stopped[k] THEN 0 ELSE @ - 1]
        /\ UNCHANGED <<connected, msgQueue, broken, stopped, handling,
                       handlers, ts, open>>
    BY DEF sendStatus, timeVars
  <1>2. m \in Message /\ m.code = "statusReq"
    BY MessageFacts DEF Code
  <1> HIDE DEF m
  <1>3. /\ sendQueue' \in [Node -> Seq(Message)]
        /\ \A n \in Node : Len(sendQueue'[n]) <= SendCap
        /\ \A n \in Node, c \in {"timeReq", "timeRsp"} :
             InQueue(sendQueue', n, c) = InQueue(sendQueue, n, c)
    BY <1>1, <1>2, SendFacts DEF Code
  <1>4. /\ ticks' \in [Node -> Nat]
        /\ \A n \in Node : ticks'[n] <= ticks[n]
    BY <1>1 DEF StreamType
  <1>5. \A n \in Node : ticks'[n] <= StatusTicks[n]
    <2> TAKE n \in Node
    <2>1. StatusTicks[n] \in Nat /\ ticks[n] \in Nat /\ ticks[n] <= StatusTicks[n]
      BY PeerAssumption DEF StreamType
    <2> QED
      BY <1>4, <2>1
  <1>6. StreamType'
    BY <1>1, <1>3, <1>4, <1>5 DEF StreamType
  <1>7. \A n \in Node : UnderWay(sendQueue', msgQueue', handlers', n)
                          = UnderWay(sendQueue, msgQueue, handlers, n)
    BY <1>1, <1>3, Ends DEF UnderWay
  <1>8. OpenInv'
    BY <1>1, <1>7 DEF OpenInv
  <1> QED
    BY <1>1, <1>6, <1>8

LEMMA RequestKeeps ==
  ASSUME StreamInv, NEW k \in Node, requestTimeSync(k)
  PROVE  StreamInv'
  <1> USE DEF StreamInv
  <1> DEFINE m == [Msg("timeReq") EXCEPT !.out = -GetLogicClock(k)]
  <1>1. /\ Send(k, m)
        /\ k \notin GenesisNode /\ open[k] < MaxOpen
        /\ open' = [open EXCEPT ![k] = @ + 1]
        /\ UNCHANGED <<connected, msgQueue, broken, stopped, handling,
                       handlers, ticks, ts>>
    BY DEF requestTimeSync
  <1>2. m \in Message /\ m.code = "timeReq"
    <2>1. -GetLogicClock(k) \in Int
      BY ClockType
    <2> QED
      BY <2>1, MessageFacts DEF Code
  <1> HIDE DEF m
  <1>3. /\ sendQueue' \in [Node -> Seq(Message)]
        /\ \A n \in Node : Len(sendQueue'[n]) <= SendCap
        /\ \A n \in Node, c \in Code :
             InQueue(sendQueue', n, c)
               = InQueue(sendQueue, n, c) + IF n = k THEN Counts(m.code, c) ELSE 0
    BY <1>1, <1>2, SendFacts
  <1>4. open \in [Node -> Nat] /\ open' \in [Node -> Nat]
    BY <1>1 DEF StreamType
  <1>5. StreamType'
    BY <1>1, <1>3, <1>4 DEF StreamType
  <1>6. \A n \in Node : /\ UnderWay(sendQueue, msgQueue, handlers, n) \in Nat
                        /\ InQueue(sendQueue, n, "timeReq") \in Nat
                        /\ InQueue(sendQueue, n, "timeRsp") \in Nat
    BY CountTypes DEF StreamType, Code
  <1>7. \A n \in Node :
          /\ InQueue(sendQueue', n, "timeReq")
               = InQueue(sendQueue, n, "timeReq") + IF n = k THEN 1 ELSE 0
          /\ InQueue(sendQueue', n, "timeRsp") = InQueue(sendQueue, n, "timeRsp")
    BY <1>2, <1>3, <1>6 DEF Counts, Code
  <1>8. \A n \in Node :
          UnderWay(sendQueue', msgQueue', handlers', n)
            = UnderWay(sendQueue, msgQueue, handlers, n) + IF n = k THEN 1 ELSE 0
    <2> TAKE n \in Node
    <2>1. \A c \in Code, p \in Node : /\ InQueue(msgQueue, p, c) \in Nat
                                      /\ InHandlers(handlers, p, c) \in Nat
      BY CountTypes DEF StreamType
    <2>2. "timeReq" \in Code /\ "timeRsp" \in Code /\ Other(n) \in Node
      BY Ends DEF Code
    <2> QED
      BY <1>1, <1>6, <1>7, <2>1, <2>2 DEF UnderWay
  <1>9. OpenInv'
    <2> SUFFICES ASSUME NEW n \in Node
                 PROVE  /\ UnderWay(sendQueue', msgQueue', handlers', n) <= open'[n]
                        /\ open'[n] <= MaxOpen
                        /\ n \in GenesisNode => open'[n] = 0
      BY DEF OpenInv
    <2>1. /\ UnderWay(sendQueue, msgQueue, handlers, n) <= open[n]
          /\ open[n] <= MaxOpen
          /\ n \in GenesisNode => open[n] = 0
      BY DEF OpenInv
    <2>2. open'[n] = IF n = k THEN open[k] + 1 ELSE open[n]
      BY <1>1, <1>4
    <2> QED
      BY <1>1, <1>4, <1>6, <1>8, <2>1, <2>2, PeerAssumption
  <1> QED
    BY <1>1, <1>5, <1>9

(* The writer takes the first message of its queue.                        *)
LEMMA TakeFacts ==
  ASSUME StreamType, NEW k \in Node, Take(k)
  PROVE  /\ sendQueue' \in [Node -> Seq(Message)]
         /\ Head(sendQueue[k]) \in Message
         /\ \A n \in Node : Len(sendQueue'[n]) <= SendCap
         /\ \A n \in Node, c \in Code :
              /\ InQueue(sendQueue', n, c) \in Nat
              /\ InQueue(sendQueue, n, c)
                   = InQueue(sendQueue', n, c)
                     + IF n = k THEN Counts(Head(sendQueue[k]).code, c) ELSE 0
  <1>1. /\ sendQueue \in [Node -> Seq(Message)] /\ Handled(handlers)
        /\ \A n \in Node : Len(sendQueue[n]) <= SendCap
    BY DEF StreamType
  <1>2. Taken(sendQueue, sendQueue', k)
    BY DEF Take, Taken
  <1>3. /\ sendQueue' \in [Node -> Seq(Message)]
        /\ Head(sendQueue[k]) \in Message
        /\ \A n \in Node : Len(sendQueue'[n]) <= Len(sendQueue[n])
        /\ \A n \in Node, c \in Code :
             InQueue(sendQueue, n, c)
               = InQueue(sendQueue', n, c)
                 + IF n = k THEN Counts(Head(sendQueue[k]).code, c) ELSE 0
    BY <1>1, <1>2, QueueTail
  <1>4. \A n \in Node : Len(sendQueue'[n]) <= SendCap
    BY <1>1, <1>3, PeerAssumption
  <1>5. \A n \in Node, c \in Code : InQueue(sendQueue', n, c) \in Nat
    BY <1>1, <1>3, CountTypes
  <1> QED
    BY <1>3, <1>4, <1>5

LEMMA WriteKeeps ==
  ASSUME StreamInv, NEW k \in Node, Write(k)
  PROVE  StreamInv'
  <1> USE DEF StreamInv
  <1> DEFINE m == Head(sendQueue[k])
             o == Other(k)
  <1>1. /\ Take(k) /\ Len(msgQueue[o]) < RecvCap
        /\ msgQueue' = [msgQueue EXCEPT ![o] = Append(@, m)]
        /\ UNCHANGED <<connected, broken, stopped, handling, handlers, ticks,
                       ts, open>>
    BY DEF Write, Take, timeVars
  <1>2. o \in Node /\ o # k /\ Other(o) = k /\ \A n \in Node : n = k \/ n = o
    BY Ends
  <1>3. /\ sendQueue' \in [Node -> Seq(Message)]
        /\ m \in Message
        /\ \A n \in Node : Len(sendQueue'[n]) <= SendCap
        /\ \A n \in Node, c \in Code :
             /\ InQueue(sendQueue', n, c) \in Nat
             /\ InQueue(sendQueue, n, c)
                  = InQueue(sendQueue', n, c) + IF n = k THEN Counts(m.code, c) ELSE 0
    BY <1>1, TakeFacts
  <1>4. /\ Appended(msgQueue, msgQueue', o, m)
        /\ msgQueue \in [Node -> Seq(Message)] /\ Handled(handlers)
        /\ \A n \in Node : Len(msgQueue[n]) <= RecvCap
    BY <1>1 DEF Appended, StreamType
  <1> HIDE DEF m, o
  <1>5. /\ msgQueue' \in [Node -> Seq(Message)]
        /\ \A n \in Node : Len(msgQueue'[n]) = Len(msgQueue[n]) + Counts(n, o)
        /\ \A n \in Node, c \in Code :
             InQueue(msgQueue', n, c)
               = InQueue(msgQueue, n, c) + IF n = o THEN Counts(m.code, c) ELSE 0
    <2>1. /\ o \in Node /\ m \in Message
          /\ msgQueue \in [Node -> Seq(Message)]
          /\ Appended(msgQueue, msgQueue', o, m)
      BY <1>2, <1>3, <1>4
    <2> QED
      BY <2>1, QueueAppend
  <1>6. \A n \in Node : Len(msgQueue'[n]) <= RecvCap
    BY <1>1, <1>4, <1>5, PeerAssumption DEF Counts
  <1>7. StreamType'
    BY <1>1, <1>3, <1>5, <1>6 DEF StreamType
  <1>8. \A n \in Node, c \in Code : InQueue(msgQueue, n, c) \in Nat
    BY CountTypes DEF StreamType
  <1>9. \A c \in Code :
          /\ InQueue(sendQueue', k, c) + InQueue(msgQueue', o, c)
               = InQueue(sendQueue, k, c) + InQueue(msgQueue, o, c)
          /\ InQueue(sendQueue', o, c) = InQueue(sendQueue, o, c)
          /\ InQueue(msgQueue', k, c) = InQueue(msgQueue, k, c)
    <2>1. \A c : Counts(m.code, c) \in Nat
      BY DEF Counts
    <2> QED
      BY <1>2, <1>3, <1>5, <1>8, <2>1
  <1>10. \A n \in Node : UnderWay(sendQueue', msgQueue', handlers', n)
                           = UnderWay(sendQueue, msgQueue, handlers, n)
    <2>1. "timeReq" \in Code /\ "timeRsp" \in Code
      BY DEF Code
    <2>2. \A p \in Node, c \in Code :
            /\ InQueue(sendQueue, p, c) \in Nat /\ InQueue(msgQueue, p, c) \in Nat
            /\ InQueue(sendQueue', p, c) \in Nat /\ InQueue(msgQueue', p, c) \in Nat
            /\ InHandlers(handlers, p, c) \in Nat
      BY <1>3, <1>4, <1>5, CountTypes DEF StreamType
    <2>3. Other(k) = o /\ handlers' = handlers
      BY <1>1 DEF o
    <2>4. UnderWay(sendQueue', msgQueue', handlers', k)
            = UnderWay(sendQueue, msgQueue, handlers, k)
      BY <1>2, <1>9, <2>1, <2>2, <2>3 DEF UnderWay
    <2>5. UnderWay(sendQueue', msgQueue', handlers', o)
            = UnderWay(sendQueue, msgQueue, handlers, o)
      BY <1>2, <1>9, <2>1, <2>2, <2>3 DEF UnderWay
    <2> QED
      BY <1>2, <2>4, <2>5
  <1>11. OpenInv'
    BY <1>1, <1>10 DEF OpenInv
  <1> QED
    BY <1>1, <1>7, <1>11

LEMMA LoseKeeps ==
  ASSUME StreamInv, NEW k \in Node, WriteLost(k) \/ WriteFails(k)
  PROVE  StreamInv'
  <1> USE DEF StreamInv
  <1>1. /\ Take(k)
        /\ {broken', stopped'} \subseteq [Node -> BOOLEAN]
        /\ UNCHANGED <<connected, msgQueue, handling, handlers, ticks, ts, open>>
    <2>1. /\ Take(k)
          /\ UNCHANGED <<connected, msgQueue, handling, handlers, ticks, ts,
                         open>>
      BY DEF WriteLost, WriteFails, Take, timeVars
    <2>2. broken' \in [Node -> BOOLEAN] /\ stopped' \in [Node -> BOOLEAN]
      BY DEF WriteLost, WriteFails, StreamType
    <2> QED
      BY <2>1, <2>2
  <1>2. /\ sendQueue' \in [Node -> Seq(Message)]
        /\ \A n \in Node : Len(sendQueue'[n]) <= SendCap
        /\ \A n \in Node, c \in Code :
             /\ InQueue(sendQueue', n, c) \in Nat
             /\ InQueue(sendQueue, n, c)
                  = InQueue(sendQueue', n, c)
                    + IF n = k THEN Counts(Head(sendQueue[k]).code, c) ELSE 0
    BY <1>1, TakeFacts
  <1>3. StreamType'
    BY <1>1, <1>2 DEF StreamType
  <1>4. \A n \in Node, c \in Code :
          /\ InQueue(sendQueue, n, c) \in Nat
          /\ InQueue(sendQueue', n, c) <= InQueue(sendQueue, n, c)
    <2>1. \A c : Counts(Head(sendQueue[k]).code, c) \in Nat
      BY DEF Counts
    <2>2. \A n \in Node, c \in Code : InQueue(sendQueue, n, c) \in Nat
      BY CountTypes DEF StreamType
    <2> TAKE n \in Node, c \in Code
    <2> DEFINE d == IF n = k THEN Counts(Head(sendQueue[k]).code, c) ELSE 0
    <2>3. d \in Nat
      BY <2>1
    <2>4. /\ InQueue(sendQueue', n, c) \in Nat
          /\ InQueue(sendQueue, n, c) = InQueue(sendQueue', n, c) + d
      BY <1>2
    <2> HIDE DEF d
    <2> QED
      BY <2>2, <2>3, <2>4
  <1>5. \A n \in Node : UnderWay(sendQueue', msgQueue', handlers', n)
                          <= UnderWay(sendQueue, msgQueue, handlers, n)
    <2> TAKE n \in Node
    <2>1. Other(n) \in Node /\ "timeReq" \in Code /\ "timeRsp" \in Code
      BY Ends DEF Code
    <2>2. \A p \in Node, c \in Code :
            InQueue(msgQueue, p, c) \in Nat /\ InHandlers(handlers, p, c) \in Nat
      BY CountTypes DEF StreamType
    <2>3. /\ InQueue(sendQueue', n, "timeReq") \in Nat
          /\ InQueue(sendQueue, n, "timeReq") \in Nat
          /\ InQueue(sendQueue', n, "timeReq") <= InQueue(sendQueue, n, "timeReq")
          /\ InQueue(sendQueue', Other(n), "timeRsp") \in Nat
          /\ InQueue(sendQueue, Other(n), "timeRsp") \in Nat
          /\ InQueue(sendQueue', Other(n), "timeRsp")
               <= InQueue(sendQueue, Other(n), "timeRsp")
      BY <1>2, <1>4, <2>1
    <2>4. /\ InQueue(msgQueue, Other(n), "timeReq") \in Nat
          /\ InQueue(msgQueue, n, "timeRsp") \in Nat
          /\ InHandlers(handlers, Other(n), "timeReq") \in Nat
          /\ InHandlers(handlers, n, "timeRsp") \in Nat
      BY <2>1, <2>2
    <2> QED
      BY <1>1, <2>3, <2>4 DEF UnderWay
  <1>6. OpenInv'
    BY <1>1, <1>3, <1>5, CountsKeep
  <1> QED
    BY <1>1, <1>3, <1>6

LEMMA DisconnectKeeps ==
  ASSUME StreamInv, Disconnect
  PROVE  StreamInv'
  <1> USE DEF StreamInv
  <1>1. /\ connected' = FALSE /\ msgQueue' = [n \in Node |-> <<>>]
        /\ UNCHANGED <<sendQueue, broken, stopped, handling, handlers, ticks,
                       ts, open>>
    BY DEF Disconnect, timeVars
  <1>2. <<>> \in Seq(Message) /\ Len(<<>>) = 0
    OBVIOUS
  <1>3. StreamType'
    <2>1. msgQueue' \in [Node -> Seq(Message)]
      BY <1>1, <1>2
    <2>2. \A n \in Node : Len(msgQueue'[n]) <= RecvCap
      BY <1>1, <1>2, PeerAssumption
    <2> QED
      BY <1>1, <2>1, <2>2 DEF StreamType
  <1>4. \A n \in Node : \A c : InQueue(msgQueue', n, c) = 0
    BY <1>1, PlacesEmpty DEF InQueue
  <1>5. \A n \in Node : UnderWay(sendQueue', msgQueue', handlers', n)
                          <= UnderWay(sendQueue, msgQueue, handlers, n)
    <2> TAKE n \in Node
    <2>1. Other(n) \in Node /\ "timeReq" \in Code /\ "timeRsp" \in Code
      BY Ends DEF Code
    <2>2. \A p \in Node, c \in Code :
            /\ InQueue(sendQueue, p, c) \in Nat /\ InQueue(msgQueue, p, c) \in Nat
            /\ InHandlers(handlers, p, c) \in Nat
      BY CountTypes DEF StreamType
    <2>3. /\ InQueue(sendQueue, n, "timeReq") \in Nat
          /\ InQueue(sendQueue, Other(n), "timeRsp") \in Nat
          /\ InQueue(msgQueue, Other(n), "timeReq") \in Nat
          /\ InQueue(msgQueue, n, "timeRsp") \in Nat
          /\ InHandlers(handlers, Other(n), "timeReq") \in Nat
          /\ InHandlers(handlers, n, "timeRsp") \in Nat
      BY <2>1, <2>2
    <2>4. /\ InQueue(msgQueue', Other(n), "timeReq") = 0
          /\ InQueue(msgQueue', n, "timeRsp") = 0
      BY <1>4, <2>1
    <2> QED
      BY <1>1, <2>3, <2>4 DEF UnderWay
  <1>6. OpenInv'
    BY <1>1, <1>3, <1>5, CountsKeep
  <1> QED
    BY <1>1, <1>3, <1>6

(* Handle moves a time message from the queue to a handler.                *)
LEMMA HandleKeeps ==
  ASSUME StreamInv, NEW k \in Node, Handle(k)
  PROVE  StreamInv'
  <1> USE DEF StreamInv
  <1> DEFINE m == Head(msgQueue[k])
  <1>1. /\ Taken(msgQueue, msgQueue', k)
        /\ handlers' = [handlers EXCEPT ![k] = Start(k, m)]
        /\ handling' = [handling EXCEPT ![k] = ~stopped[k]]
        /\ UNCHANGED <<connected, sendQueue, broken, stopped, ticks, ts, open>>
    BY DEF Handle, Taken, timeVars
  <1>2. /\ msgQueue \in [Node -> Seq(Message)] /\ Handled(handlers)
        /\ sendQueue \in [Node -> Seq(Message)]
        /\ \A n \in Node : Len(msgQueue[n]) <= RecvCap
    BY DEF StreamType
  <1>3. /\ msgQueue' \in [Node -> Seq(Message)] /\ m \in Message
        /\ \A n \in Node : Len(msgQueue'[n]) <= Len(msgQueue[n])
        /\ \A n \in Node, c \in Code :
             InQueue(msgQueue, n, c)
               = InQueue(msgQueue', n, c) + IF n = k THEN Counts(m.code, c) ELSE 0
    BY <1>1, <1>2, QueueTail
  <1>4. \A n \in Node : Len(msgQueue'[n]) <= RecvCap
    BY <1>2, <1>3, PeerAssumption
  <1> HIDE DEF m
  <1>5. handling' \in [Node -> BOOLEAN]
    BY <1>1 DEF StreamType
  <1>6. /\ Handled(handlers')
        /\ \A n \in Node, c \in {"timeReq", "timeRsp"} :
             InHandlers(handlers', n, c)
               = InHandlers(handlers, n, c) + IF n = k THEN Counts(m.code, c) ELSE 0
    <2>1. \A n \in Node, c \in {"timeReq", "timeRsp"} :
            c \in Code /\ InHandlers(handlers, n, c) \in Nat
      BY <1>2, CountTypes DEF Code
    <2>2. CASE m.code = "statusMsg"
      <3>1. handlers' = handlers
        BY <1>1, <1>2, <2>2 DEF Start, Handled
      <3>2. \A c \in {"timeReq", "timeRsp"} : Counts(m.code, c) = 0
        BY <2>2 DEF Counts
      <3> QED
        BY <1>2, <2>1, <3>1, <3>2
    <2>3. CASE m.code # "statusMsg"
      <3>1. Started(handlers, handlers', k, Stamped(k, m))
        BY <1>1, <2>3 DEF Start, Started, BagAdd
      <3>2. Stamped(k, m) \in Message /\ Stamped(k, m).code = m.code
        BY <1>3, StampedFacts
      <3>3. /\ Handled(handlers')
            /\ \A n \in Node, c \in Code :
                 InHandlers(handlers', n, c)
                   = InHandlers(handlers, n, c)
                     + IF n = k THEN Counts(Stamped(k, m).code, c) ELSE 0
        <4> DEFINE z == Stamped(k, m)
        <4>1. /\ Started(handlers, handlers', k, z) /\ z \in Message
              /\ Handled(handlers)
          BY <1>2, <3>1, <3>2
        <4> HIDE DEF z
        <4>2. /\ Handled(handlers')
              /\ \A n \in Node, c \in Code :
                   InHandlers(handlers', n, c)
                     = InHandlers(handlers, n, c)
                       + IF n = k THEN Counts(z.code, c) ELSE 0
          <5>1. Handled(handlers')
            BY <4>1, HandlersAdd
          <5>2. ASSUME NEW n \in Node, NEW c \in Code
                PROVE  InHandlers(handlers', n, c)
                         = InHandlers(handlers, n, c)
                           + IF n = k THEN Counts(z.code, c) ELSE 0
            BY <4>1, HandlersAdd
          <5> QED
            BY <5>1, <5>2
        <4> QED
          BY <4>2 DEF z
      <3> QED
        BY <2>1, <3>2, <3>3
    <2> QED
      BY <2>2, <2>3
  <1>7. StreamType'
    BY <1>1, <1>3, <1>4, <1>5, <1>6 DEF StreamType
  <1>8. \A n \in Node, c \in {"timeReq", "timeRsp"} :
          /\ InQueue(msgQueue', n, c) \in Nat /\ InQueue(msgQueue, n, c) \in Nat
          /\ InHandlers(handlers', n, c) \in Nat /\ InHandlers(handlers, n, c) \in Nat
          /\ InQueue(sendQueue, n, c) \in Nat
    BY <1>2, <1>3, <1>6, CountTypes DEF Code
  <1>9. \A n \in Node, c \in {"timeReq", "timeRsp"} :
          InQueue(msgQueue', n, c) + InHandlers(handlers', n, c)
            = InQueue(msgQueue, n, c) + InHandlers(handlers, n, c)
    <2>1. \A c \in {"timeReq", "timeRsp"} : c \in Code /\ Counts(m.code, c) \in Nat
      BY DEF Counts, Code
    <2> SUFFICES ASSUME NEW n \in Node, NEW c \in {"timeReq", "timeRsp"}
                 PROVE  InQueue(msgQueue', n, c) + InHandlers(handlers', n, c)
                          = InQueue(msgQueue, n, c) + InHandlers(handlers, n, c)
      OBVIOUS
    <2> DEFINE d == IF n = k THEN Counts(m.code, c) ELSE 0
    <2>2. d \in Nat
      BY <2>1
    <2>3. InQueue(msgQueue, n, c) = InQueue(msgQueue', n, c) + d
      BY <1>3, <2>1
    <2>4. InHandlers(handlers', n, c) = InHandlers(handlers, n, c) + d
      BY <1>6
    <2> HIDE DEF d
    <2> QED
      BY <1>8, <2>2, <2>3, <2>4
  <1>10. \A n \in Node : UnderWay(sendQueue', msgQueue', handlers', n)
                           = UnderWay(sendQueue, msgQueue, handlers, n)
    <2> TAKE n \in Node
    <2>1. Other(n) \in Node
      BY Ends
    <2>2. \A p \in {n, Other(n)}, c \in {"timeReq", "timeRsp"} :
            /\ InQueue(msgQueue', p, c) \in Nat /\ InQueue(msgQueue, p, c) \in Nat
            /\ InHandlers(handlers', p, c) \in Nat
            /\ InHandlers(handlers, p, c) \in Nat /\ InQueue(sendQueue, p, c) \in Nat
            /\ InQueue(msgQueue', p, c) + InHandlers(handlers', p, c)
                 = InQueue(msgQueue, p, c) + InHandlers(handlers, p, c)
      BY <1>8, <1>9, <2>1
    <2> QED
      BY <1>1, <2>2 DEF UnderWay
  <1>11. OpenInv'
    BY <1>1, <1>10 DEF OpenInv
  <1> QED
    BY <1>1, <1>7, <1>11

LEMMA StatusReqKeeps ==
  ASSUME StreamInv, NEW k \in Node, NEW m, handleSyncStatusReq(k, m)
  PROVE  StreamInv'
  <1> USE DEF StreamInv
  <1>1. /\ Running(k, m, "statusReq") /\ Done(k, m) /\ Send(k, Msg("statusMsg"))
        /\ UNCHANGED <<connected, msgQueue, broken, stopped, handling, ticks,
                       ts, open>>
    BY DEF handleSyncStatusReq, timeVars
  <1>2. Msg("statusMsg") \in Message /\ Msg("statusMsg").code = "statusMsg"
    BY MessageFacts DEF Code
  <1>3. /\ sendQueue' \in [Node -> Seq(Message)]
        /\ \A n \in Node : Len(sendQueue'[n]) <= SendCap
        /\ \A n \in Node, c \in {"timeReq", "timeRsp"} :
             InQueue(sendQueue', n, c) = InQueue(sendQueue, n, c)
    BY <1>1, <1>2, SendFacts DEF Code
  <1>4. /\ Handled(handlers')
        /\ \A n \in Node, c \in Code :
             InHandlers(handlers, n, c)
               = InHandlers(handlers', n, c)
                 + IF n = k THEN Counts("statusReq", c) ELSE 0
    BY <1>1, DoneFacts DEF Code
  <1>5. StreamType'
    BY <1>1, <1>3, <1>4 DEF StreamType
  <1>6. \A n \in Node, c \in {"timeReq", "timeRsp"} :
          InHandlers(handlers', n, c) = InHandlers(handlers, n, c)
    <2>1. \A c \in {"timeReq", "timeRsp"} : c \in Code /\ Counts("statusReq", c) = 0
      BY DEF Counts, Code
    <2>2. \A n \in Node, c \in Code : InHandlers(handlers', n, c) \in Nat
      BY <1>3, <1>4, CountTypes
    <2> QED
      BY <1>4, <2>1, <2>2
  <1>7. \A n \in Node : UnderWay(sendQueue', msgQueue', handlers', n)
                          = UnderWay(sendQueue, msgQueue, handlers, n)
    BY <1>1, <1>3, <1>6, Ends DEF UnderWay
  <1>8. OpenInv'
    BY <1>1, <1>7 DEF OpenInv
  <1> QED
    BY <1>1, <1>5, <1>8

LEMMA TimeReqKeeps ==
  ASSUME StreamInv, NEW k \in Node, NEW m, handleTimeSyncReq(k, m)
  PROVE  StreamInv'
  <1> USE DEF StreamInv
  <1> DEFINE a == [m EXCEPT !.code = "timeRsp"]
  <1>1. /\ Running(k, m, "timeReq") /\ Done(k, m) /\ Send(k, a)
        /\ UNCHANGED <<connected, msgQueue, broken, stopped, handling, ticks,
                       ts, open>>
    BY DEF handleTimeSyncReq, timeVars
  <1>2. /\ Handled(handlers') /\ m \in Message
        /\ \A n \in Node, c \in Code :
             InHandlers(handlers, n, c)
               = InHandlers(handlers', n, c)
                 + IF n = k THEN Counts("timeReq", c) ELSE 0
    BY <1>1, DoneFacts DEF Code
  <1>3. a \in Message /\ a.code = "timeRsp"
    BY <1>2, MessageFacts DEF Code
  <1> HIDE DEF a
  <1>4. /\ sendQueue' \in [Node -> Seq(Message)]
        /\ \A n \in Node : Len(sendQueue'[n]) <= SendCap
        /\ \A n \in Node, c \in Code :
             InQueue(sendQueue', n, c)
               = InQueue(sendQueue, n, c) + IF n = k THEN Counts(a.code, c) ELSE 0
    BY <1>1, <1>3, SendFacts
  <1>5. StreamType'
    BY <1>1, <1>2, <1>4 DEF StreamType
  <1>6. \A n \in Node, c \in Code :
          /\ InQueue(sendQueue', n, c) \in Nat /\ InQueue(sendQueue, n, c) \in Nat
          /\ InHandlers(handlers', n, c) \in Nat /\ InHandlers(handlers, n, c) \in Nat
          /\ InQueue(msgQueue, n, c) \in Nat
    BY <1>2, <1>4, CountTypes DEF StreamType
  <1>7. \A n \in Node :
          /\ InHandlers(handlers', n, "timeReq") + InQueue(sendQueue', n, "timeRsp")
               = InHandlers(handlers, n, "timeReq") + InQueue(sendQueue, n, "timeRsp")
          /\ InHandlers(handlers', n, "timeRsp") = InHandlers(handlers, n, "timeRsp")
          /\ InQueue(sendQueue', n, "timeReq") = InQueue(sendQueue, n, "timeReq")
    <2>1. /\ "timeReq" \in Code /\ "timeRsp" \in Code
          /\ Counts("timeReq", "timeReq") = 1 /\ Counts("timeReq", "timeRsp") = 0
          /\ Counts(a.code, "timeReq") = 0 /\ Counts(a.code, "timeRsp") = 1
      BY <1>3 DEF Code, Counts
    <2> SUFFICES ASSUME NEW n \in Node
                 PROVE  /\ InHandlers(handlers', n, "timeReq")
                             + InQueue(sendQueue', n, "timeRsp")
                             = InHandlers(handlers, n, "timeReq")
                               + InQueue(sendQueue, n, "timeRsp")
                        /\ InHandlers(handlers', n, "timeRsp")
                             = InHandlers(handlers, n, "timeRsp")
                        /\ InQueue(sendQueue', n, "timeReq")
                             = InQueue(sendQueue, n, "timeReq")
      OBVIOUS
    <2> DEFINE d == IF n = k THEN 1 ELSE 0
    <2>2. d \in Nat
      OBVIOUS
    <2>3. /\ InHandlers(handlers, n, "timeReq") = InHandlers(handlers', n, "timeReq") + d
          /\ InHandlers(handlers, n, "timeRsp") = InHandlers(handlers', n, "timeRsp") + 0
      BY <1>2, <2>1
    <2>4. /\ InQueue(sendQueue', n, "timeRsp") = InQueue(sendQueue, n, "timeRsp") + d
          /\ InQueue(sendQueue', n, "timeReq") = InQueue(sendQueue, n, "timeReq") + 0
      BY <1>4, <2>1
    <2> HIDE DEF d
    <2> QED
      BY <1>6, <2>1, <2>2, <2>3, <2>4
  <1>8. \A n \in Node : UnderWay(sendQueue', msgQueue', handlers', n)
                          = UnderWay(sendQueue, msgQueue, handlers, n)
    <2> TAKE n \in Node
    <2>1. Other(n) \in Node /\ "timeReq" \in Code /\ "timeRsp" \in Code
      BY Ends DEF Code
    <2>2. \A p \in {n, Other(n)}, c \in {"timeReq", "timeRsp"} :
            /\ InQueue(sendQueue', p, c) \in Nat /\ InQueue(sendQueue, p, c) \in Nat
            /\ InHandlers(handlers', p, c) \in Nat
            /\ InHandlers(handlers, p, c) \in Nat /\ InQueue(msgQueue, p, c) \in Nat
      BY <1>6, <2>1
    <2>3. /\ InHandlers(handlers', Other(n), "timeReq")
               + InQueue(sendQueue', Other(n), "timeRsp")
               = InHandlers(handlers, Other(n), "timeReq")
                 + InQueue(sendQueue, Other(n), "timeRsp")
          /\ InHandlers(handlers', n, "timeRsp") = InHandlers(handlers, n, "timeRsp")
          /\ InQueue(sendQueue', n, "timeReq") = InQueue(sendQueue, n, "timeReq")
      BY <1>7, <2>1
    <2> QED
      BY <1>1, <2>2, <2>3 DEF UnderWay
  <1>9. OpenInv'
    BY <1>1, <1>8 DEF OpenInv
  <1> QED
    BY <1>1, <1>5, <1>9

(* An answer that is handled was asked for.                                *)
LEMMA AnswerOpen ==
  ASSUME StreamInv, NEW k \in Node, NEW m, Running(k, m, "timeRsp")
  PROVE  UnderWay(sendQueue, msgQueue, handlers, k) > 0
  <1>1. /\ Handled(handlers) /\ IsABag(handlers[k])
        /\ IsFiniteSet(Copies(handlers[k], "timeRsp"))
    BY DEF StreamInv, StreamType, Handled, Code
  <1>2. <<m, 1>> \in Copies(handlers[k], "timeRsp")
    <2>1. m \in DOMAIN handlers[k] /\ m.code = "timeRsp"
      BY DEF Running, BagToSet
    <2>2. handlers[k][m] \in Nat \ {0}
      BY <1>1, <2>1 DEF IsABag
    <2> QED
      BY <2>1, <2>2, CopiesAre
  <1>3. InHandlers(handlers, k, "timeRsp") \in Nat \ {0}
    BY <1>1, <1>2, FS_CardinalityType, FS_EmptySet DEF InHandlers
  <1>4. /\ InQueue(sendQueue, k, "timeReq") \in Nat
        /\ InQueue(msgQueue, Other(k), "timeReq") \in Nat
        /\ InHandlers(handlers, Other(k), "timeReq") \in Nat
        /\ InQueue(sendQueue, Other(k), "timeRsp") \in Nat
        /\ InQueue(msgQueue, k, "timeRsp") \in Nat
    <2>1. Other(k) \in Node /\ "timeReq" \in Code /\ "timeRsp" \in Code
      BY Ends DEF Code
    <2> QED
      BY <2>1, CountTypes DEF StreamInv, StreamType
  <1> QED
    BY <1>3, <1>4 DEF UnderWay

LEMMA TimeRspKeeps ==
  ASSUME StreamInv, NEW k \in Node, NEW m, handleTimeSyncRsp(k, m)
  PROVE  StreamInv'
  <1> USE DEF StreamInv
  <1>1. /\ Running(k, m, "timeRsp") /\ Done(k, m)
        /\ ts' = [ts EXCEPT ![k] = ProcessSyncRespond(@, m)]
        /\ open' = [open EXCEPT ![k] = @ - 1]
        /\ UNCHANGED <<connected, sendQueue, msgQueue, broken, stopped, handling,
                       ticks>>
    BY DEF handleTimeSyncRsp, queues
  <1>2. /\ Handled(handlers') /\ m \in Message
        /\ \A n \in Node, c \in Code :
             InHandlers(handlers, n, c)
               = InHandlers(handlers', n, c)
                 + IF n = k THEN Counts("timeRsp", c) ELSE 0
    BY <1>1, DoneFacts DEF Code
  <1>3. /\ UnderWay(sendQueue, msgQueue, handlers, k) > 0
        /\ \A n \in Node : UnderWay(sendQueue, msgQueue, handlers, n) \in Nat
    BY <1>1, AnswerOpen, CountTypes DEF StreamType
  <1>4. open[k] \in Nat /\ open[k] > 0
    BY <1>3 DEF OpenInv, StreamType
  <1>5. open' \in [Node -> Nat]
    BY <1>1, <1>4 DEF StreamType
  <1>6. /\ ts' \in [Node -> Syncer]
        /\ \A n \in Node : SyncerOK(ts'[n])
    <2> DEFINE u == ProcessSyncRespond(ts[k], m)
    <2>1. ts \in [Node -> Syncer] /\ SyncerOK(ts[k])
      BY DEF StreamType
    <2>2. u \in Syncer /\ SyncerOK(u)
      BY <1>2, <2>1, AnswerKeeps
    <2>3. ts' = [ts EXCEPT ![k] = u]
      BY <1>1
    <2> HIDE DEF u
    <2> QED
      BY <2>1, <2>2, <2>3
  <1>7. StreamType'
    BY <1>1, <1>2, <1>5, <1>6 DEF StreamType
  <1>8. \A n \in Node : UnderWay(sendQueue', msgQueue', handlers', n)
                          = UnderWay(sendQueue, msgQueue, handlers, n)
                            - IF n = k THEN 1 ELSE 0
    <2> SUFFICES ASSUME NEW n \in Node
                 PROVE  UnderWay(sendQueue', msgQueue', handlers', n)
                          = UnderWay(sendQueue, msgQueue, handlers, n)
                            - IF n = k THEN 1 ELSE 0
      OBVIOUS
    <2>1. /\ Other(n) \in Node /\ "timeReq" \in Code /\ "timeRsp" \in Code
          /\ Counts("timeRsp", "timeReq") = 0 /\ Counts("timeRsp", "timeRsp") = 1
      BY Ends DEF Code, Counts
    <2>2. \A p \in Node, c \in Code :
            /\ InQueue(sendQueue, p, c) \in Nat /\ InQueue(msgQueue, p, c) \in Nat
            /\ InHandlers(handlers', p, c) \in Nat /\ InHandlers(handlers, p, c) \in Nat
      BY <1>2, CountTypes DEF StreamType
    <2>3. \A p \in {n, Other(n)}, c \in {"timeReq", "timeRsp"} :
            /\ InQueue(sendQueue, p, c) \in Nat /\ InQueue(msgQueue, p, c) \in Nat
            /\ InHandlers(handlers', p, c) \in Nat /\ InHandlers(handlers, p, c) \in Nat
      BY <2>1, <2>2
    <2>4. /\ InHandlers(handlers, Other(n), "timeReq")
               = InHandlers(handlers', Other(n), "timeReq") + 0
          /\ InHandlers(handlers, n, "timeRsp")
               = InHandlers(handlers', n, "timeRsp") + IF n = k THEN 1 ELSE 0
      BY <1>2, <2>1
    <2> QED
      BY <1>1, <2>3, <2>4 DEF UnderWay
  <1>9. OpenInv'
    <2> SUFFICES ASSUME NEW n \in Node
                 PROVE  /\ UnderWay(sendQueue', msgQueue', handlers', n) <= open'[n]
                        /\ open'[n] <= MaxOpen
                        /\ n \in GenesisNode => open'[n] = 0
      BY DEF OpenInv
    <2>1. /\ UnderWay(sendQueue, msgQueue, handlers, n) <= open[n]
          /\ open[n] <= MaxOpen /\ open[n] \in Nat
          /\ n \in GenesisNode => open[n] = 0
      BY DEF OpenInv, StreamType
    <2>2. open'[n] = open[n] - IF n = k THEN 1 ELSE 0
      BY <1>1, <2>1 DEF StreamType
    <2> QED
      BY <1>3, <1>4, <1>8, <2>1, <2>2, PeerAssumption
  <1> QED
    BY <1>1, <1>6, <1>7, <1>9

LEMMA StepStream ==
  ASSUME StreamInv, [Next]_vars
  PROVE  StreamInv'
  <1>1. ASSUME NEW k \in Node, sendStatus(k)
        PROVE  StreamInv'
    BY <1>1, StatusKeeps
  <1>2. ASSUME NEW k \in Node, requestTimeSync(k)
        PROVE  StreamInv'
    BY <1>2, RequestKeeps
  <1>3. ASSUME NEW k \in Node, writeLoop(k)
        PROVE  StreamInv'
    BY <1>3, WriteKeeps, LoseKeeps DEF writeLoop
  <1>4. ASSUME NEW k \in Node, Handle(k)
        PROVE  StreamInv'
    BY <1>4, HandleKeeps
  <1>5. ASSUME NEW k \in Node, NEW m \in BagToSet(handlers[k]), Handler(k, m)
        PROVE  StreamInv'
    BY <1>5, StatusReqKeeps, TimeReqKeeps, TimeRspKeeps DEF Handler
  <1>6. ASSUME Disconnect
        PROVE  StreamInv'
    BY <1>6, DisconnectKeeps
  <1>7. ASSUME UNCHANGED vars
        PROVE  StreamInv'
    BY <1>7 DEF vars, queues, timeVars, StreamInv, StreamType, OpenInv
  <1> QED
    BY <1>1, <1>2, <1>3, <1>4, <1>5, <1>6, <1>7 DEF Next

LEMMA StreamInvariance == Spec => []StreamInv
  BY InitStream, StepStream, PTL DEF Spec

(***************************************************************************)
(* The types: the requests under way are never fewer than none, however    *)
(* the stream loses them, and a syncer that confirms leaves that state     *)
(* with the last near answer.                                              *)
(***************************************************************************)
THEOREM StreamTypeCorrect == Spec => []TypeOK
  <1>1. StreamInv => TypeOK
    <2> SUFFICES ASSUME StreamInv
                 PROVE  TypeOK
      OBVIOUS
    <2>1. ASSUME NEW n \in Node
          PROVE  /\ AllMsgs(sendQueue[n], SendCap) /\ AllMsgs(msgQueue[n], RecvCap)
                 /\ IsABag(handlers[n]) /\ \A m \in BagToSet(handlers[n]) : IsMsg(m)
                 /\ ticks[n] \in 0..StatusTicks[n]
                 /\ ts[n].status \in {"INITIAL", "CONFIRMING", "SYNCED"}
                 /\ ts[n].confirmTimes \in 0..confirmThreshold
                 /\ open[n] \in 0..MaxOpen
      <3>1. \A m \in Message : IsMsg(m)
        BY DEF Message, IsMsg
      <3>2. AllMsgs(sendQueue[n], SendCap) /\ AllMsgs(msgQueue[n], RecvCap)
        BY <3>1 DEF StreamInv, StreamType, AllMsgs
      <3>3. IsABag(handlers[n]) /\ \A m \in BagToSet(handlers[n]) : IsMsg(m)
        BY <3>1 DEF StreamInv, StreamType, Handled
      <3>4. ticks[n] \in 0..StatusTicks[n] /\ open[n] \in 0..MaxOpen
        BY PeerAssumption DEF StreamInv, StreamType, OpenInv
      <3>5. /\ ts[n].status \in {"INITIAL", "CONFIRMING", "SYNCED"}
            /\ ts[n].confirmTimes \in 0..confirmThreshold
        BY DEF StreamInv, StreamType, Syncer
      <3> QED
        BY <3>2, <3>3, <3>4, <3>5
    <2> QED
      BY <2>1 DEF TypeOK, StreamInv, StreamType
  <1> QED
    BY <1>1, StreamInvariance, PTL

-----------------------------------------------------------------------------
(* The clocks.                                                             *)
LEMMA HalfFacts ==
  ASSUME NEW x \in Int
  PROVE  /\ Half(x) \in Int
         /\ x - 2 * Half(x) \in {-1, 0, 1}
  <1>1. CASE x < 0
    <2>1. -x \in Nat
      BY <1>1
    <2>2. (-x) \div 2 \in Int /\ (-x) - 2 * ((-x) \div 2) \in {0, 1}
      BY <2>1
    <2> QED
      BY <1>1, <2>2 DEF Half
  <1>2. CASE x >= 0
    <2>1. x \div 2 \in Int /\ x - 2 * (x \div 2) \in {0, 1}
      BY <1>2
    <2> QED
      BY <1>2, <2>1 DEF Half
  <1> QED
    BY <1>1, <1>2

LEMMA HalfSmall == Half(-1) = 0 /\ Half(0) = 0 /\ Half(1) = 0
  BY DEF Half

LEMMA OffsetType ==
  ASSUME NEW n \in Node
  PROVE  /\ Skew[n] \in Int /\ Skew[Other(n)] \in Int /\ Offset(n) \in Int
         /\ Half(Offset(n)) \in Int /\ Adjusted(n) \in Int
         /\ Offset(n) - Adjusted(n) \in {-1, 0, 1}
         /\ Half(Offset(n) - Adjusted(n)) = 0
  <1>1. Skew[n] \in Int /\ Skew[Other(n)] \in Int /\ Offset(n) \in Int
    BY Ends, PeerAssumption DEF Offset
  <1> QED
    BY <1>1, HalfFacts, HalfSmall DEF Adjusted

(* The first answer adjusts the clock by twice the half offset; a later    *)
(* one says that, or half of it, or nothing, and adjusts nothing.          *)
LEMMA AnswerClock ==
  ASSUME OffsetClear, NEW n \in Node, Client(n), NEW t \in Syncer, SyncerOK(t),
         t.status # "INITIAL" => t.delta = Adjusted(n),
         NEW m \in Answering(n, t), m.code = "timeRsp"
  PROVE  ProcessSyncRespond(t, m).delta = Adjusted(n)
  <1> DEFINE half == Half(Offset(n))
  <1>1. /\ Offset(n) \in Int /\ half \in Int /\ Adjusted(n) = 2 * half
        /\ Half(Offset(n) - Adjusted(n)) = 0 /\ Offset(n) - 0 = Offset(n)
    BY OffsetType DEF Adjusted
  <1>2. /\ m \in Message
        /\ \E d \in Deltas(n, t) : m.out = Offset(n) - d
        /\ \E d \in Deltas(n, t) : m.back = Offset(n) - d
    BY DEF Answering
  <1>3. half = 0 \/ ~Near(half)
    <2>1. n \in Node \ GenesisNode /\ Other(n) \in GenesisNode
      BY DEF Client
    <2>2. half = 0 \/ abs(half) >= availableThreshold
      BY <2>1 DEF OffsetClear, Offset
    <2>3. abs(half) \in Int
      BY <1>1 DEF abs
    <2> QED
      BY <2>2, <2>3, TimeAssumption DEF Near
  <1>4. t.delta \in Int
    BY DEF Syncer
  <1> HIDE DEF half
  <1>5. CASE t.status = "INITIAL"
    <2>1. m.out = Offset(n) /\ m.back = Offset(n)
      BY <1>1, <1>2, <1>5 DEF Deltas
    <2>2. Delta(m) = half + half
      BY <2>1 DEF Delta, half
    <2>3. Delta(m) = Adjusted(n) /\ t.delta = 0
      BY <1>1, <1>5, <2>2 DEF SyncerOK
    <2>4. ProcessSyncRespond(t, m)
            = [t EXCEPT !.status = "CONFIRMING", !.delta = @ + Delta(m)]
      BY <1>5 DEF ProcessSyncRespond, FirstAnswer
    <2>5. ProcessSyncRespond(t, m).delta = t.delta + Delta(m)
      BY <2>4 DEF Syncer
    <2> QED
      BY <1>1, <2>3, <2>5
  <1>6. CASE t.status # "INITIAL"
    <2>1. Half(m.out) \in {half, 0} /\ Half(m.back) \in {half, 0}
      BY <1>1, <1>2, <1>6 DEF Deltas, half
    <2>2. Delta(m) \in {0, half, half + half}
      BY <1>1, <2>1 DEF Delta
    <2>3. Delta(m) = 0 \/ ~Near(Delta(m))
      <3>1. ~Near(half) => ~Near(half + half)
        BY <1>1, TimeAssumption DEF Near, abs
      <3> QED
        BY <1>1, <1>3, <2>2, <3>1
    <2>4. ProcessSyncRespond(t, m).delta
            = t.delta + (IF Near(Delta(m)) THEN Delta(m) ELSE 0)
      BY <1>6 DEF ProcessSyncRespond, Confirm
    <2> QED
      BY <1>4, <1>6, <2>3, <2>4
  <1> QED
    BY <1>5, <1>6

(* The adjustments a client may have had only grow.                        *)
LEMMA SaidWiden ==
  ASSUME NEW n, NEW t, NEW u, t.status = "INITIAL" \/ u.status # "INITIAL"
  PROVE  /\ Asking(n, t) \subseteq Asking(n, u)
         /\ \A c : Stamping(n, t, c) \subseteq Stamping(n, u, c)
         /\ Answering(n, t) \subseteq Answering(n, u)
  <1>1. Deltas(n, t) \subseteq Deltas(n, u)
    BY DEF Deltas
  <1> QED
    BY <1>1 DEF Asking, Stamping, Answering

LEMMA InitClock ==
  ASSUME Init
  PROVE  ClockInv
  <1> USE DEF Init
  <1>1. /\ EmptyBag = SetToBag({}) /\ BagToSet(EmptyBag) = {}
    BY DEF EmptyBag, SetToBag, BagToSet
  <1>2. \A S : <<>> \in Seq(S)
    OBVIOUS
  <1>3. \A n \in Node : ts[n].delta = 0
    BY DEF NewTimeSyncer
  <1>4. \A n \in Node : n \notin GenesisNode => ts[n].status = "INITIAL"
    BY DEF NewTimeSyncer
  <1> QED
    BY <1>1, <1>2, <1>3, <1>4, Ends DEF ClockInv, ClientInv, Client

LEMMA SeqParts ==
  ASSUME NEW S, NEW q \in Seq(S)
  PROVE  /\ \A m \in S : Append(q, m) \in Seq(S)
         /\ q # <<>> => Head(q) \in S /\ Tail(q) \in Seq(S)
  OBVIOUS

(* A client meets one genesis node, which holds no answers.                *)
LEMMA ClientEnds ==
  ASSUME NEW n \in Node, Client(n), NEW k \in Node
  PROVE  /\ Other(n) \in Node /\ Other(n) # n
         /\ k = n \/ k = Other(n)
         /\ Other(n) \in GenesisNode /\ n \notin GenesisNode
         /\ Other(Other(n)) = n
  BY Ends DEF Client

LEMMA GenesisUnasked ==
  ASSUME StreamInv, NEW k \in Node, NEW m, Running(k, m, "timeRsp")
  PROVE  k \notin GenesisNode
  <1>1. /\ UnderWay(sendQueue, msgQueue, handlers, k) > 0
        /\ UnderWay(sendQueue, msgQueue, handlers, k) <= open[k]
        /\ k \in GenesisNode => open[k] = 0
    BY AnswerOpen DEF StreamInv, OpenInv
  <1>2. UnderWay(sendQueue, msgQueue, handlers, k) \in Nat
    BY CountTypes DEF StreamInv, StreamType
  <1> QED
    BY <1>1, <1>2

(* A message is sent, by the client or to it.                              *)
LEMMA SendClock ==
  ASSUME StreamInv, NEW n \in Node, Client(n), ClientInv(n, Other(n)),
         NEW k \in Node, NEW m, Send(k, m), ts' = ts, msgQueue' = msgQueue,
         \A p \in Node : BagToSet(handlers'[p]) \subseteq BagToSet(handlers[p]),
         k = n => m \in Asking(n, ts[n]),
         k = Other(n) => m \in Stamping(n, ts[n], "timeRsp")
  PROVE  ClientInv(n, Other(n))'
  <1> DEFINE o == Other(n)
  <1>1. o \in Node /\ o # n /\ (k = n \/ k = o)
    BY ClientEnds
  <1>2. sendQueue \in [Node -> Seq(Message)]
    BY DEF StreamInv, StreamType
  <1>3. /\ sendQueue'[k] = Append(sendQueue[k], m)
        /\ \A p \in Node : p # k => sendQueue'[p] = sendQueue[p]
    BY <1>2 DEF Send
  <1>4. /\ sendQueue[n] \in Seq(Asking(n, ts[n]))
        /\ sendQueue[o] \in Seq(Stamping(n, ts[n], "timeRsp"))
    BY DEF ClientInv
  <1> HIDE DEF o
  <1>5. /\ sendQueue'[n] \in Seq(Asking(n, ts[n]))
        /\ sendQueue'[o] \in Seq(Stamping(n, ts[n], "timeRsp"))
    <2>1. CASE k = n
      BY <1>1, <1>3, <1>4, <2>1, SeqParts
    <2>2. CASE k = o
      BY <1>1, <1>3, <1>4, <2>2, SeqParts DEF o
    <2> QED
      BY <1>1, <2>1, <2>2
  <1>6. /\ BagToSet(handlers'[n]) \subseteq Answering(n, ts[n])
        /\ BagToSet(handlers'[o]) \subseteq Stamping(n, ts[n], "timeReq")
    BY <1>1 DEF ClientInv, o
  <1> QED
    BY <1>5, <1>6 DEF ClientInv, o

LEMMA SendersClock ==
  ASSUME StreamInv, NEW n \in Node, Client(n), ClientInv(n, Other(n)),
         NEW k \in Node,
         \/ sendStatus(k) \/ requestTimeSync(k)
         \/ \E m : handleSyncStatusReq(k, m) \/ handleTimeSyncReq(k, m)
  PROVE  ClientInv(n, Other(n))'
  <1>1. /\ k = n \/ k = Other(n)
        /\ Other(n) \in Node /\ Other(n) # n
        /\ Other(n) \in GenesisNode /\ n \notin GenesisNode
    BY ClientEnds
  <1>2. \A x \in Message :
          /\ x.code # "timeReq" => x \in Asking(n, ts[n])
          /\ x.code # "timeRsp" => x \in Stamping(n, ts[n], "timeRsp")
    BY DEF Asking, Stamping
  <1>3. ASSUME sendStatus(k)
        PROVE  ClientInv(n, Other(n))'
    <2>1. /\ Send(k, Msg("statusReq"))
          /\ UNCHANGED <<msgQueue, handlers, ts>>
      BY <1>3 DEF sendStatus, timeVars
    <2>2. Msg("statusReq") \in Message /\ Msg("statusReq").code = "statusReq"
      BY MessageFacts DEF Code
    <2> QED
      BY <1>2, <2>1, <2>2, SendClock
  <1>4. ASSUME requestTimeSync(k)
        PROVE  ClientInv(n, Other(n))'
    <2> DEFINE m == [Msg("timeReq") EXCEPT !.out = -GetLogicClock(k)]
    <2>1. /\ Send(k, m) /\ k \notin GenesisNode
          /\ UNCHANGED <<msgQueue, handlers, ts>>
      BY <1>4 DEF requestTimeSync
    <2>2. k = n
      BY <1>1, <2>1
    <2>3. -GetLogicClock(k) \in Int /\ GetLogicClock(k) = Skew[k] + ts[k].delta
      BY ClockType DEF GetLogicClock, StreamInv
    <2>4. m \in Message /\ m.out = -(Skew[k] + ts[k].delta)
      BY <2>3, MessageFacts DEF Msg, Code, Message
    <2>5. ts[n].delta \in Deltas(n, ts[n])
      BY DEF Deltas, ClientInv, StreamInv, SyncerOK
    <2>6. m \in Asking(n, ts[n])
      BY <2>2, <2>4, <2>5 DEF Asking
    <2> HIDE DEF m
    <2> QED
      BY <1>1, <2>1, <2>2, <2>6, SendClock
  <1>5. ASSUME NEW m, handleSyncStatusReq(k, m)
        PROVE  ClientInv(n, Other(n))'
    <2>1. /\ Send(k, Msg("statusMsg"))
          /\ Running(k, m, "statusReq") /\ Done(k, m)
          /\ UNCHANGED <<msgQueue, ts>>
      BY <1>5 DEF handleSyncStatusReq, timeVars
    <2>2. Msg("statusMsg") \in Message /\ Msg("statusMsg").code = "statusMsg"
      BY MessageFacts DEF Code
    <2>3. \A p \in Node : BagToSet(handlers'[p]) \subseteq BagToSet(handlers[p])
      BY <2>1, DoneFacts DEF StreamInv, Code
    <2> QED
      BY <1>2, <2>1, <2>2, <2>3, SendClock
  <1>6. ASSUME NEW m, handleTimeSyncReq(k, m)
        PROVE  ClientInv(n, Other(n))'
    <2> DEFINE a == [m EXCEPT !.code = "timeRsp"]
    <2>1. /\ Send(k, a) /\ Running(k, m, "timeReq") /\ Done(k, m)
          /\ UNCHANGED <<msgQueue, ts>>
      BY <1>6 DEF handleTimeSyncReq, timeVars
    <2>2. /\ \A p \in Node : BagToSet(handlers'[p]) \subseteq BagToSet(handlers[p])
          /\ m \in Message /\ m.code = "timeReq"
      BY <2>1, DoneFacts DEF StreamInv, Code
    <2>3. /\ a \in Message /\ a.code = "timeRsp"
          /\ a.out = m.out /\ a.back = m.back
      BY <2>2 DEF Message, Code
    <2>4. k = n => a \in Asking(n, ts[n])
      BY <1>2, <2>3
    <2>5. k = Other(n) => a \in Stamping(n, ts[n], "timeRsp")
      <3> SUFFICES ASSUME k = Other(n)
                   PROVE  a \in Stamping(n, ts[n], "timeRsp")
        OBVIOUS
      <3>1. m \in Stamping(n, ts[n], "timeReq")
        BY <2>1 DEF ClientInv, Running
      <3> QED
        BY <2>2, <2>3, <3>1 DEF Stamping
    <2> HIDE DEF a
    <2> QED
      BY <2>1, <2>2, <2>4, <2>5, SendClock
  <1> QED
    BY <1>3, <1>4, <1>5, <1>6

(* What the writer takes the other end receives, or nobody.                *)
LEMMA WriterClock ==
  ASSUME StreamInv, NEW n \in Node, Client(n), ClientInv(n, Other(n)),
         NEW k \in Node, writeLoop(k)
  PROVE  ClientInv(n, Other(n))'
  <1> DEFINE o == Other(n)
             A == Asking(n, ts[n])
             B == Stamping(n, ts[n], "timeRsp")
  <1>1. o \in Node /\ o # n /\ (k = n \/ k = o) /\ Other(n) = o /\ Other(o) = n
    BY ClientEnds
  <1>2. /\ sendQueue \in [Node -> Seq(Message)] /\ msgQueue \in [Node -> Seq(Message)]
        /\ sendQueue[n] \in Seq(A) /\ msgQueue[o] \in Seq(A)
        /\ sendQueue[o] \in Seq(B) /\ msgQueue[n] \in Seq(B)
    BY DEF ClientInv, StreamInv, StreamType
  <1>3. /\ sendQueue[k] # <<>>
        /\ sendQueue'[k] = Tail(sendQueue[k])
        /\ \A p \in Node : p # k => sendQueue'[p] = sendQueue[p]
        /\ UNCHANGED <<handlers, ts>>
    BY <1>2 DEF writeLoop, Write, WriteLost, WriteFails, Take, timeVars
  <1>4. \/ msgQueue' = msgQueue
        \/ msgQueue' = [msgQueue EXCEPT ![Other(k)] = Append(@, Head(sendQueue[k]))]
    BY DEF writeLoop, Write, WriteLost, WriteFails
  <1> HIDE DEF A, B, o
  <1>5. sendQueue'[n] \in Seq(A) /\ sendQueue'[o] \in Seq(B)
    <2>1. CASE k = n
      BY <1>1, <1>2, <1>3, <2>1, SeqParts
    <2>2. CASE k = o
      BY <1>1, <1>2, <1>3, <2>2, SeqParts
    <2> QED
      BY <1>1, <2>1, <2>2
  <1>6. msgQueue'[o] \in Seq(A) /\ msgQueue'[n] \in Seq(B)
    <2>1. CASE msgQueue' = msgQueue
      BY <1>2, <2>1
    <2>2. CASE msgQueue' = [msgQueue EXCEPT ![Other(k)]
                              = Append(@, Head(sendQueue[k]))]
      <3>1. CASE k = n
        <4>1. /\ msgQueue'[o] = Append(msgQueue[o], Head(sendQueue[n]))
              /\ msgQueue'[n] = msgQueue[n]
          BY <1>1, <1>2, <2>2, <3>1
        <4>2. Head(sendQueue[n]) \in A
          BY <1>2, <1>3, <3>1, SeqParts
        <4> QED
          BY <1>2, <4>1, <4>2, SeqParts
      <3>2. CASE k = o
        <4>1. /\ msgQueue'[n] = Append(msgQueue[n], Head(sendQueue[o]))
              /\ msgQueue'[o] = msgQueue[o]
          BY <1>1, <1>2, <2>2, <3>2
        <4>2. Head(sendQueue[o]) \in B
          BY <1>2, <1>3, <3>2, SeqParts
        <4> QED
          BY <1>2, <4>1, <4>2, SeqParts
      <3> QED
        BY <1>1, <3>1, <3>2
    <2> QED
      BY <1>4, <2>1, <2>2
  <1> QED
    BY <1>3, <1>5, <1>6 DEF ClientInv, A, B, o

(* A handler stamps a message with the clock of its node.                  *)
LEMMA StampClock ==
  ASSUME StreamInv, NEW n \in Node, Client(n), ClientInv(n, Other(n))
  PROVE  /\ \A m \in Asking(n, ts[n]) :
              Stamped(Other(n), m) \in Stamping(n, ts[n], "timeReq")
         /\ \A m \in Stamping(n, ts[n], "timeRsp") :
              Stamped(n, m) \in Answering(n, ts[n])
  <1> DEFINE o == Other(n)
  <1>1. o \in Node /\ Skew[n] \in Int /\ Skew[o] \in Int /\ Adjusted(n) \in Int
    BY Ends, OffsetType
  <1>2. Deltas(n, ts[n]) \subseteq Int
    BY <1>1 DEF Deltas
  <1>3. GetLogicClock(o) = Skew[o] /\ GetLogicClock(n) = Skew[n] + ts[n].delta
    BY <1>1 DEF GetLogicClock, ClientInv
  <1>4. ts[n].delta \in Deltas(n, ts[n])
    BY DEF Deltas, ClientInv, StreamInv, SyncerOK
  <1>5. ASSUME NEW m \in Asking(n, ts[n])
        PROVE  Stamped(o, m) \in Stamping(n, ts[n], "timeReq")
    <2>1. m \in Message
      BY DEF Asking
    <2>2. Stamped(o, m) \in Message /\ Stamped(o, m).code = m.code
      BY <1>1, <2>1, StampedFacts DEF StreamInv
    <2>3. CASE m.code = "timeReq"
      <3>1. PICK d \in Deltas(n, ts[n]) : m.out = -(Skew[n] + d)
        BY <2>3 DEF Asking
      <3>2. /\ Stamped(o, m).out = m.out + Skew[o]
            /\ Stamped(o, m).back = Skew[o]
        BY <1>3, <2>1, <2>3 DEF Stamped, Message
      <3>3. d \in Int /\ Offset(n) = Skew[o] - Skew[n]
        BY <1>2 DEF Offset
      <3> HIDE DEF o
      <3>4. Stamped(o, m).out = Offset(n) - d
        BY <1>1, <3>1, <3>2, <3>3
      <3> QED
        BY <2>2, <3>2, <3>4 DEF Stamping, o
    <2>4. CASE m.code # "timeReq"
      BY <2>2, <2>4 DEF Stamping
    <2> QED
      BY <2>3, <2>4
  <1>6. ASSUME NEW m \in Stamping(n, ts[n], "timeRsp")
        PROVE  Stamped(n, m) \in Answering(n, ts[n])
    <2>1. m \in Message
      BY DEF Stamping
    <2>2. Stamped(n, m) \in Message /\ Stamped(n, m).code = m.code
      BY <2>1, StampedFacts DEF StreamInv
    <2>3. CASE m.code = "timeRsp"
      <3>1. /\ \E d \in Deltas(n, ts[n]) : m.out = Offset(n) - d
            /\ m.back = Skew[o]
        BY <2>3 DEF Stamping
      <3>2. /\ Stamped(n, m).out = m.out
            /\ Stamped(n, m).back = Skew[o] - (Skew[n] + ts[n].delta)
        BY <1>3, <2>1, <2>3, <3>1 DEF Stamped, Message
      <3>3. Skew[o] - (Skew[n] + ts[n].delta) = Offset(n) - ts[n].delta
        BY <1>1, <1>2, <1>4 DEF Offset
      <3> QED
        BY <1>4, <2>2, <3>1, <3>2, <3>3 DEF Answering
    <2>4. CASE m.code # "timeRsp"
      BY <2>2, <2>4 DEF Answering
    <2> QED
      BY <2>3, <2>4
  <1> QED
    BY <1>5, <1>6

LEMMA HandleClock ==
  ASSUME StreamInv, NEW n \in Node, Client(n), ClientInv(n, Other(n)),
         NEW k \in Node, Handle(k)
  PROVE  ClientInv(n, Other(n))'
  <1> DEFINE o == Other(n)
             A == Asking(n, ts[n])
             B == Stamping(n, ts[n], "timeRsp")
             z == Head(msgQueue[k])
  <1>1. o \in Node /\ o # n /\ (k = n \/ k = o)
    BY ClientEnds
  <1>2. /\ msgQueue \in [Node -> Seq(Message)] /\ Handled(handlers)
        /\ msgQueue[o] \in Seq(A) /\ msgQueue[n] \in Seq(B)
        /\ BagToSet(handlers[o]) \subseteq Stamping(n, ts[n], "timeReq")
        /\ BagToSet(handlers[n]) \subseteq Answering(n, ts[n])
    BY DEF ClientInv, StreamInv, StreamType
  <1>3. /\ msgQueue[k] # <<>>
        /\ msgQueue'[k] = Tail(msgQueue[k])
        /\ \A p \in Node : p # k => msgQueue'[p] = msgQueue[p]
        /\ handlers' = [handlers EXCEPT ![k] = Start(k, z)]
        /\ UNCHANGED <<sendQueue, ts>>
    BY <1>2 DEF Handle, timeVars
  <1>4. /\ z \in Message
        /\ k = o => z \in A
        /\ k = n => z \in B
    BY <1>2, <1>3, SeqParts
  <1>5. /\ k = o => Stamped(k, z) \in Stamping(n, ts[n], "timeReq")
        /\ k = n => Stamped(k, z) \in Answering(n, ts[n])
    BY <1>4, StampClock
  <1> HIDE DEF A, B, o, z
  <1>6. msgQueue'[o] \in Seq(A) /\ msgQueue'[n] \in Seq(B)
    <2>1. CASE k = n
      BY <1>1, <1>2, <1>3, <2>1, SeqParts
    <2>2. CASE k = o
      BY <1>1, <1>2, <1>3, <2>2, SeqParts
    <2> QED
      BY <1>1, <2>1, <2>2
  <1>7. /\ \A p \in Node : p # k => handlers'[p] = handlers[p]
        /\ BagToSet(handlers'[k]) \subseteq BagToSet(handlers[k]) \cup {Stamped(k, z)}
    <2>1. /\ handlers'[k] = Start(k, z)
          /\ \A p \in Node : p # k => handlers'[p] = handlers[p]
      BY <1>2, <1>3 DEF Handled
    <2>2. IsABag(handlers[k])
      BY <1>2 DEF Handled
    <2>3. /\ BagToSet(BagAdd(handlers[k], Stamped(k, z)))
               = BagToSet(handlers[k]) \cup {Stamped(k, z)}
      BY <2>2, BagAddFacts
    <2> QED
      BY <2>1, <2>3 DEF Start, BagAdd
  <1>8. /\ BagToSet(handlers'[o]) \subseteq Stamping(n, ts[n], "timeReq")
        /\ BagToSet(handlers'[n]) \subseteq Answering(n, ts[n])
    BY <1>1, <1>2, <1>5, <1>7
  <1> QED
    BY <1>3, <1>6, <1>8 DEF ClientInv, A, B, o

LEMMA AnswersClock ==
  ASSUME OffsetClear, StreamInv, NEW n \in Node, Client(n),
         ClientInv(n, Other(n)), NEW k \in Node, NEW m, handleTimeSyncRsp(k, m)
  PROVE  ClientInv(n, Other(n))'
  <1> DEFINE o == Other(n)
             t == ts[n]
             u == ProcessSyncRespond(t, m)
  <1>1. /\ Running(k, m, "timeRsp") /\ Done(k, m)
        /\ ts' = [ts EXCEPT ![k] = ProcessSyncRespond(@, m)]
        /\ UNCHANGED <<sendQueue, msgQueue>>
    BY DEF handleTimeSyncRsp, queues
  <1>2. k = n /\ o \in Node /\ o # n
    BY <1>1, GenesisUnasked, ClientEnds
  <1>3. /\ t \in Syncer /\ SyncerOK(t)
        /\ t.status # "INITIAL" => t.delta = Adjusted(n)
    BY DEF StreamInv, StreamType, ClientInv
  <1>4. m \in Answering(n, t) /\ m.code = "timeRsp" /\ m \in Message
    BY <1>1, <1>2 DEF Running, ClientInv, Answering
  <1>5. /\ u \in Syncer /\ u.status # "INITIAL" /\ u.delta = Adjusted(n)
    BY <1>3, <1>4, AnswerKeeps, AnswerClock
  <1>6. ts'[n] = u /\ ts'[o] = ts[o]
    BY <1>1, <1>2 DEF StreamInv, StreamType
  <1> HIDE DEF t, u, o
  <1>7. /\ Asking(n, t) \subseteq Asking(n, u)
        /\ \A c : Stamping(n, t, c) \subseteq Stamping(n, u, c)
        /\ Answering(n, t) \subseteq Answering(n, u)
    BY <1>5, SaidWiden
  <1>8. \A p \in Node : BagToSet(handlers'[p]) \subseteq BagToSet(handlers[p])
    BY <1>1, DoneFacts DEF StreamInv, Code
  <1>9. /\ sendQueue[n] \in Seq(Asking(n, u)) /\ msgQueue[o] \in Seq(Asking(n, u))
        /\ sendQueue[o] \in Seq(Stamping(n, u, "timeRsp"))
        /\ msgQueue[n] \in Seq(Stamping(n, u, "timeRsp"))
    <2>1. /\ sendQueue[n] \in Seq(Asking(n, t)) /\ msgQueue[o] \in Seq(Asking(n, t))
          /\ sendQueue[o] \in Seq(Stamping(n, t, "timeRsp"))
          /\ msgQueue[n] \in Seq(Stamping(n, t, "timeRsp"))
      BY DEF ClientInv, t, o
    <2> QED
      BY <1>7, <2>1, SeqWiden
  <1>10. /\ BagToSet(handlers'[o]) \subseteq Stamping(n, u, "timeReq")
         /\ BagToSet(handlers'[n]) \subseteq Answering(n, u)
         /\ ts[o].delta = 0
    <2>1. /\ BagToSet(handlers[o]) \subseteq Stamping(n, t, "timeReq")
          /\ BagToSet(handlers[n]) \subseteq Answering(n, t)
          /\ ts[o].delta = 0
      BY DEF ClientInv, t, o
    <2> QED
      BY <1>2, <1>7, <1>8, <2>1
  <1> QED
    BY <1>1, <1>5, <1>6, <1>9, <1>10 DEF ClientInv, o

LEMMA StepClock ==
  ASSUME OffsetClear, StreamInv, ClockInv, [Next]_vars
  PROVE  ClockInv'
  <1> SUFFICES ASSUME NEW n \in Node, Client(n)
               PROVE  ClientInv(n, Other(n))'
    BY DEF ClockInv
  <1>1. ClientInv(n, Other(n)) /\ Other(n) \in Node
    BY Ends DEF ClockInv
  <1>2. ASSUME NEW k \in Node, sendStatus(k) \/ requestTimeSync(k)
        PROVE  ClientInv(n, Other(n))'
    BY <1>1, <1>2, SendersClock
  <1>3. ASSUME NEW k \in Node, writeLoop(k)
        PROVE  ClientInv(n, Other(n))'
    BY <1>1, <1>3, WriterClock
  <1>4. ASSUME NEW k \in Node, Handle(k)
        PROVE  ClientInv(n, Other(n))'
    BY <1>1, <1>4, HandleClock
  <1>5. ASSUME NEW k \in Node, NEW m \in BagToSet(handlers[k]), Handler(k, m)
        PROVE  ClientInv(n, Other(n))'
    <2>1. CASE handleSyncStatusReq(k, m) \/ handleTimeSyncReq(k, m)
      BY <1>1, <2>1, SendersClock
    <2>2. CASE handleTimeSyncRsp(k, m)
      BY <1>1, <2>2, AnswersClock
    <2> QED
      BY <1>5, <2>1, <2>2 DEF Handler
  <1>6. ASSUME Disconnect
        PROVE  ClientInv(n, Other(n))'
    <2>1. /\ msgQueue' = [p \in Node |-> <<>>]
          /\ UNCHANGED <<sendQueue, handlers, ts>>
      BY <1>6 DEF Disconnect, timeVars
    <2>2. \A S : <<>> \in Seq(S)
      OBVIOUS
    <2> QED
      BY <1>1, <2>1, <2>2 DEF ClientInv
  <1>7. ASSUME UNCHANGED vars
        PROVE  ClientInv(n, Other(n))'
    BY <1>1, <1>7 DEF vars, queues, timeVars, ClientInv
  <1> QED
    BY <1>2, <1>3, <1>4, <1>5, <1>6, <1>7 DEF Next

(***************************************************************************)
(* A node's clock is adjusted by the offset to the genesis node once, for  *)
(* every skew with OffsetClear, every number of requests under way and     *)
(* every loss of the stream.                                               *)
(***************************************************************************)
THEOREM ClocksAgree ==
  ASSUME OffsetClear
  PROVE  Spec => []ClockAgrees
  <1>1. Init => ClockInv
    BY InitClock
  <1>2. StreamInv /\ ClockInv /\ [Next]_vars => ClockInv'
    BY StepClock
  <1>3. ClockInv => ClockAgrees
    <2> SUFFICES ASSUME ClockInv, NEW n \in Node \ GenesisNode,
                        ts[n].status # "INITIAL", NEW g \in GenesisNode
                 PROVE  abs(GetLogicClock(n) - Skew[g]) <= 1
      BY DEF ClockAgrees
    <2>1. g \in Node /\ g # n /\ g = Other(n)
      BY Ends, PeerAssumption
    <2>2. GetLogicClock(n) = Skew[n] + Adjusted(n)
      BY <2>1 DEF ClockInv, ClientInv, Client, GetLogicClock
    <2>3. /\ Skew[n] \in Int /\ Skew[g] \in Int /\ Adjusted(n) \in Int
          /\ (Skew[g] - Skew[n]) - Adjusted(n) \in {-1, 0, 1}
      BY <2>1, OffsetType DEF Offset
    <2>4. GetLogicClock(n) - Skew[g] \in {-1, 0, 1}
      BY <2>2, <2>3
    <2> QED
      BY <2>4 DEF abs
  <1> QED
    BY <1>1, <1>2, <1>3, StreamInvariance, PTL DEF Spec
=============================================================================
