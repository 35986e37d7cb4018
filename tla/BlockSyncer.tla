----------------------------- MODULE BlockSyncer -----------------------------
(***************************************************************************)
(* The block syncer of a joining node (node/block_syncer.go) with the      *)
(* handlers that feed it (node/handler_funcs.go) and the peers it asks.    *)
(* Three goroutines share the syncer: run asks idle peers for blocks,      *)
(* statusMsgRoutine follows the peers' heights, blockProcessRoutine hands  *)
(* received blocks to the chain in height order.  Each message handler     *)
(* runs in a goroutine of its own, so messages are unordered.              *)
(*                                                                         *)
(* Blocks are their heights: the peers agree on one chain.  A peer whose   *)
(* buffer ends at height e has stored the blocks up to e - Lag (module     *)
(* BlockBuffer), and so does this node.  Request times are abstracted to   *)
(* `recent': the heights asked for within the last requestBlockInterval.   *)
(***************************************************************************)
EXTENDS Integers, FiniteSets, FiniteSetsExt

CONSTANTS
  Peer,
  MaxHeight,     \* bound of the scenario: the network's last height
  Lag,           \* heights a buffer holds back (maxBufferSize)
  StatusCap,     \* maxSyncerStatusChannel
  InitEnd,       \* buffer ends of the peers when the node joins
  FinalEnd,      \* bound of the scenario: how far their buffers grow
  StartHeight,   \* the node's own stored chain; -1 for none
  MayStop,       \* peers that may disconnect
  MaySetSynced   \* the node was started to create a genesis block

ASSUME SyncerAssumption ==
  /\ MaxHeight \in Nat /\ Lag \in Nat /\ StatusCap \in Nat \ {0}
  /\ InitEnd \in [Peer -> -1..MaxHeight]
  /\ FinalEnd \in [Peer -> -1..MaxHeight]
  /\ StartHeight \in -1..MaxHeight
  /\ MayStop \subseteq Peer /\ MaySetSynced \in BOOLEAN

Heights == 0..MaxHeight
NoHeight == -1

VARIABLES
  status, remoteHeight, targetHeight, knownHeight,
  recent,          \* heights requested a short time ago
  blockMap,        \* heights received and not handed over
  marked,          \* peers with markSynced set
  alive,           \* peers that are not stopped
  running,         \* routines that have not returned: the three of the
                   \* syncer and sendStatus of each peer
  procNext, procEnd,  \* blockProcessRoutine's loop, NoHeight outside it
  statusMsg,       \* the status channel
  requests, replies,  \* messages in flight, <<peer, height>>
  peerEnd,         \* each peer's buffer end; -1: it has no chain or is not
                   \* synced itself
  have, dbHeight   \* the node's own buffer and chain

syncVars == <<status, remoteHeight, targetHeight, knownHeight>>
procVars == <<procNext, procEnd>>
netVars == <<requests, replies>>
chainVars == <<have, dbHeight>>
vars == <<syncVars, recent, blockMap, marked, alive, running, procVars,
          statusMsg, netVars, peerEnd, chainVars>>

Routine == {"run", "status", "process"}
Status == {"blockSyncing", "bufferSyncing", "synced"}
StatusMsg == [latest : -1..MaxHeight, end : -1..MaxHeight]

TypeOK ==
  /\ status \in Status
  /\ remoteHeight \in -3..MaxHeight
  /\ targetHeight \in -2..MaxHeight
  /\ knownHeight \in -1..MaxHeight
  /\ recent \subseteq Heights /\ blockMap \subseteq Heights
  /\ marked \subseteq Peer /\ alive \subseteq Peer
  /\ running \subseteq Routine \cup Peer
  /\ procNext \in -1..(MaxHeight + 1) /\ procEnd \in -3..MaxHeight
  /\ statusMsg \subseteq StatusMsg
  /\ requests \subseteq Peer \X Heights /\ replies \subseteq Peer \X Heights
  /\ peerEnd \in [Peer -> -1..MaxHeight]
  /\ have \subseteq Heights /\ dbHeight \in -1..MaxHeight

-----------------------------------------------------------------------------
(* Mutant: a young chain is not told apart, and a height too few.          *)
StoredUnclamped(e) == e - Lag - 1

(* The stored height of a chain whose buffer reaches height e.             *)
Stored(e) == IF e = -1 THEN -1 ELSE IF e < Lag THEN 0 ELSE e - Lag

(* The last height the node has together with all heights below it.        *)
Top == Max({h \in -1..MaxHeight : \A k \in 0..h : k \in have})

(* NewBlockSyncer and Start *)
Init ==
  /\ status = "blockSyncing"
  /\ remoteHeight = -3 /\ targetHeight = -2 /\ knownHeight = -1
  /\ recent = {} /\ blockMap = {}
  /\ marked = {} /\ alive = Peer /\ running = Routine \cup Peer
  /\ procNext = NoHeight /\ procEnd = NoHeight
  /\ statusMsg = {} /\ requests = {} /\ replies = {}
  /\ peerEnd = InitEnd
  /\ have = 0..StartHeight /\ dbHeight = StartHeight

-----------------------------------------------------------------------------
(* run *)
(* selectBlockHeight takes the lowest of these.                            *)
Wanted ==
  {h \in (knownHeight + 1)..remoteHeight : h \notin blockMap \cup recent}

Ask(p) ==
  /\ "run" \in running
  /\ p \in alive \ marked
  /\ Wanted # {}
  /\ recent' = recent \cup {Min(Wanted)}
  /\ requests' = requests \cup {<<p, Min(Wanted)>>}
  /\ marked' = marked \cup {p}
  /\ UNCHANGED <<syncVars, blockMap, alive, running, procVars, statusMsg,
                 replies, peerEnd, chainVars>>

(* requestBlockInterval has passed.                                        *)
IntervalPassed(h) ==
  /\ h \in recent
  /\ recent' = recent \ {h}
  /\ UNCHANGED <<syncVars, blockMap, marked, alive, running, procVars,
                 statusMsg, netVars, peerEnd, chainVars>>

(* A routine sees the node synced at the end of a round.                   *)
Exit(r) ==
  /\ r \in running \ {"status"} /\ status = "synced"
  /\ r = "process" => procNext = NoHeight
  /\ running' = running \ {r}
  /\ UNCHANGED <<syncVars, recent, blockMap, marked, alive, procVars, statusMsg,
                 netVars, peerEnd, chainVars>>

-----------------------------------------------------------------------------
(* A peer answers sendStatus: StatusMessage, handleSyncStatusMsg.          *)
PeerStatus(p) ==
  /\ p \in alive \cap running
  /\ Cardinality(statusMsg) < StatusCap
  /\ statusMsg' = statusMsg \cup {[latest |-> Stored(peerEnd[p]),
                                   end |-> peerEnd[p]]}
  /\ UNCHANGED <<syncVars, recent, blockMap, marked, alive, running, procVars,
                 netVars, peerEnd, chainVars>>

maxHeight(h, old) == IF h > old THEN h ELSE old

StatusUpdate(m) ==
  /\ "status" \in running
  /\ statusMsg' = statusMsg \ {m}
  /\ IF m.latest = -1 THEN UNCHANGED syncVars
     ELSE /\ remoteHeight' = maxHeight(m.latest, remoteHeight)
          /\ targetHeight' = IF m.end # -1 /\ status = "blockSyncing"
                             THEN maxHeight(m.end, targetHeight)
                             ELSE targetHeight
          /\ status' = IF dbHeight = targetHeight' THEN "synced"
                       ELSE IF remoteHeight' = knownHeight THEN "bufferSyncing"
                       ELSE status
          /\ UNCHANGED knownHeight
  /\ UNCHANGED <<recent, blockMap, marked, alive, procVars, netVars, peerEnd,
                 chainVars>>

(* statusMsgRoutine, which looks at the status after a message only, and   *)
(* not after one of height -1, from which it goes on to the next.          *)
statusMsgRoutine(m) ==
  /\ StatusUpdate(m)
  /\ running' = IF m.latest # -1 /\ status' = "synced"
                THEN running \ {"status"} ELSE running

(* SetSynced after a NewGenesisBlock that found a genesis                  *)
(* (cmd/norn/main.go).                                                     *)
setSynced ==
  /\ MaySetSynced /\ status # "synced" /\ have # {}
  /\ status' = "synced"
  /\ UNCHANGED <<remoteHeight, targetHeight, knownHeight, recent, blockMap,
                 marked, alive, running, procVars, statusMsg, netVars, peerEnd,
                 chainVars>>

-----------------------------------------------------------------------------
(* The peer's handleSyncGetBlocksMsg: a block it has stored, or silence.   *)
PeerRespond(p, h) ==
  /\ <<p, h>> \in requests
  /\ requests' = requests \ {<<p, h>>}
  /\ replies' = IF p \in alive /\ h <= Stored(peerEnd[p])
                THEN replies \cup {<<p, h>>} ELSE replies
  /\ UNCHANGED <<syncVars, recent, blockMap, marked, alive, running, procVars,
                 statusMsg, peerEnd, chainVars>>

(* Mutant: the peer stays marked.                                          *)
HandleMarked(p, h) ==
  /\ <<p, h>> \in replies
  /\ replies' = replies \ {<<p, h>>}
  /\ blockMap' = blockMap \cup {h}
  /\ UNCHANGED <<syncVars, recent, marked, alive, running, procVars, statusMsg,
                 requests, peerEnd, chainVars>>

handleSyncBlockMsg(p, h) ==
  /\ <<p, h>> \in replies
  /\ replies' = replies \ {<<p, h>>}
  /\ blockMap' = blockMap \cup {h}
  /\ marked' = marked \ {p}
  /\ UNCHANGED <<syncVars, recent, alive, running, procVars, statusMsg, requests,
                 peerEnd, chainVars>>

(* gossipBlockSubscribe: a recent block of a peer, while the node listens. *)
Gossip(p, h) ==
  /\ p \in alive /\ status \in {"bufferSyncing", "synced"}
  /\ Stored(peerEnd[p]) < h /\ h <= peerEnd[p]
  /\ have # {} /\ h \notin have
  /\ have' = have \cup {h}
  /\ UNCHANGED <<syncVars, recent, blockMap, marked, alive, running, procVars,
                 statusMsg, netVars, peerEnd, dbHeight>>

-----------------------------------------------------------------------------
(* blockProcessRoutine                                                     *)
ProcessTick ==
  /\ "process" \in running /\ procNext = NoHeight
  /\ procNext' = knownHeight + 1 /\ procEnd' = remoteHeight
  /\ UNCHANGED <<syncVars, recent, blockMap, marked, alive, running, statusMsg,
                 netVars, peerEnd, chainVars>>

(* Mutant: a missing height is passed over.                                *)
InsertSkipping ==
  /\ procNext # NoHeight /\ procNext <= procEnd
  /\ IF procNext \in blockMap
     THEN /\ have' = have \cup {procNext}
          /\ dbHeight' = IF procNext = 0 THEN maxHeight(0, dbHeight)
                         ELSE dbHeight
          /\ knownHeight' = procNext
     ELSE UNCHANGED <<chainVars, knownHeight>>
  /\ blockMap' = blockMap \ {procNext} /\ recent' = recent \ {procNext}
  /\ procNext' = procNext + 1
  /\ UNCHANGED <<status, remoteHeight, targetHeight, marked, alive, running,
                 procEnd, statusMsg, netVars, peerEnd>>

(* insertBlock: AppendBlockTask stores a genesis itself, the buffer takes  *)
(* any other block.                                                        *)
insertBlock ==
  /\ procNext # NoHeight /\ procNext <= procEnd /\ procNext \in blockMap
  /\ have' = have \cup {procNext}
  /\ dbHeight' = IF procNext = 0 THEN maxHeight(0, dbHeight) ELSE dbHeight
  /\ knownHeight' = procNext
  /\ blockMap' = blockMap \ {procNext} /\ recent' = recent \ {procNext}
  /\ procNext' = procNext + 1
  /\ UNCHANGED <<status, remoteHeight, targetHeight, marked, alive, running,
                 procEnd, statusMsg, netVars, peerEnd>>

ProcessEnd ==
  /\ procNext # NoHeight
  /\ procNext > procEnd \/ procNext \notin blockMap
  /\ procNext' = NoHeight /\ procEnd' = NoHeight
  /\ UNCHANGED <<syncVars, recent, blockMap, marked, alive, running, statusMsg,
                 netVars, peerEnd, chainVars>>

(* The buffer pops a block into the chain.                                 *)
PopBlock ==
  /\ dbHeight < Stored(Top)
  /\ dbHeight' = dbHeight + 1
  /\ UNCHANGED <<syncVars, recent, blockMap, marked, alive, running, procVars,
                 statusMsg, netVars, peerEnd, have>>

-----------------------------------------------------------------------------
(* The network's chain grows, and a peer disconnects.                      *)
PeerGrow(p) ==
  /\ peerEnd[p] < FinalEnd[p]
  /\ peerEnd' = [peerEnd EXCEPT ![p] = @ + 1]
  /\ UNCHANGED <<syncVars, recent, blockMap, marked, alive, running, procVars,
                 statusMsg, netVars, chainVars>>

PeerStop(p) ==
  /\ p \in alive \cap MayStop
  /\ alive' = alive \ {p}
  /\ UNCHANGED <<syncVars, recent, blockMap, marked, running, procVars,
                 statusMsg, netVars, peerEnd, chainVars>>

Process == ProcessTick \/ insertBlock \/ ProcessEnd

Next ==
  \/ \E p \in Peer : \/ Ask(p) \/ PeerStatus(p)
                     \/ PeerGrow(p) \/ PeerStop(p)
                     \/ \E h \in Heights :
                          \/ PeerRespond(p, h) \/ handleSyncBlockMsg(p, h)
                          \/ Gossip(p, h)
  \/ \E h \in Heights : IntervalPassed(h)
  \/ \E r \in Routine \cup Peer : Exit(r)
  \/ \E m \in statusMsg : statusMsgRoutine(m)
  \/ setSynced
  \/ Process
  \/ PopBlock

(***************************************************************************)
(* The tickers of run, blockProcessRoutine and sendStatus keep firing      *)
(* until the node is synced, a live peer answers, the network delivers on  *)
(* its streams, and the buffer pops what it must.  Peers need not grow,    *)
(* and gossip may be lost.                                                 *)
(***************************************************************************)
Fairness ==
  /\ \A p \in Peer : WF_vars(Ask(p)) /\ SF_vars(PeerStatus(p))
  /\ \A p \in Peer, h \in Heights :
       WF_vars(PeerRespond(p, h)) /\ WF_vars(handleSyncBlockMsg(p, h))
  /\ \A h \in Heights : WF_vars(IntervalPassed(h))
  /\ \A m \in StatusMsg : WF_vars(m \in statusMsg /\ statusMsgRoutine(m))
  /\ WF_vars(Process) /\ WF_vars(PopBlock)

Spec == Init /\ [][Next]_vars
FairSpec == Spec /\ Fairness

-----------------------------------------------------------------------------
(* Blocks are handed over one height after the other, never past what a    *)
(* peer has announced, and none that was handed over is missing, however   *)
(* replies are reordered or repeated.                                      *)
HandedOver ==
  /\ 0..knownHeight \subseteq have
  /\ knownHeight >= 0 => knownHeight <= remoteHeight
  /\ procNext # NoHeight => procNext = knownHeight + 1

(* node/block_syncer.go:96: idle peers are used to fetch blocks, so every  *)
(* height announced that a live peer has is fetched, or the node is synced *)
(* and the routines have returned.                                         *)
HeightsFetched ==
  \A h \in Heights :
    (/\ {"run", "process"} \subseteq running
     /\ remoteHeight >= h
     /\ \E p \in alive \ MayStop : Stored(peerEnd[p]) >= h)
      ~> (knownHeight >= h \/ status = "synced")

(* node/block_syncer.go:20: synced means done; the node has joined the     *)
(* consensus and does not fall back.                                       *)
SyncedStays == [][status = "synced" => status' = "synced"]_vars

(* node/block_syncer.go:20: a node that reaches the target height becomes  *)
(* synced.                                                                 *)
TargetReached ==
  (status = "bufferSyncing" /\ dbHeight >= targetHeight) ~> status = "synced"
=============================================================================
