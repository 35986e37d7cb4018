---------------------------- MODULE StreamManager ----------------------------
(***************************************************************************)
(* The streams of a node's P2P manager (node/manager.go): a stream opened  *)
(* by a remote node (HandleStream), the search for nodes that dials those  *)
(* it finds (Discover, CheckAndCreateStream), and the three tables that    *)
(* name them: peerSet in order of arrival, peers with one entry for each   *)
(* remote node, and the block syncer's own list.                           *)
(*                                                                         *)
(* Both callers hold peerSetLock for their whole run, so each is a step.   *)
(* Nothing calls removePeerIfStopped: a stream that stopped stays in       *)
(* peerSet and in peers, and a stream is known by its place in peerSet.    *)
(***************************************************************************)
EXTENDS Integers, Sequences, FiniteSets, Functions

CONSTANTS
  Peer,            \* remote nodes
  streamLimit      \* 20

ASSUME StreamAssumption == IsFiniteSet(Peer) /\ streamLimit \in Nat \ {0}

VARIABLES
  peerSet,         \* sequence of [peer, stopped]
  peers,           \* remote node -> place in peerSet
  syncPeers,       \* places that the block syncer asks for blocks
  triedPeers,      \* NewStream failed less than retryInterval ago
  reachable,       \* remote nodes to which a stream can be opened
  bounds           \* bounds: streams opened by either side, and nodes that
                   \* leave and return

streamVars == <<peerSet, peers, syncPeers, triedPeers, reachable, bounds>>

StreamsOK ==
  /\ peerSet \in Seq([peer : Peer, stopped : BOOLEAN])
  /\ Len(peerSet) <= bounds.streams
  /\ DOMAIN peers \subseteq Peer /\ Range(peers) \subseteq DOMAIN peerSet
  /\ syncPeers \subseteq DOMAIN peerSet
  /\ triedPeers \subseteq Peer /\ reachable \subseteq Peer

StreamsInit ==
  /\ peerSet = <<>> /\ peers = <<>> /\ syncPeers = {}
  /\ triedPeers = {} /\ reachable = Peer

Connected(p) == p \in DOMAIN peers
Stopped(p) == Connected(p) /\ peerSet[peers[p]].stopped

-----------------------------------------------------------------------------
(* Mutant: the entry of a node that was connected before is kept.          *)
NewPeerFirst(p) ==
  LET i == Len(peerSet) + 1
  IN /\ peerSet' = Append(peerSet, [peer |-> p, stopped |-> FALSE])
     /\ peers' = [q \in DOMAIN peers \cup {p} |->
                   IF Connected(q) THEN peers[q] ELSE i]
     /\ syncPeers' = syncPeers \cup {i}

NewPeer(p) ==
  LET i == Len(peerSet) + 1
  IN /\ peerSet' = Append(peerSet, [peer |-> p, stopped |-> FALSE])
     /\ peers' = [q \in DOMAIN peers \cup {p} |->
                   IF q = p THEN i ELSE peers[q]]
     /\ syncPeers' = syncPeers \cup {i}

(* A stream from p; without room it is closed again.                       *)
HandleStream(p) ==
  /\ p \in reachable /\ Len(peerSet) < bounds.streams
  /\ Len(peerSet) <= streamLimit
  /\ NewPeer(p)
  /\ UNCHANGED <<triedPeers, reachable, bounds>>

OutboundRoom == Cardinality(DOMAIN peers) < streamLimit

(* Mutant: whoever was connected once counts as connected.                 *)
WantedNew(p) ==
  OutboundRoom /\ p \notin triedPeers /\ ~Connected(p)

(* CheckAndCreateStream goes on to dial p.                                 *)
Wanted(p) ==
  /\ OutboundRoom /\ p \notin triedPeers
  /\ Connected(p) => Stopped(p)

(* A dial that fails leaves no trace, so it is no step.                    *)
CheckAndCreateStream(p) ==
  /\ Wanted(p) /\ p \in reachable /\ Len(peerSet) < bounds.streams
  /\ NewPeer(p)
  /\ UNCHANGED <<triedPeers, reachable, bounds>>

(* The dial or an old connection succeeded and NewStream does not.         *)
NewStreamFails(p) ==
  /\ Wanted(p) /\ p \notin reachable
  /\ triedPeers' = triedPeers \cup {p}
  /\ UNCHANGED <<peerSet, peers, syncPeers, reachable, bounds>>

RetryIntervalPassed(p) ==
  /\ p \in triedPeers
  /\ triedPeers' = triedPeers \ {p}
  /\ UNCHANGED <<peerSet, peers, syncPeers, reachable, bounds>>

-----------------------------------------------------------------------------
(* writeLoop of a stream meets an error.                                   *)
StreamStops(i) ==
  /\ i \in DOMAIN peerSet /\ ~peerSet[i].stopped
  /\ peerSet' = [peerSet EXCEPT ![i].stopped = TRUE]
  /\ UNCHANGED <<peers, syncPeers, triedPeers, reachable, bounds>>

(* The block syncer's run drops the streams that stopped from its list.    *)
DropStopped ==
  /\ syncPeers' = {i \in syncPeers : ~peerSet[i].stopped}
  /\ syncPeers' # syncPeers
  /\ UNCHANGED <<peerSet, peers, triedPeers, reachable, bounds>>

(* A remote node goes away, and its streams stop with the next message, or *)
(* comes back.                                                             *)
Leave(p) == p \in reachable /\ reachable' = reachable \ {p}
Return(p) == p \notin reachable /\ reachable' = reachable \cup {p}
Reachability(p) ==
  /\ p \in bounds.leaving
  /\ Leave(p) \/ Return(p)
  /\ UNCHANGED <<peerSet, peers, syncPeers, triedPeers, bounds>>

StreamsNext ==
  \/ \E p \in Peer :
       \/ HandleStream(p) \/ CheckAndCreateStream(p) \/ NewStreamFails(p)
       \/ RetryIntervalPassed(p) \/ Reachability(p)
  \/ \E i \in DOMAIN peerSet : StreamStops(i)
  \/ DropStopped

(***************************************************************************)
(* Discover's ticker finds every node that is there again and again, and   *)
(* retryInterval ends.  A node that leaves and returns forever may miss    *)
(* every dial, so the dial is only weakly fair.                            *)
(***************************************************************************)
StreamsFairness ==
  \A p \in Peer : /\ WF_streamVars(CheckAndCreateStream(p))
                  /\ WF_streamVars(RetryIntervalPassed(p))

-----------------------------------------------------------------------------
(* peers names the newest stream of each node that ever had one, so that   *)
(* Stopped in CheckAndCreateStream is never asked of a stream that was     *)
(* replaced; and the syncer misses no stream that works.                   *)
TablesAgree ==
  /\ \A i \in DOMAIN peerSet :
       /\ Connected(peerSet[i].peer)
       /\ i <= peers[peerSet[i].peer]
       /\ ~peerSet[i].stopped => i \in syncPeers
  /\ \A p \in DOMAIN peers : peerSet[peers[p]].peer = p

(* A node whose stream stopped gets a new one if it stays reachable, but   *)
(* only while fewer than streamLimit nodes were ever connected, because    *)
(* those whose streams stopped are counted for good.                       *)
Redialled ==
  \A p \in Peer :
    (Stopped(p) /\ p \in reachable)
      ~> \/ ~Stopped(p) \/ p \notin reachable
         \/ ~OutboundRoom \/ Len(peerSet) = bounds.streams
=============================================================================
