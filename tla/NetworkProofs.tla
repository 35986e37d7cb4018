---------------------------- MODULE NetworkProofs ----------------------------
(***************************************************************************)
(* What goes from peer to peer.  The block syncer, for every set of peers  *)
(* and every chain: blocks are handed over one height after the other,     *)
(* never past what was announced.  The bytes, for every curve, key and     *)
(* value of a struct: the VRF elects the same nodes everywhere and only    *)
(* with one output, a reader finds what the writer was given, and along    *)
(* every run of Wire what the nodes exchange has its types and the blocks  *)
(* that were packed are accepted by all.                                   *)
(*                                                                         *)
(* In this order: the syncer; the VRF; bytes and the writer; the fields of *)
(* one struct, written and read; the tables of the structs; blocks; the    *)
(* types of what Wire computes; the invariant of Wire; what the database   *)
(* keeps; the Merkle roots of the packaged blocks; what Verify accepts and *)
(* what a datagram leaves of a transaction.                                *)
(***************************************************************************)
EXTENDS BlockSyncer, Wire, FiniteSetTheorems, SequenceTheorems, WellFoundedInduction, TLAPS

-----------------------------------------------------------------------------
(* The block syncer.                                                       *)

SyncerType ==
  /\ knownHeight \in Int /\ knownHeight >= -1 /\ remoteHeight \in Int
  /\ procNext \in Int /\ procEnd \in Int
  /\ peerEnd \in [Peer -> -1..MaxHeight]
  /\ statusMsg \subseteq [latest : Int, end : Int]

(***************************************************************************)
(* The loop of blockProcessRoutine works on a copy of remoteHeight.  That  *)
(* height only grows, so the copy is never ahead of it, and this routine   *)
(* alone moves knownHeight.                                                *)
(***************************************************************************)
CopyBehind == procNext # NoHeight => procEnd <= remoteHeight

SyncInv == SyncerType /\ CopyBehind /\ HandedOver

LEMMA StoredType ==
  ASSUME NEW e \in -1..MaxHeight
  PROVE  Stored(e) \in Int
  BY SyncerAssumption DEF Stored

LEMMA InitSyncInv ==
  ASSUME Init
  PROVE  SyncInv
  <1>1. SyncerType
    BY SyncerAssumption DEF Init, SyncerType, NoHeight
  <1>2. CopyBehind /\ HandedOver
    BY SyncerAssumption DEF Init, CopyBehind, HandedOver, NoHeight
  <1> QED
    BY <1>1, <1>2 DEF SyncInv

progress == <<knownHeight, procNext, procEnd>>

(* run, the handlers, the buffer and gossip leave the hand-over alone and  *)
(* only add to what the node has.                                          *)
LEMMA OthersKeep ==
  ASSUME SyncInv, SyncerType', UNCHANGED progress, have \subseteq have',
         remoteHeight <= remoteHeight'
  PROVE  SyncInv'
  <1> USE DEF SyncInv, SyncerType
  <1>1. CopyBehind'
    BY DEF CopyBehind, progress
  <1>2. HandedOver'
    BY DEF HandedOver, progress
  <1> QED
    BY <1>1, <1>2

LEMMA StatusKeeps ==
  ASSUME SyncInv, NEW m \in statusMsg, statusMsgRoutine(m)
  PROVE  SyncInv'
  <1>1. /\ statusMsg' = statusMsg \ {m}
        /\ remoteHeight' = remoteHeight
             \/ remoteHeight' = maxHeight(m.latest, remoteHeight)
        /\ UNCHANGED <<knownHeight, procNext, procEnd, peerEnd, have>>
    BY DEF statusMsgRoutine, StatusUpdate, syncVars, procVars, chainVars
  <1>2. m.latest \in Int /\ remoteHeight \in Int
    BY DEF SyncInv, SyncerType
  <1>3. remoteHeight' \in Int /\ remoteHeight <= remoteHeight'
    BY <1>1, <1>2 DEF maxHeight
  <1>4. SyncerType'
    BY <1>1, <1>3 DEF SyncInv, SyncerType
  <1> QED
    BY <1>1, <1>3, <1>4, OthersKeep DEF progress

LEMMA ProcessKeeps ==
  ASSUME SyncInv, Process
  PROVE  SyncInv'
  <1> USE DEF SyncInv, SyncerType
  <1>1. CASE ProcessTick
    BY <1>1 DEF ProcessTick, syncVars, chainVars, CopyBehind, HandedOver,
                NoHeight
  <1>2. CASE insertBlock
    <2>1. /\ procNext # NoHeight /\ procNext <= procEnd
          /\ have' = have \cup {procNext}
          /\ knownHeight' = procNext /\ procNext' = procNext + 1
          /\ UNCHANGED <<remoteHeight, procEnd, statusMsg, peerEnd>>
      BY <1>2 DEF insertBlock
    <2>2. /\ procNext = knownHeight + 1 /\ procEnd <= remoteHeight
          /\ 0..knownHeight \subseteq have
      BY <2>1 DEF CopyBehind, HandedOver
    <2>3. 0..procNext \subseteq have'
      <3>1. ASSUME NEW h \in 0..procNext
            PROVE  h \in 0..knownHeight \/ h = procNext
        BY <2>2
      <3> QED
        BY <2>1, <2>2, <3>1
    <2>4. SyncerType'
      BY <2>1, <2>2
    <2>5. CopyBehind'
      BY <2>1, <2>2 DEF CopyBehind
    <2>6. HandedOver'
      BY <2>1, <2>2, <2>3 DEF HandedOver
    <2> QED
      BY <2>4, <2>5, <2>6
  <1>3. CASE ProcessEnd
    BY <1>3 DEF ProcessEnd, syncVars, chainVars, CopyBehind, HandedOver,
                NoHeight
  <1> QED
    BY <1>1, <1>2, <1>3 DEF Process

LEMMA PeersKeep ==
  ASSUME SyncInv, NEW p \in Peer,
         PeerStatus(p) \/ PeerGrow(p)
  PROVE  SyncInv'
  <1> USE DEF SyncInv, SyncerType
  <1>1. peerEnd[p] \in -1..MaxHeight
    OBVIOUS
  <1>2. CASE PeerStatus(p)
    <2>1. /\ statusMsg' = statusMsg \cup {[latest |-> Stored(peerEnd[p]),
                                           end |-> peerEnd[p]]}
          /\ UNCHANGED <<progress, remoteHeight, have, peerEnd>>
      BY <1>2 DEF PeerStatus, syncVars, procVars, chainVars, progress
    <2>2. [latest |-> Stored(peerEnd[p]), end |-> peerEnd[p]]
            \in [latest : Int, end : Int]
      BY <1>1, StoredType
    <2>3. SyncerType'
      BY <2>1, <2>2 DEF progress
    <2> QED
      BY <2>1, <2>3, OthersKeep
  <1>3. CASE PeerGrow(p)
    <2>1. /\ peerEnd' = [peerEnd EXCEPT ![p] = @ + 1]
          /\ peerEnd[p] < FinalEnd[p] /\ FinalEnd[p] \in -1..MaxHeight
          /\ UNCHANGED <<progress, remoteHeight, have, statusMsg>>
      BY <1>3, SyncerAssumption
         DEF PeerGrow, syncVars, procVars, chainVars, progress
    <2>2. peerEnd[p] + 1 \in -1..MaxHeight
      BY <1>1, <2>1, SyncerAssumption
    <2>3. SyncerType'
      BY <2>1, <2>2 DEF progress
    <2> QED
      BY <2>1, <2>3, OthersKeep
  <1> QED
    BY <1>2, <1>3

(***************************************************************************)
(* Requests, answers and status messages may be lost, repeated, reordered  *)
(* and late, and gossip brings heights of its own: the node holds all      *)
(* heights up to the last one handed over.                                 *)
(***************************************************************************)
THEOREM InHeightOrder == Spec => []HandedOver
  <1>1. Init => SyncInv
    BY InitSyncInv
  <1>2. SyncInv /\ [Next]_vars => SyncInv'
    <2> SUFFICES ASSUME SyncInv, [Next]_vars
                 PROVE  SyncInv'
      OBVIOUS
    <2>1. ASSUME UNCHANGED <<progress, remoteHeight, statusMsg, peerEnd>>,
                 have \subseteq have'
          PROVE  SyncInv'
      <3>1. SyncerType'
        BY <2>1 DEF SyncInv, SyncerType, progress
      <3>2. remoteHeight <= remoteHeight'
        BY <2>1 DEF SyncInv, SyncerType
      <3> QED
        BY <2>1, <3>1, <3>2, OthersKeep
    <2>2. ASSUME NEW p \in Peer, NEW h \in Heights,
                 PeerRespond(p, h) \/ handleSyncBlockMsg(p, h) \/ Gossip(p, h)
          PROVE  SyncInv'
      BY <2>1, <2>2 DEF PeerRespond, handleSyncBlockMsg, Gossip, syncVars,
           procVars, chainVars, progress
    <2>3. ASSUME NEW h \in Heights, IntervalPassed(h)
          PROVE  SyncInv'
      BY <2>1, <2>3 DEF IntervalPassed, syncVars, procVars, chainVars, progress
    <2>4. ASSUME NEW r \in Routine \cup Peer, Exit(r)
          PROVE  SyncInv'
      BY <2>1, <2>4 DEF Exit, syncVars, procVars, chainVars, progress
    <2>5. CASE setSynced \/ PopBlock
      BY <2>1, <2>5 DEF setSynced, PopBlock, syncVars, procVars, chainVars,
           progress
    <2>6. CASE UNCHANGED vars
      BY <2>1, <2>6 DEF vars, syncVars, procVars, chainVars, progress
    <2>7. ASSUME NEW p \in Peer, Ask(p) \/ PeerStop(p)
          PROVE  SyncInv'
      BY <2>1, <2>7 DEF Ask, PeerStop, syncVars, procVars, chainVars, progress
    <2> QED
      BY <2>2, <2>3, <2>4, <2>5, <2>6, <2>7, PeersKeep, StatusKeeps,
         ProcessKeeps DEF Next
  <1>3. SyncInv => HandedOver
    BY DEF SyncInv
  <1> QED
    BY <1>1, <1>2, <1>3, PTL DEF Spec

-----------------------------------------------------------------------------
LEMMA LeastFacts ==
  ASSUME NEW S \in SUBSET Nat, S # {}
  PROVE  \E x \in S : \A y \in S : x <= y
  <1>1. PICK x \in S : \A y \in S : <<y, x>> \notin OpToRel(<, Nat)
    BY NatLessThanWellFounded, WFMin
  <1>2. ASSUME NEW y \in S, y < x
        PROVE  FALSE
    <2>1. <<y, x>> \in Nat \X Nat /\ <<y, x>>[1] < <<y, x>>[2]
      BY <1>2
    <2>2. <<y, x>> \in OpToRel(<, Nat)
      BY <2>1, Zenon DEF OpToRel
    <2> QED
      BY <1>1, <2>2, Zenon
  <1> QED
    BY <1>2

LEMMA MinMember ==
  ASSUME NEW S \in SUBSET Nat, S # {}
  PROVE  Min(S) \in S
  BY LeastFacts DEF Min

(* The greatest element is the one that is nearest to the bound.           *)
LEMMA MaxMember ==
  ASSUME NEW n \in Nat, NEW S \in SUBSET (-1..n), S # {}
  PROVE  Max(S) \in S
  <1> DEFINE D == {n - x : x \in S}
  <1>1. D \in SUBSET Nat /\ D # {}
    <2>1. \A x \in S : n - x \in Nat
      OBVIOUS
    <2>2. PICK x \in S : TRUE
      OBVIOUS
    <2>3. n - x \in D
      OBVIOUS
    <2> QED
      BY <2>1, <2>3
  <1>2. PICK d \in D : \A e \in D : d <= e
    <2> HIDE DEF D
    <2> QED
      BY <1>1, LeastFacts
  <1>3. PICK x \in S : d = n - x
    BY <1>2
  <1>4. \A y \in S : n - y \in D
    OBVIOUS
  <1>5. ASSUME NEW y \in S
        PROVE  x >= y
    <2>1. n - x <= n - y
      BY <1>2, <1>3, <1>4
    <2> QED
      BY <2>1
  <1> QED
    BY <1>5 DEF Max

LEMMA StoredRange ==
  ASSUME NEW e \in -1..MaxHeight
  PROVE  Stored(e) \in -1..MaxHeight
  BY SyncerAssumption DEF Stored

LEMMA TopRange == Top \in -1..MaxHeight
  <1> DEFINE S == {h \in -1..MaxHeight : \A k \in 0..h : k \in have}
  <1>1. S \in SUBSET (-1..MaxHeight) /\ -1 \in S /\ MaxHeight \in Nat
    BY SyncerAssumption
  <1>2. Max(S) \in S
    BY <1>1, MaxMember
  <1> QED
    BY <1>1, <1>2 DEF Top

LEMMA StatusType ==
  ASSUME TypeOK, NEW m \in statusMsg, statusMsgRoutine(m)
  PROVE  TypeOK'
  <1>1. /\ m \in StatusMsg
        /\ m.latest \in -1..MaxHeight /\ m.end \in -1..MaxHeight
    BY DEF TypeOK, StatusMsg
  <1>2. /\ statusMsg' = statusMsg \ {m} /\ running' \subseteq running
        /\ UNCHANGED <<knownHeight, recent, blockMap, marked, alive, procVars,
                       netVars, peerEnd, chainVars>>
    BY DEF statusMsgRoutine, StatusUpdate, syncVars
  <1>3. /\ remoteHeight' \in {remoteHeight, m.latest}
        /\ targetHeight' \in {targetHeight, m.end}
        /\ status' \in {status, "synced", "bufferSyncing"}
    BY DEF statusMsgRoutine, StatusUpdate, maxHeight, syncVars
  <1>4. /\ remoteHeight' \in -3..MaxHeight /\ targetHeight' \in -2..MaxHeight
        /\ status' \in Status
    BY <1>1, <1>3, SyncerAssumption DEF TypeOK, Status
  <1> QED
    BY <1>2, <1>4 DEF TypeOK, procVars, netVars, chainVars

LEMMA ProcessType ==
  ASSUME TypeOK, Process
  PROVE  TypeOK'
  <1> USE SyncerAssumption
  <1>1. CASE ProcessTick
    <2>1. knownHeight + 1 \in -1..(MaxHeight + 1)
      BY DEF TypeOK
    <2> QED
      BY <1>1, <2>1 DEF TypeOK, ProcessTick, syncVars, netVars, chainVars
  <1>2. CASE insertBlock
    <2>1. /\ procNext \in Heights
          /\ procNext \in -1..MaxHeight
          /\ procNext + 1 \in -1..(MaxHeight + 1)
      BY <1>2 DEF TypeOK, insertBlock, Heights
    <2>2. dbHeight' \in -1..MaxHeight
      BY <1>2 DEF TypeOK, insertBlock, maxHeight
    <2>3. /\ knownHeight' \in -1..MaxHeight
          /\ procNext' \in -1..(MaxHeight + 1)
          /\ have' \subseteq Heights
          /\ blockMap' \subseteq Heights /\ recent' \subseteq Heights
      BY <1>2, <2>1 DEF TypeOK, insertBlock
    <2>4. UNCHANGED <<status, remoteHeight, targetHeight, marked, alive, running,
                      procEnd, statusMsg, netVars, peerEnd>>
      BY <1>2 DEF insertBlock
    <2> HIDE SyncerAssumption
    <2> QED
      BY <2>2, <2>3, <2>4 DEF TypeOK, netVars
  <1>3. CASE ProcessEnd
    BY <1>3 DEF TypeOK, ProcessEnd, syncVars, netVars, chainVars, NoHeight
  <1> QED
    BY <1>1, <1>2, <1>3 DEF Process

LEMMA NodeType ==
  ASSUME TypeOK,
         \/ \E h \in Heights : IntervalPassed(h)
         \/ \E r \in Routine \cup Peer : Exit(r)
         \/ setSynced \/ PopBlock \/ UNCHANGED vars
  PROVE  TypeOK'
  <1>1. ASSUME NEW h \in Heights, IntervalPassed(h)
        PROVE  TypeOK'
    BY <1>1 DEF TypeOK, IntervalPassed, syncVars, procVars, netVars, chainVars
  <1>2. ASSUME NEW r \in Routine \cup Peer, Exit(r)
        PROVE  TypeOK'
    BY <1>2 DEF TypeOK, Exit, syncVars, procVars, netVars, chainVars
  <1>3. CASE setSynced
    BY <1>3 DEF TypeOK, setSynced, Status, procVars, netVars, chainVars
  <1>4. CASE PopBlock
    <2>1. Stored(Top) \in -1..MaxHeight
      BY TopRange, StoredRange
    <2>2. dbHeight + 1 \in -1..MaxHeight
      BY <1>4, <2>1, SyncerAssumption DEF TypeOK, PopBlock
    <2> QED
      BY <1>4, <2>2 DEF TypeOK, PopBlock, syncVars, procVars, netVars
  <1>5. CASE UNCHANGED vars
    BY <1>5 DEF TypeOK, vars, syncVars, procVars, netVars, chainVars
  <1> QED
    BY <1>1, <1>2, <1>3, <1>4, <1>5

LEMMA PeerType ==
  ASSUME TypeOK, NEW p \in Peer,
         Ask(p) \/ PeerStatus(p) \/ PeerGrow(p) \/ PeerStop(p)
  PROVE  TypeOK'
  <1> USE SyncerAssumption DEF syncVars, procVars, netVars, chainVars
  <1>1. CASE Ask(p)
    <2>1. Wanted \subseteq Heights /\ Wanted # {}
      BY <1>1 DEF TypeOK, Ask, Wanted, Heights
    <2>2. Min(Wanted) \in Heights
      <3>1. Wanted \in SUBSET Nat
        BY <2>1 DEF Heights
      <3>2. Min(Wanted) \in Wanted
        BY <2>1, <3>1, MinMember, Zenon
      <3> QED
        BY <2>1, <3>2
    <2>3. /\ recent' \subseteq Heights
          /\ requests' \subseteq Peer \X Heights /\ marked' \subseteq Peer
      BY <1>1, <2>2 DEF TypeOK, Ask
    <2> QED
      BY <1>1, <2>3 DEF TypeOK, Ask
  <1>2. CASE PeerStatus(p)
    <2>1. peerEnd[p] \in -1..MaxHeight /\ Stored(peerEnd[p]) \in -1..MaxHeight
      BY StoredRange DEF TypeOK
    <2>2. [latest |-> Stored(peerEnd[p]), end |-> peerEnd[p]] \in StatusMsg
      BY <2>1 DEF StatusMsg
    <2> QED
      BY <1>2, <2>2 DEF TypeOK, PeerStatus
  <1>3. CASE PeerGrow(p)
    <2>1. peerEnd[p] + 1 \in -1..MaxHeight
      BY <1>3 DEF TypeOK, PeerGrow
    <2> QED
      BY <1>3, <2>1 DEF TypeOK, PeerGrow
  <1>4. CASE PeerStop(p)
    BY <1>4 DEF TypeOK, PeerStop
  <1> QED
    BY <1>1, <1>2, <1>3, <1>4

LEMMA MessageType ==
  ASSUME TypeOK, NEW p \in Peer, NEW h \in Heights,
         PeerRespond(p, h) \/ handleSyncBlockMsg(p, h) \/ Gossip(p, h)
  PROVE  TypeOK'
  <1> USE DEF TypeOK, syncVars, procVars, netVars, chainVars
  <1>1. CASE PeerRespond(p, h)
    BY <1>1 DEF PeerRespond
  <1>2. CASE handleSyncBlockMsg(p, h)
    BY <1>2 DEF handleSyncBlockMsg
  <1>3. CASE Gossip(p, h)
    BY <1>3 DEF Gossip
  <1> QED
    BY <1>1, <1>2, <1>3

(* Whatever peers announce, answer or leave out: the variables of the      *)
(* syncer keep their types, and no height in them is above the network's.  *)
THEOREM SyncTypeCorrect == Spec => []TypeOK
  <1>1. Init => TypeOK
    BY SyncerAssumption DEF Init, TypeOK, Heights, Status, NoHeight, Routine
  <1>2. TypeOK /\ [Next]_vars => TypeOK'
    BY StatusType, ProcessType, NodeType, PeerType, MessageType DEF Next
  <1> QED
    BY <1>1, <1>2, PTL DEF Spec

-----------------------------------------------------------------------------
(* The VRF.                                                                *)


(* A recursion over 1..n, its step given as a function, has a solution,    *)
(* and every solution stays in the set the step maps to itself.            *)
Steps(V, n) == [1..n -> [V -> V]]
Solves(f, V, n, v, step) ==
  f \in [0..n -> V] /\ f[0] = v /\ \A i \in 1..n : f[i] = step[i][f[i - 1]]

LEMMA StepsExist ==
  ASSUME NEW V, NEW v \in V, NEW n \in Nat, NEW step \in Steps(V, n)
  PROVE  \E f : Solves(f, V, n, v, step)
  <1>1. step \in [1..n -> [V -> V]]
    BY DEF Steps
  <1> DEFINE Upto(k, f) ==
        f \in [0..k -> V] /\ f[0] = v /\ \A i \in 1..k : f[i] = step[i][f[i - 1]]
  <1> DEFINE Bad == {k \in 0..n : ~ \E f : Upto(k, f)}
  <1>2. Bad = {}
    <2> SUFFICES ASSUME Bad # {}
                 PROVE  FALSE
      OBVIOUS
    <2>1. PICK k \in Bad : \A j \in Bad : k <= j
      <3> Bad \in SUBSET Nat
        OBVIOUS
      <3> HIDE DEF Bad
      <3> QED
        BY LeastFacts
    <2>2. k # 0
      <3>1. Upto(0, [i \in 0..0 |-> v])
        OBVIOUS
      <3> QED
        BY <3>1
    <2>3. k \in 1..n /\ k - 1 \in 0..n /\ ~(k <= k - 1)
      BY <2>2
    <2>4. PICK f : Upto(k - 1, f)
      <3>1. k - 1 \notin Bad
        BY <2>1, <2>3
      <3> QED
        BY <2>3, <3>1
    <2> DEFINE g == [i \in 0..k |-> IF i = k THEN step[k][f[k - 1]] ELSE f[i]]
    <2>5. f[k - 1] \in V /\ step[k][f[k - 1]] \in V
      BY <1>1, <2>3, <2>4
    <2>6. Upto(k, g)
      <3>1. g \in [0..k -> V]
        <4>1. \A i \in 0..k : i # k => i \in 0..(k - 1)
          BY <2>3
        <4> QED
          BY <2>4, <2>5, <4>1
      <3>2. g[0] = v
        BY <2>3, <2>4
      <3>3. ASSUME NEW i \in 1..k
            PROVE  g[i] = step[i][g[i - 1]]
        <4>1. g[i - 1] = f[i - 1] /\ i \in 0..k
          BY <2>3
        <4>2. CASE i = k
          BY <4>1, <4>2
        <4>3. CASE i # k
          BY <2>3, <2>4, <4>1, <4>3
        <4> QED
          BY <4>2, <4>3
      <3> QED
        BY <3>1, <3>2, <3>3
    <2> QED
      BY <2>1, <2>6
  <1>3. PICK f : Upto(n, f)
    <2> n \in 0..n
      OBVIOUS
    <2> QED
      BY <1>2
  <1> QED
    BY <1>3 DEF Solves

Keeps(f, V, n) ==
  f[0] \in V /\ \A i \in 1..n : f[i - 1] \in V => f[i] \in V

LEMMA StepsStay ==
  ASSUME NEW V, NEW n \in Nat, NEW f, Keeps(f, V, n)
  PROVE  \A i \in 0..n : f[i] \in V
  <1> DEFINE Bad == {k \in 0..n : f[k] \notin V}
  <1> SUFFICES ASSUME Bad # {}
               PROVE  FALSE
    OBVIOUS
  <1>1. PICK k \in Bad : \A j \in Bad : k <= j
    <2> Bad \in SUBSET Nat
      OBVIOUS
    <2> HIDE DEF Bad
    <2> QED
      BY LeastFacts
  <1>2. k \in 1..n /\ k - 1 \in 0..n /\ ~(k <= k - 1)
    <2>1. k # 0
      BY DEF Keeps
    <2> QED
      BY <2>1
  <1>3. k - 1 \notin Bad
    BY <1>1, <1>2
  <1> QED
    BY <1>2, <1>3 DEF Keeps

(* What it takes to be the values of the digits of s, one after the other. *)
DigitSteps(value, s, b, m) ==
  /\ value[0] = 0
  /\ \A i \in 1..Len(s) : value[i] = (value[i - 1] * b + s[i]) % m
  /\ \A i \in 0..Len(s) : value[i] \in 0..(m - 1)

LEMMA DigitsSteps ==
  ASSUME NEW s \in Seq(Nat), NEW b \in Nat, NEW m \in Nat \ {0}
  PROVE  \E value : DigitSteps(value, s, b, m) /\ Digits(s, b, m) = value[Len(s)]
  <1> DEFINE E(i, x) == (x * b + s[i]) % m
  <1>1. PICK V : V = 0..(m - 1)
    OBVIOUS
  <1>2. PICK n \in Nat : n = Len(s)
    OBVIOUS
  <1>3. 0 \in V /\ n \in Nat
    BY <1>1, <1>2
  <1>4. \A i \in 1..n, x \in V : E(i, x) \in V
    <2> SUFFICES ASSUME NEW i \in 1..n, NEW x \in V
                 PROVE E(i, x) \in V
      OBVIOUS
    <2>1. s[i] \in Nat
      BY <1>2
    <2>2. x * b \in Nat
      BY <1>1
    <2> QED
      BY <1>1, <2>1, <2>2
  <1>5. PICK step \in Steps(V, n) : \A i \in 1..n, x \in V : step[i][x] = E(i, x)
    <2> DEFINE g == [i \in 1..n |-> [x \in V |-> E(i, x)]]
    <2> HIDE DEF E
    <2>1. g \in [1..n -> [V -> V]] /\ \A i \in 1..n, x \in V : g[i][x] = E(i, x)
      BY <1>4
    <2> HIDE DEF g
    <2> QED
      BY <2>1 DEF Steps
  <1>6. PICK f : Solves(f, V, n, 0, step)
    BY <1>3, StepsExist
  <1>7. /\ f \in [0..n -> V] /\ f[0] = 0
        /\ \A i \in 1..n : f[i] = step[i][f[i - 1]]
    BY <1>6 DEF Solves
  <1>8. f = [i \in 0..n |-> IF i = 0 THEN 0 ELSE (f[i - 1] * b + s[i]) % m]
    <2>1. ASSUME NEW i \in 1..n
          PROVE  f[i] = E(i, f[i - 1])
      <3>1. f[i - 1] \in V
        BY <1>3, <1>7
      <3> HIDE DEF E
      <3> QED
        BY <1>5, <1>7, <3>1
    <2>2. \A i \in 0..n : f[i] = IF i = 0 THEN 0 ELSE (f[i - 1] * b + s[i]) % m
      BY <1>3, <1>7, <2>1
    <2> QED
      BY <1>7, <2>2
  <1>9. PICK value :
          /\ value = [i \in 0..n |-> IF i = 0 THEN 0 ELSE (value[i - 1] * b + s[i]) % m]
          /\ Digits(s, b, m) = value[n]
    BY <1>2, <1>8 DEF Digits
  <1>10. value[0] = 0 /\ \A i \in 1..n : value[i] = E(i, value[i - 1])
    <2>1. \A i \in 0..n : value[i] = IF i = 0 THEN 0 ELSE (value[i - 1] * b + s[i]) % m
      BY <1>9
    <2> QED
      BY <1>3, <2>1
  <1>11. \A i \in 0..n : value[i] \in V
    <2>1. Keeps(value, V, n)
      <3> HIDE DEF E
      <3> QED
        BY <1>3, <1>4, <1>10 DEF Keeps
    <2> QED
      BY <2>1, StepsStay
  <1>12. DigitSteps(value, s, b, m)
    BY <1>1, <1>2, <1>10, <1>11 DEF DigitSteps
  <1> QED
    BY <1>2, <1>9, <1>12

LEMMA DigitsType ==
  ASSUME NEW s \in Seq(Nat), NEW b \in Nat, NEW m \in Nat \ {0}
  PROVE  Digits(s, b, m) \in 0..(m - 1)
  <1>1. PICK value : DigitSteps(value, s, b, m) /\ Digits(s, b, m) = value[Len(s)]
    BY DigitsSteps
  <1>2. Len(s) \in 0..Len(s)
    OBVIOUS
  <1> QED
    BY <1>1, <1>2 DEF DigitSteps

(* The last digit is added to the others' value times the base.            *)
LEMMA LastDigit ==
  ASSUME NEW s \in Seq(Nat), NEW d \in Nat, NEW b \in Nat, NEW m \in Nat \ {0}
  PROVE  Digits(s \o <<d>>, b, m) = (Digits(s, b, m) * b + d) % m
  <1>1. PICK n \in Nat : n = Len(s)
    OBVIOUS
  <1>2. PICK t \in Seq(Nat) : t = s \o <<d>>
    <2>1. <<d>> \in Seq(Nat)
      OBVIOUS
    <2>2. s \o <<d>> \in Seq(Nat)
      BY <2>1
    <2> QED
      BY <2>2
  <1>3. Len(t) = n + 1 /\ t[n + 1] = d /\ \A i \in 1..n : t[i] = s[i]
    BY <1>1, <1>2
  <1>4. PICK v : DigitSteps(v, s, b, m) /\ Digits(s, b, m) = v[Len(s)]
    BY DigitsSteps
  <1>5. PICK w : DigitSteps(w, t, b, m) /\ Digits(t, b, m) = w[Len(t)]
    BY DigitsSteps
  <1>6. \A i \in 0..n : w[i] = v[i]
    <2> DEFINE Bad == {i \in 0..n : w[i] # v[i]}
    <2> SUFFICES ASSUME Bad # {}
                 PROVE  FALSE
      OBVIOUS
    <2>1. PICK k \in Bad : \A j \in Bad : k <= j
      <3> Bad \in SUBSET Nat
        OBVIOUS
      <3> HIDE DEF Bad
      <3> QED
        BY LeastFacts
    <2>2. k # 0
      BY <1>4, <1>5 DEF DigitSteps
    <2>3. k \in 1..n /\ k - 1 \in 0..n /\ ~(k <= k - 1)
      BY <2>2
    <2>4. w[k - 1] = v[k - 1]
      BY <2>1, <2>3
    <2>5. v[k] = (v[k - 1] * b + s[k]) % m
      BY <1>1, <1>4, <2>3 DEF DigitSteps
    <2>6. w[k] = (w[k - 1] * b + t[k]) % m
      BY <1>3, <1>5, <2>3 DEF DigitSteps
    <2> QED
      BY <1>3, <2>3, <2>4, <2>5, <2>6
  <1>7. w[n + 1] = (w[n] * b + t[n + 1]) % m
    <2>1. PICK k \in 1..(n + 1) : k = n + 1 /\ k - 1 = n
      OBVIOUS
    <2>2. w[k] = (w[k - 1] * b + t[k]) % m
      BY <1>3, <1>5 DEF DigitSteps
    <2> QED
      BY <2>1, <2>2
  <1>8. w[n] = Digits(s, b, m)
    <2>1. n \in 0..n
      OBVIOUS
    <2> QED
      BY <1>1, <1>4, <1>6, <2>1
  <1>9. w[n + 1] = Digits(s \o <<d>>, b, m)
    BY <1>2, <1>3, <1>5
  <1> QED
    BY <1>3, <1>7, <1>8, <1>9

LEMMA MixType ==
  ASSUME NEW bs \in Seq(Nat), NEW b \in Nat, NEW m \in Nat \ {0}
  PROVE  Mix(bs, b, m) \in 0..(m - 1)
  <1> DEFINE k == (Len(bs) + 31) \div 32
             last(n) == IF 32 * n < Len(bs) THEN 32 * n ELSE Len(bs)
             part(n) == SubSeq(bs, 32 * n - 31, last(n))
             parts == [n \in 1..k |-> Digits(part(n), b, m)]
             whole == <<Len(bs)>> \o parts
  <1>1. Len(bs) \in Nat /\ k \in Nat
    OBVIOUS
  <1>2. \A n \in 1..k : Digits(part(n), b, m) \in Nat
    <2> TAKE n \in 1..k
    <2>1. part(n) \in Seq(Nat)
      <3>1. 32 * n - 31 >= 1 /\ last(n) \in Nat /\ last(n) <= Len(bs)
        BY <1>1
      <3> HIDE DEF last
      <3> QED
        BY <3>1
    <2>2. Digits(part(n), b, m) \in 0..(m - 1)
      <3> HIDE DEF part
      <3> QED
        BY <2>1, DigitsType
    <2> HIDE DEF part
    <2> QED
      BY <2>2
  <1>3. parts \in Seq(Nat)
    <2> HIDE DEF part, k
    <2> QED
      BY <1>1, <1>2
  <1>4. whole \in Seq(Nat)
    <2> HIDE DEF parts
    <2> QED
      BY <1>1, <1>3
  <1>5. Digits(whole, b + 22, m) \in 0..(m - 1)
    <2> HIDE DEF whole
    <2> QED
      BY <1>4, DigitsType
  <1>6. Mix(bs, b, m) = (Digits(whole, b + 22, m) * 30011) % m
    BY DEF Mix
  <1> HIDE DEF whole
  <1> QED
    BY <1>5, <1>6

(* A digest is a sequence of numbers, whatever is hashed.                  *)
LEMMA DigestType ==
  ASSUME NEW bs \in Seq(Nat)
  PROVE  \A i \in 1..32 : Sha256(bs)[i] \in Nat
  <1>a. \A b \in Nat, m \in Nat \ {0} : Mix(bs, b, m) \in Nat
    <2> TAKE b \in Nat, m \in Nat \ {0}
    <2>1. Mix(bs, b, m) \in 0..(m - 1)
      BY MixType
    <2> QED
      BY <2>1
  <1>1. Mix(bs, 251, 65521) \in Nat /\ Mix(bs, 509, 65519) \in Nat
    <2>1. PICK b \in Nat, c \in Nat, m \in Nat \ {0}, n \in Nat \ {0} :
            b = 251 /\ c = 509 /\ m = 65521 /\ n = 65519
      OBVIOUS
    <2>2. Mix(bs, b, m) \in Nat /\ Mix(bs, c, n) \in Nat
      BY <1>a
    <2> QED
      BY <2>1, <2>2
  <1> DEFINE mixed == <<Mix(bs, 251, 65521), Mix(bs, 509, 65519)>>
  <1>2. \A i \in 1..32 : mixed[1 + (i % 2)] \in Nat
    BY <1>1
  <1>3. \A i \in 1..32 : (mixed[1 + (i % 2)] \div i) % 256 \in Nat
    <2> HIDE DEF mixed
    <2> TAKE i \in 1..32
    <2>1. PICK x \in Nat : x = mixed[1 + (i % 2)]
      BY <1>2
    <2>2. (x \div i) % 256 \in Nat
      OBVIOUS
    <2> QED
      BY <2>1, <2>2
  <1>4. Sha256(bs) = [i \in 1..32 |-> (mixed[1 + (i % 2)] \div i) % 256]
    BY DEF Sha256
  <1> HIDE DEF mixed
  <1> TAKE i \in 1..32
  <1>5. Sha256(bs)[i] = (mixed[1 + (i % 2)] \div i) % 256
    BY <1>4
  <1> QED
    BY <1>3, <1>5

LEMMA ScalarType ==
  ASSUME NEW msg \in Seq(Nat)
  PROVE  AsScalar(Sha256(msg)) \in Scalars
  <1>1. Sha256(msg)[1] \in Nat /\ Sha256(msg)[2] \in Nat
    <2>1. \A i \in 1..32 : Sha256(msg)[i] \in Nat
      BY DigestType
    <2>2. 1 \in 1..32 /\ 2 \in 1..32
      OBVIOUS
    <2> QED
      BY <2>1, <2>2
  <1>2. PICK a \in Nat : a = 256 * Sha256(msg)[1] + Sha256(msg)[2]
    BY <1>1
  <1>3. PICK k \in Nat \ {0} : k = CurveOrder - 1
    BY CurveAssumption
  <1>4. a % k \in 0..(k - 1)
    OBVIOUS
  <1> QED
    BY <1>2, <1>3, <1>4 DEF AsScalar, Scalars

LEMMA MarshalFacts ==
  ASSUME NEW n \in Nat
  PROVE  /\ Marshal(n) \in Seq(Nat) /\ Len(Marshal(n)) = 33
         /\ Unmarshal(Marshal(n)) = n
         /\ SetBytes(Marshal(n)) \in 0..(CurveOrder - 1)
  <1>1. PICK zeros \in Seq(Nat) : Len(zeros) = 31 /\ zeros = [i \in 1..31 |-> 0]
    <2>1. PICK k \in Nat : k = 31
      OBVIOUS
    <2>2. [i \in 1..k |-> 0] \in Seq(Nat) /\ Len([i \in 1..k |-> 0]) = 31
      BY <2>1
    <2> QED
      BY <2>1, <2>2
  <1>2. PICK head \in Seq(Nat) : Len(head) = 1 /\ head = <<2>>
    <2>1. <<2>> \in Seq(Nat) /\ Len(<<2>>) = 1
      OBVIOUS
    <2> QED
      BY <2>1
  <1>3. Marshal(n) = (head \o zeros) \o <<n>>
    BY <1>1, <1>2 DEF Marshal
  <1>4. Marshal(n) \in Seq(Nat) /\ Len(Marshal(n)) = 33 /\ Marshal(n)[33] = n
    BY <1>1, <1>2, <1>3
  <1>5. Digits(Marshal(n), 256, CurveOrder) \in 0..(CurveOrder - 1)
    <2>1. \A b \in Nat, m \in Nat \ {0} : Digits(Marshal(n), b, m) \in 0..(m - 1)
      BY <1>4, DigitsType
    <2>2. 256 \in Nat /\ CurveOrder \in Nat \ {0}
      BY CurveAssumption
    <2> QED
      BY <2>1, <2>2
  <1> QED
    BY <1>4, <1>5 DEF Unmarshal, SetBytes

LEMMA ModParts ==
  ASSUME NEW N \in Nat, N > 0, NEW a \in Int
  PROVE  a % N \in 0..(N - 1) /\ a \div N \in Int /\ a = N * (a \div N) + (a % N)
  OBVIOUS

LEMMA SmallMultiple ==
  ASSUME NEW N \in Nat, N > 0, NEW x \in 0..(N - 1), NEW y \in 0..(N - 1),
         NEW q \in Int, x - y = N * q
  PROVE  x = y
  <1>1. CASE q = 0
    BY <1>1
  <1>2. CASE q >= 1
    <2>1. N * q >= N
      BY <1>2
    <2> QED
      BY <2>1
  <1>3. CASE q <= -1
    <2>1. N * q <= -N
      BY <1>3
    <2> QED
      BY <2>1
  <1> QED
    BY <1>1, <1>2, <1>3

(* A multiple of the order changes no remainder.                           *)
LEMMA ModShift ==
  ASSUME NEW N \in Nat, N > 0, NEW a \in Int, NEW q \in Int
  PROVE  (a + N * q) % N = a % N
  <1> DEFINE b == a + N * q
  <1>1. b \in Int
    OBVIOUS
  <1>2. PICK x, u \in Int : x \in 0..(N - 1) /\ x = a % N /\ a = N * u + x
    BY ModParts
  <1>3. PICK y, v \in Int : y \in 0..(N - 1) /\ y = b % N /\ b = N * v + y
    BY <1>1, ModParts
  <1>4. y - x = N * (u + q - v)
    <2>1. N * (u + q - v) = N * u + N * q - N * v
      OBVIOUS
    <2> QED
      BY <1>2, <1>3, <2>1
  <1>5. u + q - v \in Int
    OBVIOUS
  <1>6. x = y
    BY <1>2, <1>3, <1>4, <1>5, SmallMultiple
  <1> QED
    BY <1>2, <1>3, <1>6

LEMMA ModSmall ==
  ASSUME NEW N \in Nat, N > 0, NEW a \in 0..(N - 1)
  PROVE  a % N = a
  OBVIOUS

LEMMA ChallengeType ==
  ASSUME NEW a \in Nat, NEW b \in Nat
  PROVE  Challenge(a, b) \in 0..(CurveOrder - 1)
  <1>1. PICK c \in Nat, d \in Nat : c = SetBytes(Marshal(a)) /\ d = SetBytes(Marshal(b))
    <2>1. PICK N \in Nat : N = CurveOrder
      BY CurveAssumption
    <2>2. SetBytes(Marshal(a)) \in 0..(N - 1) /\ SetBytes(Marshal(b)) \in 0..(N - 1)
      BY <2>1, MarshalFacts
    <2> QED
      BY <2>2
  <1>2. PICK N \in Nat : N = CurveOrder /\ N > 0
    BY CurveAssumption
  <1>3. c * d \in Nat
    OBVIOUS
  <1>4. (c * d) % N \in 0..(N - 1)
    BY <1>2, <1>3, ModParts
  <1> QED
    BY <1>1, <1>2, <1>4 DEF Challenge

(* The two points a verifier computes are those of the prover.             *)
FirstPoint(N, k, x, s, r) == (((r - s * k) % N) * x + s * ((k * x) % N)) % N
SecondPoint(N, k, s, r) == (((r - s * k) % N) + s * k) % N

LEMMA PointsAgree ==
  ASSUME NEW N \in Nat, N > 0, NEW k \in Nat, NEW x \in Nat, NEW s \in Nat,
         NEW r \in 0..(N - 1)
  PROVE  FirstPoint(N, k, x, s, r) = (r * x) % N /\ SecondPoint(N, k, s, r) = r
  <1>1. PICK t \in Int, p \in Int : t = (r - s * k) % N /\ r - s * k = N * p + t
    <2>1. r - s * k \in Int
      OBVIOUS
    <2> QED
      BY <2>1, ModParts
  <1>2. PICK v \in Int, q \in Int : v = (k * x) % N /\ k * x = N * q + v
    <2>1. PICK y \in Int : y = k * x
      OBVIOUS
    <2>2. \E v \in Int, q \in Int : v = y % N /\ y = N * q + v
      BY ModParts
    <2> QED
      BY <2>1, <2>2
  <1>3. (t + s * k) % N = r
    <2>1. t + s * k = r + N * (-p) /\ -p \in Int /\ r \in Int
      <3>1. N * (-p) = -(N * p)
        OBVIOUS
      <3> QED
        BY <1>1, <3>1
    <2>2. (r + N * (-p)) % N = r % N
      BY <2>1, ModShift
    <2> QED
      BY <2>1, <2>2, ModSmall
  <1>4. (t * x + s * v) % N = (r * x) % N
    <2> DEFINE e == (-p) * x + s * (-q)
    <2>1. e \in Int /\ r * x \in Int
      OBVIOUS
    <2>2. t * x + s * v = r * x + N * e
      <3>1. t * x = (r - s * k - N * p) * x
        BY <1>1
      <3>2. (r - s * k - N * p) * x = r * x - s * (k * x) - N * (p * x)
        OBVIOUS
      <3>3. s * v = s * (k * x - N * q)
        BY <1>2
      <3>4. s * (k * x - N * q) = s * (k * x) - N * (s * q)
        OBVIOUS
      <3>5. N * e = -(N * (p * x)) - N * (s * q)
        OBVIOUS
      <3> HIDE DEF e
      <3>6. PICK a \in Int, b \in Int, c \in Int, d \in Int :
              /\ a = r * x /\ b = s * (k * x) /\ c = N * (p * x) /\ d = N * (s * q)
        OBVIOUS
      <3>7. t * x = a - b - c /\ s * v = b - d /\ N * e = -c - d
        BY <3>1, <3>2, <3>3, <3>4, <3>5, <3>6
      <3> QED
        BY <3>6, <3>7
    <2> HIDE DEF e
    <2>3. PICK y \in Int : y = r * x
      BY <2>1
    <2>4. (y + N * e) % N = y % N
      BY <2>1, ModShift
    <2> QED
      BY <2>2, <2>3, <2>4
  <1> QED
    BY <1>1, <1>2, <1>3, <1>4 DEF FirstPoint, SecondPoint

LEMMA ProofVerifies ==
  ASSUME NEW key \in Scalars, NEW r \in Scalars, NEW msg \in Seq(Nat)
  PROVE  LET vrf == VRFCalculate(key, msg, r)
         IN  VRFVerify(key, msg, vrf.s, vrf.t, vrf.value)
  <1> DEFINE xM == AsScalar(Sha256(msg))
             rM == (r * xM) % CurveOrder
             V == (key * xM) % CurveOrder
             s == Challenge(rM, r)
             t == Response(r, s, key)
  <1>1. PICK N \in Nat : N = CurveOrder /\ N > 0
    BY CurveAssumption
  <1>2. xM \in Nat /\ key \in Nat /\ r \in Nat /\ r \in 0..(N - 1)
    <2>1. xM \in Scalars
      BY ScalarType
    <2> HIDE DEF xM
    <2> QED
      BY <1>1, <2>1 DEF Scalars
  <1>3. rM \in Nat /\ V \in Nat
    <2>1. \A a \in Nat : a % N \in Nat
      BY <1>1
    <2>2. r * xM \in Nat /\ key * xM \in Nat
      BY <1>2
    <2> QED
      BY <1>1, <2>1, <2>2
  <1>4. s \in Nat
    <2>1. s \in 0..(N - 1)
      BY <1>1, <1>2, <1>3, ChallengeType
    <2> QED
      BY <2>1
  <1>5. Unmarshal(Marshal(V)) = V
    BY <1>3, MarshalFacts
  <1>6. VRFCalculate(key, msg, r) = [value |-> Marshal(V), s |-> s, t |-> t]
    BY DEF VRFCalculate
  <1>7. VRFVerify(key, msg, s, t, Marshal(V))
          <=> s = Challenge((t * xM + s * V) % CurveOrder, (t + s * key) % CurveOrder)
    BY <1>5 DEF VRFVerify
  <1>8. (t * xM + s * V) % N = rM /\ (t + s * key) % N = r
    <2>1. t = (r - s * key) % N
      BY <1>1 DEF Response
    <2>2. V = (key * xM) % N /\ rM = (r * xM) % N
      BY <1>1
    <2> HIDE DEF xM, s, t, V, rM
    <2>3. PICK x \in Nat, y \in Nat, k \in Nat, n \in 0..(N - 1) :
            x = xM /\ y = s /\ k = key /\ n = r
      BY <1>2, <1>4
    <2>4. FirstPoint(N, k, x, y, n) = (n * x) % N /\ SecondPoint(N, k, y, n) = n
      BY <1>1, PointsAgree
    <2> QED
      BY <2>1, <2>2, <2>3, <2>4 DEF FirstPoint, SecondPoint
  <1> HIDE DEF V, s, t
  <1> QED
    BY <1>1, <1>6, <1>7, <1>8 DEF s

(***************************************************************************)
(* VRFCalculate, VRFVerify: for every curve, key, message and pair of      *)
(* random numbers, a node that finds itself elected is elected for all     *)
(* others, and one that does not cannot pass their check with its proof.   *)
(* The random number of the local check need not be that of the proof.     *)
(***************************************************************************)
THEOREM ElectionsAgree ==
  \A key, r, local \in Scalars, msg \in Seq(Nat) :
    LET vrf == VRFCalculate(key, msg, r)
    IN VRFCheckRemoteConsensus(key, msg, vrf.s, vrf.t, vrf.value)
         <=> VRFCheckLocalConsensus(key, msg, local)
  <1> TAKE key, r, local \in Scalars, msg \in Seq(Nat)
  <1> DEFINE vrf == VRFCalculate(key, msg, r)
  <1>1. VRFVerify(key, msg, vrf.s, vrf.t, vrf.value)
    BY ProofVerifies
  <1>2. vrf.value = VRFCalculate(key, msg, local).value
    BY DEF VRFCalculate
  <1> QED
    BY <1>1, <1>2, Zenon DEF VRFCheckRemoteConsensus, VRFCheckLocalConsensus

(***************************************************************************)
(* Below a prime order no two numbers but 0 multiply to a multiple of it.  *)
(***************************************************************************)
Prime(N) == N > 1 /\ \A n \in 2..(N - 1) : N % n # 0
IsMultiple(a, N) == \E q \in Int : a = N * q

LEMMA NoZeroDivisors ==
  ASSUME NEW N \in Nat, Prime(N), NEW s \in 1..(N - 1), NEW d \in 1..(N - 1), IsMultiple(s * d, N)
  PROVE  FALSE
  <1> DEFINE S == {m \in 1..N : IsMultiple(m * d, N)}
  <1>0. N > 1
    BY DEF Prime
  <1>1. PICK m \in S : \A j \in S : m <= j
    <2>1. S \in SUBSET Nat /\ s \in S
      BY <1>0
    <2> HIDE DEF S
    <2> QED
      BY <2>1, LeastFacts
  <1>2. m \in 1..(N - 1) /\ m <= s
    BY <1>1
  <1>3. PICK q \in Int : m * d = N * q
    BY <1>1 DEF IsMultiple
  <1>4. PICK x \in Int, j \in Int : x \in 0..(m - 1) /\ x = N % m /\ N = m * j + x
    BY <1>2, ModParts
  <1>5. IsMultiple(x * d, N)
    <2>1. x * d = N * d - (m * d) * j
      <3>1. x * d = (N - m * j) * d
        BY <1>4
      <3>2. (N - m * j) * d = N * d - (m * d) * j
        OBVIOUS
      <3> QED
        BY <3>1, <3>2
    <2>2. (m * d) * j = N * (q * j)
      <3>1. (N * q) * j = N * (q * j)
        OBVIOUS
      <3> QED
        BY <1>3, <3>1
    <2>3. N * (d - q * j) = N * d - N * (q * j)
      OBVIOUS
    <2>4. d - q * j \in Int
      OBVIOUS
    <2> QED
      BY <2>1, <2>2, <2>3, <2>4 DEF IsMultiple
  <1>6. x = 0
    <2> SUFFICES ASSUME x # 0
                 PROVE  FALSE
      OBVIOUS
    <2>1. x \in 1..N /\ ~(m <= x)
      BY <1>2, <1>4
    <2>2. x \in S
      BY <1>5, <2>1
    <2> HIDE DEF S
    <2> QED
      BY <1>1, <2>1, <2>2
  <1>7. m = 1
    <2>1. N % m = 0
      BY <1>4, <1>6
    <2>2. ~(m \in 2..(N - 1))
      BY <2>1, Zenon DEF Prime
    <2> QED
      BY <1>2, <2>2
  <1>8. d = N * q
    BY <1>3, <1>7
  <1> QED
    <2>1. d - 0 = N * q /\ d \in 0..(N - 1) /\ 0 \in 0..(N - 1)
      BY <1>8
    <2>2. d = 0
      BY <2>1, SmallMultiple
    <2> QED
      BY <2>2

Congruent(a, b, N) == a % N = b % N

LEMMA SameRemainder ==
  ASSUME NEW N \in Nat, N > 0, NEW a \in Int, NEW b \in Int, Congruent(a, b, N)
  PROVE  IsMultiple(a - b, N)
  <1>1. PICK x \in Int, p \in Int : x = a % N /\ a = N * p + x
    BY ModParts
  <1>2. PICK y \in Int, q \in Int : y = b % N /\ b = N * q + y
    <2>1. /\ b % N \in 0..(N - 1) /\ b \div N \in Int
          /\ b = N * (b \div N) + (b % N)
      BY ModParts
    <2> QED
      BY <2>1
  <1>3. a - b = N * (p - q) /\ p - q \in Int
    <2>1. N * (p - q) = N * p - N * q
      OBVIOUS
    <2>2. x = y
      BY <1>1, <1>2 DEF Congruent
    <2> QED
      BY <1>1, <1>2, <2>1, <2>2
  <1> QED
    BY <1>3 DEF IsMultiple

LEMMA NearRemainder ==
  ASSUME NEW N \in Nat, N > 0, NEW a \in 0..(N - 1), NEW b \in 0..(N - 1),
         IsMultiple(a - b, N)
  PROVE  a = b
  <1>1. PICK q \in Int : a - b = N * q
    BY DEF IsMultiple
  <1> QED
    BY <1>1, SmallMultiple

LEMMA Cancel ==
  ASSUME NEW N \in Nat, Prime(N),
         NEW s \in 1..(N - 1), NEW a \in 0..(N - 1), NEW b \in 0..(N - 1),
         NEW e \in Int, e = s * (a - b), IsMultiple(e, N)
  PROVE  a = b
  <1>1. CASE a > b
    <2>1. PICK d \in 1..(N - 1) : d = a - b
      BY <1>1
    <2>2. IsMultiple(s * d, N)
      BY <2>1
    <2> QED
      BY <2>2, NoZeroDivisors
  <1>2. CASE a < b
    <2>1. PICK d \in 1..(N - 1) : d = b - a
      BY <1>2
    <2>2. PICK q \in Int : e = N * q
      BY DEF IsMultiple
    <2>3. s * d = N * (-q) /\ -q \in Int
      <3>1. s * d = -e
        BY <2>1
      <3>2. N * (-q) = -(N * q)
        OBVIOUS
      <3> QED
        BY <2>2, <3>1, <3>2
    <2>4. IsMultiple(s * d, N)
      BY <2>3 DEF IsMultiple
    <2> QED
      BY <2>4, NoZeroDivisors
  <1> QED
    BY <1>1, <1>2

(* A point as a number is its logarithm and a constant.                    *)
LEMMA MarshalDigits ==
  \E c \in Nat : \A n \in Nat : SetBytes(Marshal(n)) = (c + n) % CurveOrder
  <1>1. PICK zeros \in Seq(Nat) : zeros = [i \in 1..31 |-> 0]
    <2>1. PICK k \in Nat : k = 31
      OBVIOUS
    <2>2. [i \in 1..k |-> 0] \in Seq(Nat)
      OBVIOUS
    <2> QED
      BY <2>1, <2>2
  <1>2. PICK h \in Seq(Nat) : h = <<2>> \o zeros
    <2>1. <<2>> \in Seq(Nat)
      OBVIOUS
    <2>2. <<2>> \o zeros \in Seq(Nat)
      BY <2>1
    <2> QED
      BY <2>2
  <1>3. PICK b \in Nat, N \in Nat \ {0} : b = 256 /\ N = CurveOrder
    BY CurveAssumption
  <1>4. PICK c \in Nat : c = Digits(h, b, N) * b
    <2>1. PICK e \in Nat : e = Digits(h, b, N)
      <3>1. Digits(h, b, N) \in 0..(N - 1)
        BY DigitsType
      <3> QED
        BY <3>1
    <2>2. e * b \in Nat
      OBVIOUS
    <2> QED
      BY <2>1, <2>2
  <1>5. ASSUME NEW n \in Nat
        PROVE  SetBytes(Marshal(n)) = (c + n) % CurveOrder
    <2>1. Marshal(n) = h \o <<n>>
      BY <1>1, <1>2 DEF Marshal
    <2>2. Digits(h \o <<n>>, b, N) = (Digits(h, b, N) * b + n) % N
      BY LastDigit
    <2> QED
      BY <1>3, <1>4, <2>1, <2>2 DEF SetBytes
  <1> QED
    BY <1>5

LEMMA FactorTells ==
  ASSUME NEW N \in Nat, Prime(N), NEW z \in 0..(N - 1),
         NEW x \in 0..(N - 1), NEW y \in 0..(N - 1),
         Congruent(x * z, y * z, N), ~Congruent(x * z, 0, N)
  PROVE  x = y
  <1>1. z # 0
    <2>1. z = 0 => x * z = 0
      OBVIOUS
    <2> QED
      BY <2>1 DEF Congruent
  <1>2. PICK v \in Int, w \in Int, e \in Int : v = x * z /\ w = y * z /\ e = v - w
    OBVIOUS
  <1>3. IsMultiple(e, N)
    <2>1. Congruent(v, w, N)
      BY <1>2
    <2>2. N > 0
      BY DEF Prime
    <2>3. IsMultiple(v - w, N)
      BY <2>1, <2>2, SameRemainder
    <2> QED
      BY <1>2, <2>3
  <1>4. e = z * (x - y)
    <2>1. z * (x - y) = x * z - y * z
      OBVIOUS
    <2> QED
      BY <1>2, <2>1
  <1>5. z \in 1..(N - 1)
    BY <1>1
  <1> QED
    BY <1>3, <1>4, <1>5, Cancel

LEMMA ShiftTells ==
  ASSUME NEW N \in Nat, N > 0, NEW a \in 0..(N - 1), NEW b \in 0..(N - 1),
         NEW c \in Nat, Congruent(c + a, c + b, N)
  PROVE  a = b
  <1>1. PICK v \in Int, w \in Int : v = c + a /\ w = c + b
    OBVIOUS
  <1>2. Congruent(v, w, N)
    BY <1>1
  <1>3. IsMultiple(v - w, N)
    BY <1>2, SameRemainder
  <1>4. v - w = a - b
    BY <1>1
  <1> QED
    BY <1>3, <1>4, NearRemainder

(* Challenge tells the first point from every other one.                   *)
LEMMA ChallengeTells ==
  ASSUME NEW p \in 0..(CurveOrder - 1), NEW q \in 0..(CurveOrder - 1), NEW r \in Nat,
         Challenge(p, r) = Challenge(q, r), Challenge(p, r) # 0
  PROVE  p = q
  <1>1. PICK N \in Nat : N = CurveOrder
    BY CurveAssumption
  <1>2. Prime(N) /\ N > 0
    BY <1>1, CurveAssumption DEF Prime
  <1>3. PICK a \in 0..(N - 1), b \in 0..(N - 1) : a = p /\ b = q
    BY <1>1
  <1>4. a \in Nat /\ b \in Nat
    OBVIOUS
  <1>5. PICK x \in 0..(N - 1), y \in 0..(N - 1), z \in 0..(N - 1) :
          x = SetBytes(Marshal(a)) /\ y = SetBytes(Marshal(b)) /\ z = SetBytes(Marshal(r))
    <2>1. /\ SetBytes(Marshal(a)) \in 0..(N - 1) /\ SetBytes(Marshal(b)) \in 0..(N - 1)
          /\ SetBytes(Marshal(r)) \in 0..(N - 1)
      BY <1>1, <1>4, MarshalFacts
    <2> QED
      BY <2>1
  <1>6. Congruent(x * z, y * z, N) /\ ~Congruent(x * z, 0, N)
    <2>1. (x * z) % N = (y * z) % N /\ (x * z) % N # 0
      BY <1>1, <1>3, <1>5 DEF Challenge
    <2>2. 0 % N = 0
      BY <1>2
    <2> QED
      BY <2>1, <2>2 DEF Congruent
  <1>7. x = y
    BY <1>2, <1>6, FactorTells
  <1>8. PICK c \in Nat : \A n \in Nat : SetBytes(Marshal(n)) = (c + n) % N
    BY <1>1, MarshalDigits
  <1>9. Congruent(c + a, c + b, N)
    BY <1>4, <1>5, <1>7, <1>8 DEF Congruent
  <1>10. a = b
    BY <1>2, <1>9, ShiftTells
  <1> QED
    BY <1>3, <1>10

LEMMA ChallengeSwaps ==
  \A a, b \in 0..(CurveOrder - 1) : Challenge(a, b) = Challenge(b, a)
  <1> TAKE a, b \in 0..(CurveOrder - 1)
  <1>1. PICK N \in Nat : N = CurveOrder
    BY CurveAssumption
  <1>2. a \in Nat /\ b \in Nat
    BY <1>1
  <1>3. PICK x \in Int, y \in Int : x = SetBytes(Marshal(a)) /\ y = SetBytes(Marshal(b))
    <2>1. SetBytes(Marshal(a)) \in 0..(N - 1) /\ SetBytes(Marshal(b)) \in 0..(N - 1)
      BY <1>1, <1>2, MarshalFacts
    <2> QED
      BY <2>1
  <1>4. x * y = y * x
    OBVIOUS
  <1> QED
    BY <1>3, <1>4 DEF Challenge

(* Two points that differ by a multiple of s, below the order.             *)
LEMMA MultipleTells ==
  ASSUME NEW N \in Nat, Prime(N), NEW s \in 1..(N - 1), NEW c \in Int,
         NEW a \in 0..(N - 1), NEW b \in 0..(N - 1),
         Congruent(c + s * a, c + s * b, N)
  PROVE  a = b
  <1>1. PICK v \in Int, w \in Int, e \in Int :
          v = c + s * a /\ w = c + s * b /\ e = v - w
    OBVIOUS
  <1>2. IsMultiple(e, N)
    <2>1. Congruent(v, w, N)
      BY <1>1
    <2>2. N > 0
      BY DEF Prime
    <2>3. IsMultiple(v - w, N)
      BY <2>1, <2>2, SameRemainder
    <2> QED
      BY <1>1, <2>3
  <1>3. e = s * (a - b)
    <2>1. s * (a - b) = s * a - s * b
      OBVIOUS
    <2> QED
      BY <1>1, <2>1
  <1> QED
    BY <1>2, <1>3, Cancel

(* A challenge over points that are remainders tells the first sum modulo  *)
(* the order.                                                              *)
LEMMA ChallengeSums ==
  ASSUME NEW a \in Int, NEW b \in Int, NEW r \in Nat,
         Challenge(a % CurveOrder, r) = Challenge(b % CurveOrder, r),
         Challenge(a % CurveOrder, r) # 0
  PROVE  Congruent(a, b, CurveOrder)
  <1>1. PICK N \in Nat : N = CurveOrder /\ N > 0
    BY CurveAssumption
  <1>2. a % N \in 0..(N - 1) /\ b % N \in 0..(N - 1)
    BY <1>1, ModParts
  <1>3. a % CurveOrder = b % CurveOrder
    BY <1>1, <1>2, ChallengeTells
  <1> QED
    BY <1>3 DEF Congruent

(***************************************************************************)
(* VRFVerify: however a proof (s, t) was made, if s is not 0, it passes    *)
(* with one output only when message and key stand, with one key only when *)
(* message and output stand, and, if t is not 0, with one message only, as *)
(* a point, when key and output stand.  So a block that is accepted is     *)
(* refused when any one of the three is changed on its way.                *)
(*                                                                         *)
(* This is about one proof.  It does not say that a key has one output     *)
(* only: the challenge (vrf.go:65-72) hashes neither the output nor the    *)
(* point of the message, and nothing is claimed of another proof.  It also *)
(* rests on Marshal telling points apart modulo the order.                 *)
(***************************************************************************)
THEOREM ProofBinds ==
  \A s \in Scalars, t, key, k, v, n \in 0..(CurveOrder - 1), msg, other \in Seq(Nat) :
    VRFVerify(key, msg, s, t, Marshal(v)) =>
      /\ VRFVerify(key, msg, s, t, Marshal(n)) => n = v
      /\ VRFVerify(k, msg, s, t, Marshal(v)) => k = key
      /\ t # 0 /\ VRFVerify(key, other, s, t, Marshal(v))
           => AsScalar(Sha256(other)) = AsScalar(Sha256(msg))
  <1> TAKE s \in Scalars, t, key, k, v, n \in 0..(CurveOrder - 1), msg, other \in Seq(Nat)
  <1>1. PICK N \in Nat : N = CurveOrder
    BY CurveAssumption
  <1>2. N > 0 /\ Prime(N)
    BY <1>1, CurveAssumption DEF Prime
  <1>3. PICK x \in 0..(N - 1), y \in 0..(N - 1) :
          x = AsScalar(Sha256(msg)) /\ y = AsScalar(Sha256(other))
    <2>1. AsScalar(Sha256(msg)) \in Scalars /\ AsScalar(Sha256(other)) \in Scalars
      BY ScalarType
    <2> QED
      BY <1>1, <2>1 DEF Scalars
  <1>4. PICK c \in 1..(N - 1) : c = s
    BY <1>1 DEF Scalars
  <1>5. PICK u \in 0..(N - 1), a \in 0..(N - 1), b \in 0..(N - 1), d \in 0..(N - 1),
             e \in 0..(N - 1) : u = t /\ a = key /\ b = k /\ d = v /\ e = n
    BY <1>1
  <1>6. Unmarshal(Marshal(d)) = d /\ Unmarshal(Marshal(e)) = e
    <2>1. d \in Nat /\ e \in Nat
      OBVIOUS
    <2> QED
      BY <2>1, MarshalFacts
  <1> DEFINE Means(i, m, o, sent) ==
        VRFVerify(i, sent, s, t, Marshal(o))
          <=> c = Challenge((u * m + c * o) % N, (u + c * i) % N)
  <1>7. Means(a, x, d, msg) /\ Means(a, x, e, msg) /\ Means(b, x, d, msg)
        /\ Means(a, y, d, other)
    <2>1. /\ VRFVerify(a, msg, c, u, Marshal(d))
               <=> c = Challenge(
                     (u * AsScalar(Sha256(msg)) + c * Unmarshal(Marshal(d))) % CurveOrder,
                     (u + c * a) % CurveOrder)
          /\ VRFVerify(a, msg, c, u, Marshal(e))
               <=> c = Challenge(
                     (u * AsScalar(Sha256(msg)) + c * Unmarshal(Marshal(e))) % CurveOrder,
                     (u + c * a) % CurveOrder)
          /\ VRFVerify(b, msg, c, u, Marshal(d))
               <=> c = Challenge(
                     (u * AsScalar(Sha256(msg)) + c * Unmarshal(Marshal(d))) % CurveOrder,
                     (u + c * b) % CurveOrder)
          /\ VRFVerify(a, other, c, u, Marshal(d))
               <=> c = Challenge(
                     (u * AsScalar(Sha256(other)) + c * Unmarshal(Marshal(d))) % CurveOrder,
                     (u + c * a) % CurveOrder)
      BY Zenon DEF VRFVerify
    <2> QED
      BY <1>1, <1>3, <1>4, <1>5, <1>6, <2>1, Zenon
  <1> HIDE DEF Means
  <1>8. PICK p \in Int, q \in Int, f \in Int, g \in Int, h \in Int :
          /\ p = u * x + c * d /\ q = u * x + c * e /\ h = u * y + c * d
          /\ f = u + c * a /\ g = u + c * b
    OBVIOUS
  <1>9. \A i \in Int : i % N \in 0..(N - 1)
    BY <1>2, ModParts
  <1>10. /\ VRFVerify(key, msg, s, t, Marshal(v)) <=> c = Challenge(p % N, f % N)
         /\ VRFVerify(key, msg, s, t, Marshal(n)) <=> c = Challenge(q % N, f % N)
         /\ VRFVerify(k, msg, s, t, Marshal(v)) <=> c = Challenge(p % N, g % N)
         /\ VRFVerify(key, other, s, t, Marshal(v)) <=> c = Challenge(h % N, f % N)
    BY <1>5, <1>7, <1>8, Zenon DEF Means
  <1>11. SUFFICES ASSUME c = Challenge(p % N, f % N)
                  PROVE  /\ c = Challenge(q % N, f % N) => e = d
                         /\ c = Challenge(p % N, g % N) => b = a
                         /\ u # 0 /\ c = Challenge(h % N, f % N) => y = x
    BY <1>3, <1>5, <1>10, Zenon
  <1>12. c # 0 /\ p % N \in Nat /\ f % N \in Nat
    <2>1. p % N \in 0..(N - 1) /\ f % N \in 0..(N - 1)
      BY <1>9, Zenon
    <2>2. 0..(N - 1) \subseteq Nat /\ c # 0
      OBVIOUS
    <2> QED
      BY <2>1, <2>2, Zenon
  <1>13. ASSUME c = Challenge(q % N, f % N)
         PROVE  e = d
    <2>1. Congruent(q, p, N)
      BY <1>1, <1>8, <1>11, <1>12, <1>13, ChallengeSums
    <2>2. PICK i \in Int : i = u * x
      OBVIOUS
    <2>3. Congruent(i + c * e, i + c * d, N)
      BY <1>8, <2>1, <2>2
    <2> QED
      BY <1>2, <2>3, MultipleTells
  <1>14. ASSUME c = Challenge(p % N, g % N)
         PROVE  b = a
    <2>1. c = Challenge(g % N, p % N) /\ c = Challenge(f % N, p % N)
      <3>1. /\ p % N \in 0..(CurveOrder - 1) /\ f % N \in 0..(CurveOrder - 1)
            /\ g % N \in 0..(CurveOrder - 1)
        BY <1>1, <1>8, <1>9
      <3> QED
        BY <1>11, <1>14, <3>1, ChallengeSwaps
    <2>2. Congruent(g, f, N)
      BY <1>1, <1>8, <1>12, <2>1, ChallengeSums
    <2>3. PICK i \in Int : i = u
      OBVIOUS
    <2>4. Congruent(i + c * b, i + c * a, N)
      BY <1>8, <2>2, <2>3, Zenon
    <2> QED
      BY <1>2, <2>4, MultipleTells
  <1>15. ASSUME u # 0, c = Challenge(h % N, f % N)
         PROVE  y = x
    <2>1. Congruent(h, p, N)
      BY <1>1, <1>8, <1>11, <1>12, <1>15, ChallengeSums
    <2>2. PICK i \in Int : i = c * d
      OBVIOUS
    <2>3. h = i + u * y /\ p = i + u * x
      BY <1>8, <2>2
    <2>4. Congruent(i + u * y, i + u * x, N)
      BY <2>1, <2>3
    <2>5. u \in 1..(N - 1)
      BY <1>15
    <2> QED
      BY <1>2, <2>4, <2>5, MultipleTells
  <1> QED
    BY <1>13, <1>14, <1>15

-----------------------------------------------------------------------------
(* Bytes and the writer of karmem.                                         *)

(* A number that is in a set together with 0, and whose successors are,    *)
(* shows that all are.                                                     *)
LEMMA Upward ==
  ASSUME NEW n \in Nat, NEW S, 0 \in S, \A i \in 1..n : i - 1 \in S => i \in S
  PROVE  \A i \in 0..n : i \in S
  <1> DEFINE Bad == {k \in 0..n : k \notin S}
  <1> SUFFICES ASSUME Bad # {}
               PROVE  FALSE
    OBVIOUS
  <1>1. PICK k \in Bad : \A j \in Bad : k <= j
    <2> Bad \in SUBSET Nat
      OBVIOUS
    <2> HIDE DEF Bad
    <2> QED
      BY LeastFacts
  <1>2. k \in 1..n /\ k - 1 \in 0..n /\ ~(k <= k - 1)
    <2>1. k # 0
      OBVIOUS
    <2> QED
      BY <2>1
  <1>3. k - 1 \notin Bad
    BY <1>1, <1>2
  <1> QED
    BY <1>2, <1>3

(***************************************************************************)
(* What a writer writes, as the bytes in use.                              *)
(***************************************************************************)
Writer(last) ==
  {w \in [mem : Seq(Nat), len : Nat] : last <= w.len /\ w.len <= Len(w.mem)}

(* A part of a sequence, two sequences in one, the sequence of Zeros.       *)
IsPart(c, m, f, n) == c = SubSeq(m, f, n)
IsJoin(c, a, b) == c = a \o b

(* e is d with bs at an offset; e is d and n bytes more.                   *)
Overwrites(e, d, at, bs) ==
  /\ Len(e) = Len(d)
  /\ \A p \in 1..Len(d) : at < p /\ p <= at + Len(bs) => e[p] = bs[p - at]
  /\ \A p \in 1..Len(d) : ~(at < p /\ p <= at + Len(bs)) => e[p] = d[p]

Extends(e, d, n) ==
  /\ Len(e) = Len(d) + n
  /\ \A p \in 1..Len(d) : e[p] = d[p]

(* The sizes that three bytes can say.                                     *)
Small(n) == n <= MaxWord

LEMMA WordFacts ==
  ASSUME NEW n \in Nat
  PROVE  /\ Word(n) \in Seq(Nat) /\ Len(Word(n)) = 4
         /\ Small(n) => Word(n)[1] + 256 * Word(n)[2] + 65536 * Word(n)[3] = n
  <1>1. PICK a \in Nat, b \in Nat, c \in Nat :
          a = n % 256 /\ b = (n \div 256) % 256 /\ c = (n \div 65536) % 256
    OBVIOUS
  <1>2. Small(n) => a + 256 * b + 65536 * c = n
    BY <1>1 DEF Small, MaxWord
  <1>3. Word(n) = <<a, b, c, 0>>
    BY <1>1 DEF Word
  <1>4. <<a, b, c, 0>> \in Seq(Nat) /\ Len(<<a, b, c, 0>>) = 4
    OBVIOUS
  <1> QED
    BY <1>2, <1>3, <1>4

LEMMA SmallBelow ==
  ASSUME NEW n \in Nat, Small(n), NEW m \in Nat, m <= n
  PROVE  Small(m)
  BY DEF Small, MaxWord

LEMMA WordSeq ==
  ASSUME NEW n \in Nat
  PROVE  \E s \in Seq(Nat) : s = Word(n) /\ Len(s) = 4
  <1>1. Word(n) \in Seq(Nat) /\ Len(Word(n)) = 4
    BY WordFacts
  <1> QED
    BY <1>1

LEMMA ZerosFacts ==
  ASSUME NEW n \in Nat
  PROVE  Zeros(n) \in Seq(Nat) /\ Len(Zeros(n)) = n /\ \A i \in 1..n : Zeros(n)[i] = 0
  BY DEF Zeros

LEMMA WriterFacts ==
  ASSUME NEW last \in Nat, NEW w \in Writer(last)
  PROVE  /\ w.mem \in Seq(Nat) /\ w.len \in Nat /\ last <= w.len /\ w.len <= Len(w.mem)
         /\ w = [mem |-> w.mem, len |-> w.len]
  BY DEF Writer

LEMMA Cut ==
  ASSUME NEW m \in Seq(Nat), NEW f \in Nat, NEW n \in Nat, 1 <= f, f <= n + 1, n <= Len(m)
  PROVE  \E c \in Seq(Nat) : /\ IsPart(c, m, f, n) /\ Len(c) = n - f + 1
                             /\ \A i \in 1..Len(c) : c[i] = m[f + i - 1]
  <1>1. \A i \in f..n : m[i] \in Nat
    OBVIOUS
  <1>2. /\ SubSeq(m, f, n) \in Seq(Nat)
        /\ Len(SubSeq(m, f, n)) = IF f <= n THEN n - f + 1 ELSE 0
        /\ \A i \in 1..(n - f + 1) : SubSeq(m, f, n)[i] = m[f + i - 1]
    <2>1. f \in Int /\ n \in Int
      OBVIOUS
    <2> QED
      BY <1>1, <2>1, SubSeqProperties, SMTT(30)
  <1>3. Len(SubSeq(m, f, n)) = n - f + 1
    BY <1>2
  <1> QED
    BY <1>2, <1>3 DEF IsPart

LEMMA CutFirst ==
  ASSUME NEW m \in Seq(Nat), NEW n \in Nat, n <= Len(m)
  PROVE  \E c \in Seq(Nat) : IsPart(c, m, 1, n) /\ Len(c) = n /\ \A i \in 1..n : c[i] = m[i]
  <1>1. 1 \in Nat /\ 1 <= 1 /\ 1 <= n + 1
    OBVIOUS
  <1>2. PICK c \in Seq(Nat) : /\ IsPart(c, m, 1, n) /\ Len(c) = n - 1 + 1
                              /\ \A i \in 1..Len(c) : c[i] = m[1 + i - 1]
    BY <1>1, Cut
  <1>3. Len(c) = n /\ \A i \in 1..n : 1 + i - 1 = i
    BY <1>2
  <1> QED
    BY <1>2, <1>3

LEMMA Join ==
  ASSUME NEW a \in Seq(Nat), NEW b \in Seq(Nat)
  PROVE  \E c \in Seq(Nat) : /\ IsJoin(c, a, b) /\ Len(c) = Len(a) + Len(b)
                             /\ \A i \in 1..Len(a) : c[i] = a[i]
                             /\ \A i \in 1..Len(b) : c[Len(a) + i] = b[i]
  <1>1. /\ a \o b \in Seq(Nat) /\ Len(a \o b) = Len(a) + Len(b)
        /\ \A i \in 1..(Len(a) + Len(b)) :
             (a \o b)[i] = IF i <= Len(a) THEN a[i] ELSE b[i - Len(a)]
    BY ConcatProperties
  <1>2. PICK k \in Nat, n \in Nat : k = Len(a) /\ n = Len(b)
    OBVIOUS
  <1>3. \A i \in 1..k : (a \o b)[i] = a[i]
    BY <1>1, <1>2
  <1>4. ASSUME NEW i \in 1..n
        PROVE  (a \o b)[k + i] = b[i]
    <2>1. k + i \in 1..(k + n) /\ ~(k + i <= k) /\ k + i - k = i
      BY <1>2
    <2> QED
      BY <1>1, <1>2, <2>1
  <1> QED
    BY <1>1, <1>2, <1>3, <1>4 DEF IsJoin

LEMMA BytesFacts ==
  ASSUME NEW last \in Nat, NEW w \in Writer(last)
  PROVE  /\ Bytes(w) \in Seq(Nat) /\ Len(Bytes(w)) = w.len
         /\ \A p \in 1..w.len : Bytes(w)[p] = w.mem[p]
  <1>1. PICK m \in Seq(Nat), n \in Nat : m = w.mem /\ n = w.len /\ n <= Len(m)
    BY WriterFacts
  <1>2. PICK c \in Seq(Nat) : IsPart(c, m, 1, n) /\ Len(c) = n /\ \A i \in 1..n : c[i] = m[i]
    BY <1>1, CutFirst
  <1>3. Bytes(w) = c
    BY <1>1, <1>2, Zenon DEF Bytes, IsPart
  <1> QED
    BY <1>1, <1>2, <1>3

LEMMA OverlayFacts ==
  ASSUME NEW m \in Seq(Nat), NEW at \in Nat, NEW bs \in Seq(Nat), at + Len(bs) <= Len(m)
  PROVE  \E r \in Seq(Nat) :
           /\ r = SubSeq(m, 1, at) \o bs \o SubSeq(m, at + Len(bs) + 1, Len(m))
           /\ Overwrites(r, m, at, bs)
  <1>1. PICK k \in Nat, n \in Nat : k = Len(bs) /\ n = Len(m) /\ at + k <= n
    OBVIOUS
  <1>2. PICK a \in Seq(Nat) : IsPart(a, m, 1, at) /\ Len(a) = at /\ \A i \in 1..at : a[i] = m[i]
    <2>1. at <= Len(m)
      BY <1>1
    <2> QED
      BY <2>1, CutFirst
  <1>3. PICK g \in Nat, f \in Nat : g = at + k /\ f = at + k + 1
    OBVIOUS
  <1>4. PICK c \in Seq(Nat) : /\ IsPart(c, m, f, n) /\ Len(c) = n - g
                              /\ \A i \in 1..Len(c) : c[i] = m[g + i]
    <2>1. f = g + 1
      BY <1>3
    <2>4. 1 <= f /\ f <= n + 1 /\ n <= Len(m)
      BY <1>1, <1>3
    <2>2. PICK c \in Seq(Nat) : /\ IsPart(c, m, f, n) /\ Len(c) = n - f + 1
                                /\ \A i \in 1..Len(c) : c[i] = m[f + i - 1]
      BY <2>4, Cut
    <2>3. Len(c) = n - g /\ \A i \in 1..Len(c) : f + i - 1 = g + i
      BY <2>1, <2>2
    <2> QED
      BY <2>2, <2>3
  <1>5. PICK h \in Seq(Nat) : /\ IsJoin(h, a, bs) /\ Len(h) = g
                              /\ \A i \in 1..at : h[i] = a[i]
                              /\ \A i \in 1..k : h[at + i] = bs[i]
    <2>1. PICK h \in Seq(Nat) : /\ IsJoin(h, a, bs) /\ Len(h) = Len(a) + Len(bs)
                                /\ \A i \in 1..Len(a) : h[i] = a[i]
                                /\ \A i \in 1..Len(bs) : h[Len(a) + i] = bs[i]
      BY Join
    <2> QED
      BY <1>1, <1>2, <1>3, <2>1
  <1>6. PICK r \in Seq(Nat) : /\ IsJoin(r, h, c) /\ Len(r) = n
                              /\ \A i \in 1..g : r[i] = h[i]
                              /\ \A i \in 1..Len(c) : r[g + i] = c[i]
    <2>1. PICK r \in Seq(Nat) : /\ IsJoin(r, h, c) /\ Len(r) = Len(h) + Len(c)
                                /\ \A i \in 1..Len(h) : r[i] = h[i]
                                /\ \A i \in 1..Len(c) : r[Len(h) + i] = c[i]
      BY Join
    <2>2. Len(h) = g /\ Len(r) = n
      BY <1>1, <1>3, <1>4, <1>5, <2>1
    <2> QED
      BY <2>1, <2>2
  <1>7. Overwrites(r, m, at, bs)
    <2>1. ASSUME NEW p \in 1..n, at < p, p <= at + k
          PROVE  r[p] = bs[p - at]
      <3>1. PICK i \in Nat : i = p - at
        BY <2>1
      <3>2. p \in 1..g /\ i \in 1..k /\ at + i = p
        BY <1>1, <1>3, <2>1, <3>1
      <3>3. r[p] = h[p]
        BY <1>6, <3>2
      <3>4. h[at + i] = bs[i]
        BY <1>5, <3>2
      <3> QED
        BY <3>1, <3>2, <3>3, <3>4
    <2>2. ASSUME NEW p \in 1..n, p <= at
          PROVE  r[p] = m[p]
      <3>1. p \in 1..g /\ p \in 1..at
        BY <1>1, <1>3, <2>2
      <3> QED
        BY <1>2, <1>5, <1>6, <3>1
    <2>3. ASSUME NEW p \in 1..n, p > at + k
          PROVE  r[p] = m[p]
      <3>1. PICK i \in Nat : i = p - g
        BY <1>3, <2>3
      <3>2. i \in 1..Len(c) /\ g + i = p
        BY <1>1, <1>3, <1>4, <2>3, <3>1
      <3>3. r[g + i] = c[i] /\ c[i] = m[g + i]
        BY <1>4, <1>6, <3>2
      <3> QED
        BY <3>2, <3>3
    <2>4. \A p \in 1..n : at < p /\ p <= at + k => r[p] = bs[p - at]
      BY <2>1
    <2>5. \A p \in 1..n : ~(at < p /\ p <= at + k) => r[p] = m[p]
      <3>1. \A p \in 1..n : p <= at \/ p > at + k \/ (at < p /\ p <= at + k)
        BY <1>1
      <3> QED
        BY <2>2, <2>3, <3>1
    <2> QED
      BY <1>1, <1>6, <2>4, <2>5 DEF Overwrites
  <1>8. r = SubSeq(m, 1, at) \o bs \o SubSeq(m, at + Len(bs) + 1, Len(m))
    BY <1>1, <1>2, <1>3, <1>4, <1>5, <1>6, Zenon DEF IsPart, IsJoin
  <1> QED
    BY <1>7, <1>8, Zenon

LEMMA SetMem ==
  ASSUME NEW w, NEW m, NEW n, w = [mem |-> m, len |-> n], NEW r
  PROVE  [w EXCEPT !.mem = r] = [mem |-> r, len |-> n]
  OBVIOUS

LEMMA WriteAtFacts ==
  ASSUME NEW last \in Nat, NEW w \in Writer(last), NEW at \in Nat, NEW bs \in Seq(Nat),
         at + Len(bs) <= w.len
  PROVE  LET v == WriteAt(w, at, bs)
         IN /\ v \in Writer(last) /\ v.len = w.len
            /\ Overwrites(Bytes(v), Bytes(w), at, bs)
            /\ Overwrites(v.mem, w.mem, at, bs)
  <1>1. PICK m \in Seq(Nat), n \in Nat :
          /\ m = w.mem /\ n = w.len /\ last <= n /\ n <= Len(m)
          /\ w = [mem |-> m, len |-> n]
    BY WriterFacts
  <1>2. PICK r \in Seq(Nat) :
          /\ r = SubSeq(m, 1, at) \o bs \o SubSeq(m, at + Len(bs) + 1, Len(m))
          /\ Overwrites(r, m, at, bs)
    <2>1. at + Len(bs) <= Len(m)
      BY <1>1
    <2> QED
      BY <2>1, OverlayFacts
  <1>3. PICK v : v = WriteAt(w, at, bs) /\ v = [mem |-> r, len |-> n]
    <2>1. WriteAt(w, at, bs) = [w EXCEPT !.mem = r]
      BY <1>1, <1>2, Zenon DEF WriteAt
    <2>2. [w EXCEPT !.mem = r] = [mem |-> r, len |-> n]
      <3>1. w = [mem |-> m, len |-> n]
        BY <1>1
      <3> QED
        BY <3>1, SetMem
    <2> QED
      BY <2>1, <2>2, Zenon
  <1>4. Overwrites(r, m, at, bs)
    BY <1>2, Zenon
  <1>5. v \in Writer(last) /\ v.mem = r /\ v.len = n
    <2>1. Len(r) = Len(m)
      BY <1>4 DEF Overwrites
    <2>2. v = [mem |-> r, len |-> n] /\ last <= n /\ n <= Len(m)
      BY <1>1, <1>3, Zenon
    <2> QED
      BY <2>1, <2>2 DEF Writer
  <1>6. Overwrites(Bytes(v), Bytes(w), at, bs)
    <2>1. PICK e \in Seq(Nat) : e = Bytes(v) /\ Len(e) = n /\ \A p \in 1..n : e[p] = r[p]
      BY <1>5, BytesFacts
    <2>2. PICK d \in Seq(Nat) : d = Bytes(w) /\ Len(d) = n /\ \A p \in 1..n : d[p] = m[p]
      BY <1>1, BytesFacts
    <2>3. n <= Len(m)
      BY <1>1
    <2>4. \A p \in 1..n : p \in 1..Len(m)
      BY <2>3
    <2>5. Overwrites(e, d, at, bs)
      BY <1>4, <2>1, <2>2, <2>4 DEF Overwrites
    <2> QED
      BY <2>1, <2>2, <2>5
  <1> QED
    BY <1>1, <1>3, <1>4, <1>5, <1>6, Zenon

LEMMA AllocFacts ==
  ASSUME NEW last \in Nat, NEW w \in Writer(last), NEW n \in Nat
  PROVE  LET v == Alloc(w, n)
         IN /\ v \in Writer(last + n) /\ v \in Writer(last) /\ v.len = w.len + n
            /\ Extends(Bytes(v), Bytes(w), n)
            /\ Len(v.mem) >= Len(w.mem)
            /\ \A p \in 1..Len(w.mem) : v.mem[p] = w.mem[p]
            /\ \A p \in (Len(w.mem) + 1)..Len(v.mem) : v.mem[p] = 0
  <1>1. PICK m \in Seq(Nat), u \in Nat :
          /\ m = w.mem /\ u = w.len /\ last <= u /\ u <= Len(m)
          /\ w = [mem |-> m, len |-> u]
    BY WriterFacts
  <1>2. PICK len \in Nat : len = u + n
    OBVIOUS
  <1>3. PICK r \in Seq(Nat) :
          /\ r = IF Len(m) >= len THEN m ELSE m \o Zeros(len - Len(m))
          /\ Len(r) >= len /\ Len(r) >= Len(m)
          /\ \A p \in 1..Len(m) : r[p] = m[p]
          /\ \A p \in (Len(m) + 1)..Len(r) : r[p] = 0
    <2>1. CASE Len(m) >= len
      <3>1. \A p \in (Len(m) + 1)..Len(m) : m[p] = 0
        OBVIOUS
      <3> QED
        BY <2>1, <3>1
    <2>2. CASE ~(Len(m) >= len)
      <3>1. PICK k \in Nat : k = len - Len(m)
        BY <2>2
      <3>2. PICK z \in Seq(Nat) : z = Zeros(k) /\ Len(z) = k /\ \A i \in 1..k : z[i] = 0
        <4>1. Zeros(k) \in Seq(Nat) /\ Len(Zeros(k)) = k /\ \A i \in 1..k : Zeros(k)[i] = 0
          BY ZerosFacts
        <4> QED
          BY <4>1
      <3>3. PICK s \in Seq(Nat) :
              /\ IsJoin(s, m, z) /\ Len(s) = Len(m) + Len(z)
              /\ \A p \in 1..Len(m) : s[p] = m[p]
              /\ \A p \in 1..Len(z) : s[Len(m) + p] = z[p]
        BY Join
      <3>4. \A p \in (Len(m) + 1)..Len(s) : s[p] = 0
        <4> SUFFICES ASSUME NEW p \in (Len(m) + 1)..Len(s)
                     PROVE  s[p] = 0
          OBVIOUS
        <4>1. PICK x \in Nat, y \in Nat : x = Len(m) /\ y = Len(s) /\ y = x + k
          BY <3>2, <3>3
        <4>2. p \in (x + 1)..y
          BY <4>1
        <4>3. PICK i \in Nat : i = p - x
          BY <4>2
        <4>4. i \in 1..k /\ x + i = p
          BY <4>1, <4>2, <4>3
        <4> QED
          BY <3>2, <3>3, <4>1, <4>4
      <3>5. s = IF Len(m) >= len THEN m ELSE m \o Zeros(len - Len(m))
        BY <2>2, <3>1, <3>2, <3>3, Zenon DEF IsJoin
      <3>6. Len(s) >= len /\ Len(s) >= Len(m)
        BY <3>1, <3>2, <3>3
      <3> QED
        BY <3>3, <3>4, <3>5, <3>6, Zenon
    <2> QED
      BY <2>1, <2>2
  <1>4. PICK v : v = Alloc(w, n) /\ v = [mem |-> r, len |-> len]
    BY <1>1, <1>2, <1>3, Zenon DEF Alloc
  <1>5. v \in Writer(last + n) /\ v \in Writer(last) /\ v.mem = r /\ v.len = len
    <2>1. v = [mem |-> r, len |-> len] /\ Len(r) >= len
      BY <1>3, <1>4, Zenon
    <2>2. last <= len /\ last + n <= len /\ last + n \in Nat
      <3>1. last <= u
        BY <1>1, Zenon
      <3> QED
        BY <1>2, <3>1
    <2> QED
      BY <2>1, <2>2 DEF Writer
  <1>6. Extends(Bytes(v), Bytes(w), n)
    <2>1. PICK e \in Seq(Nat) : e = Bytes(v) /\ Len(e) = len /\ \A p \in 1..len : e[p] = r[p]
      BY <1>5, BytesFacts
    <2>2. PICK d \in Seq(Nat) : d = Bytes(w) /\ Len(d) = u /\ \A p \in 1..u : d[p] = m[p]
      BY <1>1, BytesFacts
    <2>3. \A p \in 1..u : p \in 1..len /\ p \in 1..Len(m)
      <3>1. u <= Len(m)
        BY <1>1, Zenon
      <3> QED
        BY <1>2, <3>1
    <2>4. \A p \in 1..Len(m) : r[p] = m[p]
      BY <1>3, Zenon
    <2>5. Extends(e, d, n)
      BY <1>2, <2>1, <2>2, <2>3, <2>4 DEF Extends
    <2> QED
      BY <2>1, <2>2, <2>5
  <1> QED
    BY <1>1, <1>2, <1>3, <1>4, <1>5, <1>6, Zenon

(* d has bs behind the offset at; e is d except for the bytes behind from  *)
(* up to to, and for what it has more.                                     *)
Holds(d, at, bs) ==
  at + Len(bs) <= Len(d) /\ \A i \in 1..Len(bs) : d[at + i] = bs[i]

Kept(e, d, from, to) ==
  Len(d) <= Len(e) /\ \A p \in 1..Len(d) : ~(from < p /\ p <= to) => e[p] = d[p]

LEMMA OverwritesHolds ==
  ASSUME NEW d \in Seq(Nat), NEW e \in Seq(Nat), NEW at \in Nat, NEW bs \in Seq(Nat),
         Overwrites(e, d, at, bs), at + Len(bs) <= Len(d)
  PROVE  Holds(e, at, bs) /\ Kept(e, d, at, at + Len(bs))
  <1>1. PICK k \in Nat, n \in Nat : k = Len(bs) /\ n = Len(d) /\ at + k <= n
    OBVIOUS
  <1>2. Len(e) = n
    BY <1>1 DEF Overwrites
  <1>3. ASSUME NEW i \in 1..k
        PROVE  e[at + i] = bs[i]
    <2>1. PICK p \in Nat : p = at + i
      OBVIOUS
    <2>2. p \in 1..n /\ at < p /\ p <= at + k /\ p - at = i
      BY <1>1, <2>1
    <2>3. e[p] = bs[p - at]
      BY <1>1, <2>2 DEF Overwrites
    <2> QED
      BY <2>1, <2>2, <2>3
  <1>4. \A p \in 1..n : ~(at < p /\ p <= at + k) => e[p] = d[p]
    BY <1>1 DEF Overwrites
  <1> QED
    BY <1>1, <1>2, <1>3, <1>4 DEF Holds, Kept

LEMMA ExtendsKept ==
  ASSUME NEW d \in Seq(Nat), NEW e \in Seq(Nat), NEW n \in Nat, Extends(e, d, n),
         NEW from \in Nat, NEW to \in Nat
  PROVE  Kept(e, d, from, to)
  BY DEF Extends, Kept

LEMMA KeptTrans ==
  ASSUME NEW d \in Seq(Nat), NEW e \in Seq(Nat), NEW f \in Seq(Nat),
         NEW from \in Nat, NEW to \in Nat, Kept(e, d, from, to), Kept(f, e, from, to)
  PROVE  Kept(f, d, from, to)
  <1>1. PICK k \in Nat, n \in Nat, m \in Nat : k = Len(d) /\ n = Len(e) /\ m = Len(f)
    OBVIOUS
  <1>2. k <= n /\ n <= m
    BY <1>1 DEF Kept
  <1>3. \A p \in 1..k : p \in 1..n
    BY <1>2
  <1> QED
    BY <1>1, <1>2, <1>3 DEF Kept

LEMMA KeptWiden ==
  ASSUME NEW d \in Seq(Nat), NEW e \in Seq(Nat), NEW from \in Nat, NEW to \in Nat,
         NEW a \in Nat, NEW b \in Nat, Kept(e, d, a, b),
         (from <= a /\ b <= to) \/ Len(d) <= a
  PROVE  Kept(e, d, from, to)
  BY DEF Kept

LEMMA HoldsKept ==
  ASSUME NEW d \in Seq(Nat), NEW e \in Seq(Nat), NEW from \in Nat, NEW to \in Nat,
         Kept(e, d, from, to), NEW at \in Nat, NEW bs \in Seq(Nat), Holds(d, at, bs),
         at + Len(bs) <= from \/ to <= at
  PROVE  Holds(e, at, bs)
  <1>1. PICK k \in Nat, n \in Nat, m \in Nat : k = Len(bs) /\ n = Len(d) /\ m = Len(e)
    OBVIOUS
  <1>2. at + k <= n /\ n <= m /\ (at + k <= from \/ to <= at)
    BY <1>1 DEF Holds, Kept
  <1>3. ASSUME NEW i \in 1..k
        PROVE  e[at + i] = bs[i]
    <2>1. PICK p \in Nat : p = at + i
      OBVIOUS
    <2>2. 1 <= i /\ i <= k
      OBVIOUS
    <2>3. p \in 1..n /\ ~(from < p /\ p <= to)
      <3>1. p <= n /\ 1 <= p
        BY <1>2, <2>1, <2>2
      <3>2. p <= from \/ to < p
        BY <1>2, <2>1, <2>2
      <3> QED
        BY <3>1, <3>2
    <2>5. e[p] = d[p]
      BY <1>1, <2>3 DEF Kept
    <2>4. d[at + i] = bs[i]
      BY <1>1 DEF Holds
    <2> QED
      BY <2>1, <2>4, <2>5
  <1> QED
    BY <1>1, <1>2, <1>3 DEF Holds

LEMMA HoldsParts ==
  ASSUME NEW d \in Seq(Nat), NEW at \in Nat, NEW a \in Seq(Nat), NEW b \in Seq(Nat),
         Holds(d, at, a \o b)
  PROVE  Holds(d, at, a) /\ Holds(d, at + Len(a), b)
  <1>1. PICK k \in Nat, n \in Nat : k = Len(a) /\ n = Len(b)
    OBVIOUS
  <1>2. PICK c \in Seq(Nat) : /\ IsJoin(c, a, b) /\ Len(c) = Len(a) + Len(b)
                              /\ \A i \in 1..Len(a) : c[i] = a[i]
                              /\ \A i \in 1..Len(b) : c[Len(a) + i] = b[i]
    BY Join
  <1>3. Holds(d, at, c)
    BY <1>2, Zenon DEF IsJoin
  <1>4. Len(c) = k + n /\ at + k + n <= Len(d)
    BY <1>1, <1>2, <1>3 DEF Holds
  <1>5. ASSUME NEW i \in 1..k
        PROVE  d[at + i] = a[i]
    <2>1. i \in 1..Len(c)
      BY <1>4
    <2> QED
      BY <1>1, <1>2, <1>3, <2>1 DEF Holds
  <1>6. ASSUME NEW i \in 1..n
        PROVE  d[at + k + i] = b[i]
    <2>1. PICK j \in Nat : j = k + i
      OBVIOUS
    <2>2. j \in 1..Len(c) /\ at + j = at + k + i
      BY <1>4, <2>1
    <2>3. d[at + j] = c[j]
      BY <1>3, <2>2 DEF Holds
    <2>4. c[k + i] = b[i]
      BY <1>1, <1>2
    <2> QED
      BY <2>1, <2>2, <2>3, <2>4
  <1> QED
    BY <1>1, <1>4, <1>5, <1>6 DEF Holds

-----------------------------------------------------------------------------
LEMMA WriteHolds ==
  ASSUME NEW last \in Nat, NEW w \in Writer(last), NEW at \in Nat, NEW bs \in Seq(Nat),
         at + Len(bs) <= w.len
  PROVE  LET v == WriteAt(w, at, bs)
         IN /\ v \in Writer(last) /\ v.len = w.len
            /\ Holds(Bytes(v), at, bs) /\ Kept(Bytes(v), Bytes(w), at, at + Len(bs))
  <1>1. PICK v \in Writer(last) : /\ v = WriteAt(w, at, bs) /\ v.len = w.len
                                  /\ Overwrites(Bytes(v), Bytes(w), at, bs)
    BY WriteAtFacts
  <1>2. PICK e \in Seq(Nat), d \in Seq(Nat) :
          e = Bytes(v) /\ d = Bytes(w) /\ Len(d) = w.len
    BY BytesFacts
  <1>3. at + Len(bs) <= Len(d)
    BY <1>2
  <1>4. Overwrites(e, d, at, bs)
    BY <1>1, <1>2
  <1>5. Holds(e, at, bs) /\ Kept(e, d, at, at + Len(bs))
    BY <1>3, <1>4, OverwritesHolds
  <1> QED
    BY <1>1, <1>2, <1>5, Zenon

LEMMA AllocKept ==
  ASSUME NEW last \in Nat, NEW w \in Writer(last), NEW n \in Nat
  PROVE  LET v == Alloc(w, n)
         IN /\ v \in Writer(last) /\ v \in Writer(last + n) /\ v.len = w.len + n
            /\ \A from, to \in Nat : Kept(Bytes(v), Bytes(w), from, to)
  <1>1. PICK v \in Writer(last) :
          /\ v = Alloc(w, n) /\ v \in Writer(last + n) /\ v.len = w.len + n
          /\ Extends(Bytes(v), Bytes(w), n)
    BY AllocFacts
  <1>2. PICK e \in Seq(Nat), d \in Seq(Nat) : e = Bytes(v) /\ d = Bytes(w)
    BY BytesFacts
  <1>3. \A from, to \in Nat : Kept(e, d, from, to)
    BY <1>1, <1>2, ExtendsKept
  <1> QED
    BY <1>1, <1>2, <1>3, Zenon

LEMMA SlotHolds ==
  ASSUME NEW last \in Nat, NEW w \in Writer(last), NEW at \in Nat, NEW bs \in Seq(Nat),
         at + 12 <= last
  PROVE  LET v == WriteSlot(w, at, bs)
         IN /\ v \in Writer(last) /\ v.len = w.len + Len(bs)
            /\ Holds(Bytes(v), at, Word(w.len))
            /\ Holds(Bytes(v), at + 4, Word(Len(bs)))
            /\ Holds(Bytes(v), w.len, bs)
            /\ Kept(Bytes(v), Bytes(w), at, at + 12)
  <1>1. PICK n \in Nat, k \in Nat : n = w.len /\ k = Len(bs) /\ last <= n
    <2>1. w.len \in Nat /\ last <= w.len
      BY WriterFacts
    <2> QED
      BY <2>1
  <1>2. PICK a \in Writer(last) : /\ a = Alloc(w, k) /\ a.len = n + k
                                  /\ Kept(Bytes(a), Bytes(w), at, at + 12)
    <2>1. PICK top \in Nat : top = at + 12
      OBVIOUS
    <2>2. /\ Alloc(w, k) \in Writer(last) /\ Alloc(w, k).len = w.len + k
          /\ \A from, to \in Nat : Kept(Bytes(Alloc(w, k)), Bytes(w), from, to)
      BY AllocKept
    <2>3. Kept(Bytes(Alloc(w, k)), Bytes(w), at, top)
      BY <2>2
    <2> QED
      BY <1>1, <2>1, <2>2, <2>3
  <1>3. PICK x \in Seq(Nat), y \in Seq(Nat), z \in Seq(Nat) :
          /\ x = Word(n) /\ y = Word(k) /\ z = Word(1)
          /\ Len(x) = 4 /\ Len(y) = 4 /\ Len(z) = 4
    <2>1. PICK x \in Seq(Nat) : x = Word(n) /\ Len(x) = 4
      BY WordSeq
    <2>2. PICK y \in Seq(Nat) : y = Word(k) /\ Len(y) = 4
      BY WordSeq
    <2>3. PICK z \in Seq(Nat) : z = Word(1) /\ Len(z) = 4
      BY WordSeq
    <2> QED
      BY <2>1, <2>2, <2>3
  <1>4. PICK s \in Seq(Nat) : s = x \o y \o z /\ Len(s) = 12 /\ IsJoin(s, x \o y, z)
    <2>1. PICK u \in Seq(Nat) : IsJoin(u, x, y) /\ Len(u) = Len(x) + Len(y)
      BY Join
    <2>2. PICK s \in Seq(Nat) : IsJoin(s, u, z) /\ Len(s) = Len(u) + Len(z)
      BY Join
    <2>3. Len(s) = 12
      BY <1>3, <2>1, <2>2
    <2>4. u = x \o y
      BY <2>1 DEF IsJoin
    <2>5. s = x \o y \o z
      BY <2>2, <2>4 DEF IsJoin
    <2>6. IsJoin(s, x \o y, z)
      BY <2>2, <2>4
    <2> QED
      BY <2>3, <2>5, <2>6
  <1>5. PICK b \in Writer(last) :
          /\ b = WriteAt(a, at, s) /\ b.len = n + k
          /\ Holds(Bytes(b), at, s) /\ Kept(Bytes(b), Bytes(a), at, at + 12)
    <2>1. at + Len(s) <= a.len
      BY <1>1, <1>2, <1>4
    <2>2. PICK b \in Writer(last) :
            /\ b = WriteAt(a, at, s) /\ b.len = a.len
            /\ Holds(Bytes(b), at, s) /\ Kept(Bytes(b), Bytes(a), at, at + Len(s))
      BY <2>1, WriteHolds
    <2> QED
      BY <1>2, <1>4, <2>2
  <1>6. PICK v \in Writer(last) :
          /\ v = WriteAt(b, n, bs) /\ v.len = n + k
          /\ Holds(Bytes(v), n, bs) /\ Kept(Bytes(v), Bytes(b), n, n + k)
    <2>1. n + Len(bs) <= b.len
      BY <1>1, <1>5
    <2> QED
      BY <1>1, <1>5, <2>1, WriteHolds
  <1>7. PICK W \in Seq(Nat), A \in Seq(Nat), B \in Seq(Nat), V \in Seq(Nat) :
          /\ W = Bytes(w) /\ A = Bytes(a) /\ B = Bytes(b) /\ V = Bytes(v)
          /\ Len(W) = n
    BY <1>1, BytesFacts
  <1>8. PICK end \in Nat : end = at + 12
    OBVIOUS
  <1>9. Holds(B, at, x) /\ Holds(B, at + 4, y)
    <2>1. PICK u \in Seq(Nat) : u = x \o y
      BY ConcatProperties
    <2>2. Holds(B, at, u)
      <3>1. Holds(B, at, u \o z)
        BY <1>4, <1>5, <1>7, <2>1, Zenon
      <3> QED
        BY <3>1, HoldsParts
    <2>3. Holds(B, at, x \o y)
      BY <2>1, <2>2, Zenon
    <2>4. Holds(B, at, x) /\ Holds(B, at + Len(x), y)
      BY <2>3, HoldsParts
    <2> QED
      BY <1>3, <2>4
  <1>10. Holds(V, at, x) /\ Holds(V, at + 4, y)
    <2>1. PICK p \in Nat : p = at + 4
      OBVIOUS
    <2>2. at + Len(x) <= n /\ p + Len(y) <= n
      BY <1>1, <1>3, <2>1
    <2>3. Kept(V, B, n, n + k) /\ n + k \in Nat
      BY <1>6, <1>7
    <2>4. Holds(B, p, y)
      BY <1>9, <2>1
    <2>5. Holds(V, at, x)
      BY <1>9, <2>2, <2>3, HoldsKept
    <2>6. Holds(V, p, y)
      BY <2>2, <2>3, <2>4, HoldsKept
    <2> QED
      BY <2>1, <2>5, <2>6
  <1>11. Kept(V, W, at, end)
    <2>1. Kept(B, W, at, end)
      <3>1. Kept(A, W, at, end) /\ Kept(B, A, at, end)
        BY <1>2, <1>5, <1>7, <1>8
      <3> QED
        BY <3>1, KeptTrans
    <2>2. \A p \in 1..n : ~(n < p /\ p <= n + k)
      BY <1>1
    <2>3. Len(W) <= Len(B) /\ Len(B) <= Len(V)
      BY <1>6, <1>7, <2>1 DEF Kept
    <2>4. \A p \in 1..n : V[p] = B[p]
      <3>1. \A p \in 1..n : p \in 1..Len(B)
        BY <1>7, <2>3
      <3> QED
        BY <1>6, <1>7, <2>2, <3>1 DEF Kept
    <2>5. \A p \in 1..n : ~(at < p /\ p <= end) => B[p] = W[p]
      BY <1>7, <2>1 DEF Kept
    <2>6. Len(W) <= Len(V)
      BY <2>3
    <2> QED
      BY <1>7, <2>4, <2>5, <2>6 DEF Kept
  <1>12. v = WriteSlot(w, at, bs)
    BY <1>1, <1>2, <1>3, <1>4, <1>5, <1>6, Zenon DEF WriteSlot
  <1> QED
    <2>1. Holds(V, at, Word(n)) /\ Holds(V, at + 4, Word(k))
      BY <1>3, <1>10, Zenon
    <2>2. Kept(V, W, at, at + 12)
      BY <1>8, <1>11, Zenon
    <2>3. Holds(V, n, bs)
      BY <1>6, <1>7, Zenon
    <2> QED
      BY <1>1, <1>6, <1>7, <1>12, <2>1, <2>2, <2>3

-----------------------------------------------------------------------------
(* The fields of a struct in a writer.                                     *)

(* What a field takes of the area; one field written.                      *)
Width(f, bs) == IF f.slot THEN 12 ELSE Len(bs)

PutField(w, at, f, bs) == IF f.slot THEN WriteSlot(w, at + f.at, bs)
                          ELSE WriteAt(w, at + f.at, bs)

(* A field of an area holds bs: as they are, or where its slot says,       *)
(* between base and top.                                                   *)
FieldHolds(d, at, f, bs, base, top) ==
  IF f.slot THEN \E off \in Nat : /\ base <= off /\ off + Len(bs) <= top
                                  /\ Holds(d, at + f.at, Word(off))
                                  /\ Holds(d, at + f.at + 4, Word(Len(bs)))
                                  /\ Holds(d, off, bs)
  ELSE Holds(d, at + f.at, bs)

IsField(f) == f.at \in Nat /\ f.slot \in BOOLEAN

LEMMA FieldFacts ==
  ASSUME NEW f, IsField(f), NEW bs \in Seq(Nat)
  PROVE  \E p \in Nat, q \in Nat : /\ p = f.at /\ q = Width(f, bs)
                                   /\ f.slot => q = 12
                                   /\ ~f.slot => q = Len(bs)
  <1>1. PICK p \in Nat : p = f.at
    BY DEF IsField
  <1>2. PICK k \in Nat : k = Len(bs)
    OBVIOUS
  <1>3. CASE f.slot
    <2>1. Width(f, bs) = 12
      BY <1>3 DEF Width
    <2> QED
      BY <1>1, <1>3, <2>1
  <1>4. CASE ~f.slot
    <2>1. Width(f, bs) = k
      BY <1>2, <1>4 DEF Width
    <2> QED
      BY <1>1, <1>2, <1>4, <2>1
  <1> QED
    BY <1>3, <1>4

LEMMA FieldWritten ==
  ASSUME NEW last \in Nat, NEW w \in Writer(last), NEW at \in Nat,
         NEW f, IsField(f), NEW bs \in Seq(Nat), at + f.at + Width(f, bs) <= last
  PROVE  LET v == PutField(w, at, f, bs)
         IN /\ v \in Writer(last) /\ w.len <= v.len
            /\ FieldHolds(Bytes(v), at, f, bs, last, v.len)
            /\ Kept(Bytes(v), Bytes(w), at + f.at, at + f.at + Width(f, bs))
  <1>1. PICK m \in Nat, q \in Nat : /\ m = f.at /\ q = Width(f, bs)
                                    /\ f.slot => q = 12
                                    /\ ~f.slot => q = Len(bs)
    BY FieldFacts
  <1>4. PICK p \in Nat, n \in Nat, k \in Nat :
          p = at + f.at /\ p = at + m /\ n = w.len /\ k = Len(bs) /\ last <= n /\ p + q <= last
    <2>1. PICK p \in Nat : p = at + m
      OBVIOUS
    <2>2. PICK n \in Nat, k \in Nat : n = w.len /\ k = Len(bs) /\ last <= n
      <3>1. w.len \in Nat /\ last <= w.len
        BY WriterFacts
      <3> QED
        BY <3>1
    <2>3. p = at + f.at
      BY <1>1, <2>1, Zenon
    <2>4. p + q <= last
      BY <1>1, <2>3
    <2> QED
      BY <2>1, <2>2, <2>3, <2>4
  <1>2. CASE f.slot
    <2>1. p + 12 <= last
      BY <1>1, <1>2, <1>4
    <2>2. PICK v \in Writer(last) :
            /\ v = WriteSlot(w, p, bs) /\ v.len = n + k
            /\ Holds(Bytes(v), p, Word(n)) /\ Holds(Bytes(v), p + 4, Word(k))
            /\ Holds(Bytes(v), n, bs) /\ Kept(Bytes(v), Bytes(w), p, p + 12)
      BY <1>4, <2>1, SlotHolds
    <2>3. FieldHolds(Bytes(v), at, f, bs, last, v.len)
      <3>1. n + Len(bs) <= v.len
        BY <1>4, <2>2
      <3> QED
        BY <1>4, <1>2, <2>2, <3>1, Zenon DEF FieldHolds
    <2>4. v = PutField(w, at, f, bs) /\ Kept(Bytes(v), Bytes(w), at + f.at, at + f.at + Width(f, bs))
      BY <1>1, <1>2, <1>4, <2>2, Zenon DEF PutField
    <2>5. w.len <= v.len
      BY <1>4, <2>2
    <2> QED
      BY <2>2, <2>3, <2>4, <2>5, Zenon
  <1>3. CASE ~f.slot
    <2>1. p + Len(bs) <= w.len
      BY <1>1, <1>3, <1>4
    <2>2. PICK v \in Writer(last) :
            /\ v = WriteAt(w, p, bs) /\ v.len = w.len
            /\ Holds(Bytes(v), p, bs) /\ Kept(Bytes(v), Bytes(w), p, p + Len(bs))
      BY <2>1, WriteHolds
    <2>3. v = PutField(w, at, f, bs) /\ Kept(Bytes(v), Bytes(w), at + f.at, at + f.at + Width(f, bs))
      BY <1>1, <1>3, <1>4, <2>2, Zenon DEF PutField
    <2>4. FieldHolds(Bytes(v), at, f, bs, last, v.len)
      BY <1>3, <1>4, <2>2, Zenon DEF FieldHolds
    <2>5. w.len <= v.len
      BY <1>4, <2>2
    <2> QED
      BY <2>2, <2>3, <2>4, <2>5, Zenon
  <1> QED
    BY <1>2, <1>3

LEMMA FieldKept ==
  ASSUME NEW d \in Seq(Nat), NEW e \in Seq(Nat), NEW from \in Nat, NEW to \in Nat,
         Kept(e, d, from, to), NEW at \in Nat, NEW f, IsField(f), NEW bs \in Seq(Nat),
         NEW base \in Nat, NEW top \in Nat, NEW up \in Nat, top <= up,
         FieldHolds(d, at, f, bs, base, top), to <= base,
         at + f.at + Width(f, bs) <= from \/ to <= at
  PROVE  FieldHolds(e, at, f, bs, base, up)
  <1>1. PICK m \in Nat, n \in Nat : /\ m = f.at /\ n = Width(f, bs)
                                    /\ f.slot => n = 12
                                    /\ ~f.slot => n = Len(bs)
    BY FieldFacts
  <1>2. PICK p \in Nat, q \in Nat, k \in Nat : p = at + m /\ q = p + 4 /\ k = Len(bs)
    <2>1. PICK p \in Nat : p = at + m
      OBVIOUS
    <2>2. PICK q \in Nat : q = p + 4
      OBVIOUS
    <2>3. PICK k \in Nat : k = Len(bs)
      OBVIOUS
    <2> QED
      BY <2>1, <2>2, <2>3
  <1>3. p = at + f.at /\ q = at + f.at + 4
    BY <1>1, <1>2, Zenon
  <1>4. p + n <= from \/ to <= at
    BY <1>1, <1>3
  <1>5. CASE f.slot
    <2>1. PICK off \in Nat : /\ base <= off /\ off + k <= top
                             /\ Holds(d, p, Word(off)) /\ Holds(d, q, Word(k))
                             /\ Holds(d, off, bs)
      BY <1>2, <1>3, <1>5, Zenon DEF FieldHolds
    <2>2. PICK x \in Seq(Nat) : x = Word(off) /\ Len(x) = 4
      BY WordSeq
    <2>3. PICK y \in Seq(Nat) : y = Word(k) /\ Len(y) = 4
      BY WordSeq
    <2>4. (p + Len(x) <= from \/ to <= p) /\ (q + Len(y) <= from \/ to <= q)
      <3>1. p + 12 <= from \/ to <= at
        BY <1>1, <1>4, <1>5
      <3>2. (p + 4 <= from \/ to <= p) /\ (q + 4 <= from \/ to <= q)
        BY <1>2, <3>1
      <3> QED
        BY <2>2, <2>3, <3>2
    <2>5. to <= off /\ off + k <= up
      BY <2>1
    <2>6. Holds(d, p, x) /\ Holds(d, q, y)
      BY <2>1, <2>2, <2>3
    <2>7. Holds(e, p, x)
      BY <2>4, <2>6, HoldsKept
    <2>8. Holds(e, q, y)
      BY <2>4, <2>6, HoldsKept
    <2>9. Holds(e, off, bs)
      BY <2>1, <2>5, HoldsKept
    <2>10. Holds(e, p, Word(off)) /\ Holds(e, q, Word(k))
      BY <2>2, <2>3, <2>7, <2>8
    <2> QED
      BY <1>2, <1>3, <1>5, <2>1, <2>5, <2>9, <2>10, Zenon DEF FieldHolds
  <1>6. CASE ~f.slot
    <2>1. Holds(d, p, bs)
      BY <1>3, <1>6, Zenon DEF FieldHolds
    <2>2. p + Len(bs) <= from \/ to <= p
      <3>1. to <= at => to <= p
        BY <1>2
      <3>2. n = Len(bs)
        BY <1>1, <1>6
      <3> QED
        BY <1>4, <3>1, <3>2
    <2>3. Holds(e, p, bs)
      BY <2>1, <2>2, HoldsKept
    <2> QED
      BY <1>3, <1>6, <2>3, Zenon DEF FieldHolds
  <1> QED
    BY <1>5, <1>6

-----------------------------------------------------------------------------
(* The fields lie within the area, one behind the other.                   *)
End(x, f) == f.at + Width(f, x[f.name])

Laid(x, fields, size) ==
  /\ Len(fields) \in Nat
  /\ \A i \in 1..Len(fields) :
       /\ IsField(fields[i]) /\ x[fields[i].name] \in Seq(Nat)
       /\ 4 <= fields[i].at /\ End(x, fields[i]) <= size
       /\ i > 1 => End(x, fields[i - 1]) <= fields[i].at

Puts(value, x, w, at, size, fields) ==
  /\ value[0] = WriteAt(w, at, Word(size))
  /\ \A i \in 1..Len(fields) :
       value[i] = PutField(value[i - 1], at, fields[i], x[fields[i].name])

Sits(x, f, size) ==
  \E bs \in Seq(Nat), p \in Nat, q \in Nat :
    /\ bs = x[f.name] /\ p = f.at /\ q = Width(f, bs)
    /\ End(x, f) = p + q /\ 4 <= p /\ p + q <= size

LEMMA LaidField ==
  ASSUME NEW x, NEW size, NEW fields, Laid(x, fields, size), NEW i \in 1..Len(fields)
  PROVE  IsField(fields[i]) /\ Sits(x, fields[i], size)
  <1>1. PICK f : f = fields[i]
    OBVIOUS
  <1>2. IsField(f) /\ x[f.name] \in Seq(Nat) /\ 4 <= f.at /\ End(x, f) <= size
    BY <1>1, Zenon DEF Laid
  <1>3. PICK bs \in Seq(Nat) : bs = x[f.name]
    BY <1>2
  <1>4. PICK p \in Nat, q \in Nat : p = f.at /\ q = Width(f, bs)
    BY <1>2, FieldFacts
  <1>5. End(x, f) = p + q
    BY <1>3, <1>4, Zenon DEF End
  <1>6. 4 <= p /\ p + q <= size
    BY <1>2, <1>4, <1>5, Zenon
  <1>7. Sits(x, f, size)
    BY <1>3, <1>4, <1>5, <1>6 DEF Sits
  <1> QED
    BY <1>1, <1>2, <1>7, Zenon

LEMMA PutSteps ==
  ASSUME NEW size \in Nat, NEW at \in Nat, 4 <= size, NEW w \in Writer(at + size), NEW x,
         NEW fields, Laid(x, fields, size)
  PROVE  \E value : /\ Puts(value, x, w, at, size, fields)
                    /\ Put(x, w, at, size, fields) = value[Len(fields)]
                    /\ \A i \in 0..Len(fields) : value[i] \in Writer(at + size)
  <1> DEFINE E(i, u) == PutField(u, at, fields[i], x[fields[i].name])
             first == WriteAt(w, at, Word(size))
  <1>0. PICK last \in Nat : last = at + size
    OBVIOUS
  <1>1. PICK V : last = at + size /\ V = Writer(last)
    BY <1>0
  <1>2. PICK n \in Nat : n = Len(fields)
    BY DEF Laid
  <1>3. first \in V
    <2>1. PICK s \in Seq(Nat) : s = Word(size) /\ Len(s) = 4
      BY WordSeq
    <2>2. at + Len(s) <= w.len
      <3>1. w.len \in Nat /\ last <= w.len
        BY <1>1, WriterFacts
      <3> QED
        BY <1>1, <2>1, <3>1
    <2>3. WriteAt(w, at, s) \in Writer(last)
      BY <1>1, <2>2, WriteHolds
    <2> QED
      BY <1>1, <2>1, <2>3
  <1>4. \A i \in 1..n, u \in V : E(i, u) \in V
    <2> SUFFICES ASSUME NEW i \in 1..n, NEW u \in V
                 PROVE E(i, u) \in V
      OBVIOUS
    <2>1. i \in 1..Len(fields)
      BY <1>2
    <2>2. IsField(fields[i])
      BY <2>1, LaidField
    <2>3. PICK bs \in Seq(Nat), p \in Nat, q \in Nat :
            /\ bs = x[fields[i].name] /\ p = fields[i].at /\ q = Width(fields[i], bs)
            /\ p + q <= size
      <3>1. Sits(x, fields[i], size)
        BY <2>1, LaidField
      <3> QED
        BY <3>1 DEF Sits
    <2>4. at + fields[i].at + Width(fields[i], bs) <= last
      <3>1. at + p + q <= last
        BY <1>1, <2>3
      <3> QED
        BY <2>3, <3>1, Zenon
    <2>5. PutField(u, at, fields[i], bs) \in Writer(last)
      BY <1>1, <2>2, <2>4, FieldWritten
    <2> QED
      BY <1>1, <2>3, <2>5
  <1>5. PICK step \in Steps(V, n) : \A i \in 1..n, u \in V : step[i][u] = E(i, u)
    <2> DEFINE g == [i \in 1..n |-> [u \in V |-> E(i, u)]]
    <2> HIDE DEF E
    <2>1. g \in [1..n -> [V -> V]] /\ \A i \in 1..n, u \in V : g[i][u] = E(i, u)
      BY <1>4
    <2> HIDE DEF g
    <2> QED
      BY <2>1 DEF Steps
  <1> HIDE DEF first
  <1>6. PICK g : Solves(g, V, n, first, step)
    BY <1>3, StepsExist
  <1>7. /\ g \in [0..n -> V] /\ g[0] = first
        /\ \A i \in 1..n : g[i] = step[i][g[i - 1]]
    BY <1>6 DEF Solves
  <1>8. ASSUME NEW i \in 1..n
        PROVE  g[i] = E(i, g[i - 1])
    <2>1. g[i - 1] \in V
      BY <1>7
    <2> HIDE DEF E
    <2> QED
      BY <1>5, <1>7, <2>1
  <1>9. g = [i \in 0..n |->
               IF i = 0 THEN first
               ELSE LET f == fields[i]
                    IN IF f.slot THEN WriteSlot(g[i - 1], at + f.at, x[f.name])
                       ELSE WriteAt(g[i - 1], at + f.at, x[f.name])]
    <2>1. \A i \in 1..n :
            g[i] = LET f == fields[i]
                   IN IF f.slot THEN WriteSlot(g[i - 1], at + f.at, x[f.name])
                      ELSE WriteAt(g[i - 1], at + f.at, x[f.name])
      BY <1>8, Zenon DEF PutField
    <2>2. \A i \in 0..n : i = 0 \/ i \in 1..n
      OBVIOUS
    <2> QED
      BY <1>7, <2>1, <2>2, Zenon
  <1>10. PICK value :
          /\ value = [i \in 0..n |->
               IF i = 0 THEN first
               ELSE LET f == fields[i]
                    IN IF f.slot THEN WriteSlot(value[i - 1], at + f.at, x[f.name])
                       ELSE WriteAt(value[i - 1], at + f.at, x[f.name])]
          /\ Put(x, w, at, size, fields) = value[n]
    BY <1>2, <1>9, Zenon DEF Put, first
  <1>11. value[0] = first /\ \A i \in 1..n : value[i] = E(i, value[i - 1])
    <2>1. \A i \in 0..n : value[i] =
               IF i = 0 THEN first
               ELSE LET f == fields[i]
                    IN IF f.slot THEN WriteSlot(value[i - 1], at + f.at, x[f.name])
                       ELSE WriteAt(value[i - 1], at + f.at, x[f.name])
      BY <1>10, Zenon
    <2>2. 0 \in 0..n /\ \A i \in 1..n : i \in 0..n /\ i # 0
      OBVIOUS
    <2> QED
      BY <2>1, <2>2, Zenon DEF PutField
  <1>12. \A i \in 0..n : value[i] \in V
    <2>1. Keeps(value, V, n)
      <3> HIDE DEF E
      <3> QED
        BY <1>3, <1>4, <1>11 DEF Keeps
    <2> QED
      BY <2>1, StepsStay
  <1>13. Puts(value, x, w, at, size, fields)
    BY <1>2, <1>11, Zenon DEF Puts, first
  <1> QED
    BY <1>1, <1>2, <1>10, <1>12, <1>13, Zenon

(* The size word and the first i fields are written, the rest of the bytes *)
(* is as it was.                                                           *)
PutInv(v, i, x, w, at, size, fields) ==
  /\ v \in Writer(at + size) /\ w.len <= v.len
  /\ Holds(Bytes(v), at, Word(size))
  /\ Kept(Bytes(v), Bytes(w), at, at + size)
  /\ \A j \in 1..i :
       /\ FieldHolds(Bytes(v), at, fields[j], x[fields[j].name], at + size, v.len)
       /\ End(x, fields[j]) <= End(x, fields[i])

LEMMA PutStarts ==
  ASSUME NEW size \in Nat, NEW at \in Nat, 4 <= size, NEW w \in Writer(at + size), NEW x,
         NEW fields
  PROVE  PutInv(WriteAt(w, at, Word(size)), 0, x, w, at, size, fields)
  <1>1. PICK last \in Nat, s \in Seq(Nat) : last = at + size /\ s = Word(size) /\ Len(s) = 4
    <2>1. Word(size) \in Seq(Nat) /\ Len(Word(size)) = 4
      BY WordSeq
    <2> QED
      BY <2>1
  <1>2. w \in Writer(last) /\ w.len \in Nat /\ last <= w.len
    BY <1>1, WriterFacts
  <1>3. at + Len(s) <= w.len
    BY <1>1, <1>2
  <1>4. PICK v \in Writer(last) :
          /\ v = WriteAt(w, at, s) /\ v.len = w.len
          /\ Holds(Bytes(v), at, s) /\ Kept(Bytes(v), Bytes(w), at, at + Len(s))
    BY <1>2, <1>3, WriteHolds
  <1>5. Kept(Bytes(v), Bytes(w), at, last)
    <2>1. PICK e \in Seq(Nat), d \in Seq(Nat), b \in Nat :
            e = Bytes(v) /\ d = Bytes(w) /\ b = at + Len(s) /\ b <= last
      <3>1. at + Len(s) \in Nat /\ at + Len(s) <= last
        BY <1>1
      <3>2. Bytes(v) \in Seq(Nat) /\ Bytes(w) \in Seq(Nat)
        BY <1>2, BytesFacts
      <3> QED
        BY <3>1, <3>2
    <2>2. Kept(e, d, at, b)
      BY <1>4, <2>1
    <2>3. at <= at
      OBVIOUS
    <2>4. Kept(e, d, at, last)
      BY <2>1, <2>2, <2>3, KeptWiden
    <2> QED
      BY <2>1, <2>4
  <1>6. \A j \in 1..0 : FALSE
    OBVIOUS
  <1>7. w.len <= v.len
    BY <1>2, <1>4
  <1> QED
    BY <1>1, <1>4, <1>5, <1>6, <1>7, Zenon DEF PutInv

LEMMA PutGoesOn ==
  ASSUME NEW size \in Nat, NEW at \in Nat, NEW w \in Writer(at + size), NEW x,
         NEW fields, Laid(x, fields, size), NEW i \in 1..Len(fields),
         NEW u, PutInv(u, i - 1, x, w, at, size, fields)
  PROVE  PutInv(PutField(u, at, fields[i], x[fields[i].name]), i, x, w, at, size, fields)
  <1>1. PICK last \in Nat : last = at + size
    OBVIOUS
  <1>12. PICK f : f = fields[i]
    OBVIOUS
  <1>2. PICK bs \in Seq(Nat), p \in Nat, q \in Nat :
          /\ f = fields[i] /\ bs = x[fields[i].name] /\ IsField(f)
          /\ p = f.at /\ q = Width(f, bs) /\ End(x, f) = p + q
          /\ 4 <= p /\ p + q <= size
    <2>1. IsField(f) /\ Sits(x, f, size)
      BY <1>12, LaidField
    <2> QED
      BY <1>12, <2>1 DEF Sits
  <1>3. PICK a \in Nat, z \in Nat :
          a = at + f.at /\ z = at + f.at + Width(f, bs) /\ z <= last /\ at + 4 <= a /\ a <= z
          /\ a = at + p
    <2>1. 4 <= p /\ p + q <= size
      BY <1>2, Zenon
    <2>2. PICK a \in Nat, z \in Nat : a = at + p /\ z = at + p + q
      OBVIOUS
    <2>3. z <= last /\ at + 4 <= a /\ a <= z
      BY <1>1, <2>1, <2>2
    <2>4. a = at + f.at /\ z = at + f.at + Width(f, bs)
      BY <1>2, <2>2, Zenon
    <2> QED
      BY <2>2, <2>3, <2>4, Zenon
  <1>4. u \in Writer(last) /\ w \in Writer(last)
    BY <1>1 DEF PutInv
  <1>5. PICK v \in Writer(last) :
          /\ v = PutField(u, at, f, bs) /\ u.len <= v.len
          /\ FieldHolds(Bytes(v), at, f, bs, last, v.len)
          /\ Kept(Bytes(v), Bytes(u), a, z)
    <2>1. at + f.at + Width(f, bs) <= last /\ IsField(f)
      BY <1>2, <1>3, Zenon
    <2>2. PICK v \in Writer(last) :
            /\ v = PutField(u, at, f, bs) /\ u.len <= v.len
            /\ FieldHolds(Bytes(v), at, f, bs, last, v.len)
            /\ Kept(Bytes(v), Bytes(u), at + f.at, at + f.at + Width(f, bs))
      BY <1>4, <2>1, FieldWritten
    <2> QED
      BY <1>3, <2>2
  <1>6. PICK d \in Seq(Nat), e \in Seq(Nat), b \in Seq(Nat), top \in Nat, up \in Nat :
          /\ d = Bytes(u) /\ e = Bytes(v) /\ b = Bytes(w) /\ top = u.len /\ up = v.len
          /\ top <= up /\ w.len <= top /\ w.len \in Nat
    <2>1. Bytes(u) \in Seq(Nat) /\ Bytes(v) \in Seq(Nat) /\ Bytes(w) \in Seq(Nat)
      BY <1>4, <1>5, BytesFacts
    <2>2. u.len \in Nat /\ v.len \in Nat /\ w.len \in Nat
      BY <1>4, <1>5, WriterFacts
    <2>3. u.len <= v.len /\ w.len <= u.len
      BY <1>5, Zenon DEF PutInv
    <2> QED
      BY <2>1, <2>2, <2>3
  <1>7. Kept(e, d, a, z)
    BY <1>5, <1>6
  <1>8. Holds(e, at, Word(size))
    <2>1. PICK s \in Seq(Nat) : s = Word(size) /\ Len(s) = 4
      BY WordSeq
    <2>2. Holds(d, at, s)
      BY <1>6, <2>1, Zenon DEF PutInv
    <2>3. at + Len(s) <= a
      BY <1>3, <2>1
    <2>4. Holds(e, at, s)
      BY <1>7, <2>2, <2>3, HoldsKept
    <2> QED
      BY <2>1, <2>4
  <1>9. Kept(e, b, at, last)
    <2>1. Kept(d, b, at, last)
      BY <1>1, <1>6, Zenon DEF PutInv
    <2>2. Kept(e, d, at, last)
      <3>1. at <= a /\ z <= last
        BY <1>3
      <3> QED
        BY <1>7, <3>1, KeptWiden
    <2> QED
      BY <2>1, <2>2, KeptTrans
  <1>10. ASSUME NEW j \in 1..i
         PROVE  FieldHolds(e, at, fields[j], x[fields[j].name], last, up) /\ End(x, fields[j]) <= End(x, f)
    <2>1. CASE j = i
      <3>1. FieldHolds(e, at, f, bs, last, up)
        BY <1>5, <1>6
      <3>2. p + q <= p + q
        OBVIOUS
      <3>3. End(x, f) <= End(x, f)
        BY <1>2, <3>2, Zenon
      <3> QED
        BY <1>2, <2>1, <3>1, <3>3, Zenon
    <2>2. CASE j # i
      <3>1. j \in 1..(i - 1) /\ i > 1 /\ i - 1 \in 1..Len(fields) /\ j \in 1..Len(fields)
        <4>1. Len(fields) \in Nat
          BY DEF Laid
        <4> QED
          BY <2>2, <4>1
      <3>2. /\ FieldHolds(d, at, fields[j], x[fields[j].name], last, top)
            /\ End(x, fields[j]) <= End(x, fields[i - 1])
        BY <1>1, <1>6, <3>1, Zenon DEF PutInv
      <3>3. End(x, fields[i - 1]) <= f.at
        BY <1>2, <3>1, Zenon DEF Laid
      <3>11. PICK g, h : g = fields[j] /\ h = fields[i - 1]
        OBVIOUS
      <3>4. PICK cs \in Seq(Nat), m \in Nat, n \in Nat :
              /\ g = fields[j] /\ cs = x[fields[j].name] /\ IsField(g)
              /\ m = g.at /\ n = Width(g, cs) /\ End(x, g) = m + n
        <4>1. IsField(g) /\ Sits(x, g, size)
          BY <3>1, <3>11, LaidField
        <4> QED
          BY <3>11, <4>1 DEF Sits
      <3>5. PICK k \in Nat, l \in Nat : h = fields[i - 1] /\ End(x, h) = k + l
        <4>1. Sits(x, h, size)
          BY <3>1, <3>11, LaidField
        <4> QED
          BY <3>11, <4>1 DEF Sits
      <3>6. m + n <= p
        <4>1. m + n <= k + l
          BY <3>2, <3>4, <3>5, Zenon
        <4>2. k + l <= p
          BY <1>2, <3>3, <3>5, Zenon
        <4> QED
          BY <4>1, <4>2
      <3>7. at + g.at + Width(g, cs) <= a
        <4>1. at + m + n <= a
          BY <1>3, <3>6
        <4> QED
          BY <3>4, <4>1, Zenon
      <3>8. FieldHolds(d, at, g, cs, last, top)
        BY <3>2, <3>4
      <3>9. FieldHolds(e, at, g, cs, last, up)
        <4>1. top <= up /\ z <= last /\ IsField(g)
          BY <1>3, <1>6, <3>4, Zenon
        <4> QED
          BY <1>7, <3>7, <3>8, <4>1, FieldKept
      <3>10. End(x, g) <= End(x, f)
        <4>1. m + n <= p + q
          BY <3>6
        <4> QED
          BY <1>2, <3>4, <4>1, Zenon
      <3> QED
        BY <3>4, <3>9, <3>10
    <2> QED
      BY <2>1, <2>2
  <1>11. w.len <= v.len
    <2>1. PICK low \in Nat : low = w.len
      BY <1>6
    <2>2. low <= top /\ top <= up
      BY <1>6, <2>1
    <2>3. low <= up
      BY <2>2
    <2> QED
      BY <1>6, <2>1, <2>3, Zenon
  <1> QED
    BY <1>1, <1>2, <1>5, <1>6, <1>8, <1>9, <1>10, <1>11, Zenon DEF PutInv

LEMMA PutFacts ==
  ASSUME NEW size \in Nat, NEW at \in Nat, 4 <= size, NEW w \in Writer(at + size), NEW x,
         NEW fields, Laid(x, fields, size)
  PROVE  PutInv(Put(x, w, at, size, fields), Len(fields), x, w, at, size, fields)
  <1>1. PICK n \in Nat : n = Len(fields)
    BY DEF Laid
  <1>2. PICK value : /\ Puts(value, x, w, at, size, fields)
                     /\ Put(x, w, at, size, fields) = value[n]
    BY <1>1, PutSteps
  <1> DEFINE S == {i \in 0..n : PutInv(value[i], i, x, w, at, size, fields)}
  <1>3. 0 \in S
    <2>1. PutInv(value[0], 0, x, w, at, size, fields)
      BY <1>2, PutStarts DEF Puts
    <2> QED
      BY <1>1, <2>1
  <1>4. ASSUME NEW i \in 1..n, i - 1 \in S
        PROVE  i \in S
    <2>1. PutInv(value[i - 1], i - 1, x, w, at, size, fields)
      BY <1>4
    <2>2. value[i] = PutField(value[i - 1], at, fields[i], x[fields[i].name])
      BY <1>1, <1>2 DEF Puts
    <2>3. PutInv(value[i], i, x, w, at, size, fields)
      BY <1>1, <2>1, <2>2, PutGoesOn
    <2> QED
      BY <2>3
  <1>5. \A i \in 0..n : i \in S
    <2> HIDE DEF S
    <2> QED
      BY <1>3, <1>4, Upward
  <1>6. n \in S
    <2>1. n \in 0..n
      OBVIOUS
    <2> QED
      BY <1>5, <2>1
  <1> QED
    BY <1>1, <1>2, <1>6

-----------------------------------------------------------------------------
(* The fields of a struct in a reader.                                     *)

(* What was written is read: a word, bytes, and a field.                   *)
LEMMA WordRead ==
  ASSUME NEW d \in Seq(Nat), NEW at \in Nat, NEW n \in Nat, Small(n),
         Holds(d, at, Word(n))
  PROVE  WordAt(d, at) = n
  <1>1. PICK s \in Seq(Nat) : s = Word(n) /\ Len(s) = 4
    BY WordSeq
  <1>2. s[1] + 256 * s[2] + 65536 * s[3] = n
    BY <1>1, WordFacts
  <1>3. \A i \in 1..4 : d[at + i] = s[i]
    <2>1. Holds(d, at, s)
      BY <1>1
    <2> QED
      BY <1>1, <2>1 DEF Holds
  <1>4. d[at + 1] = s[1] /\ d[at + 2] = s[2] /\ d[at + 3] = s[3]
    BY <1>3
  <1> QED
    BY <1>2, <1>4 DEF WordAt

LEMMA HoldsCut ==
  ASSUME NEW d \in Seq(Nat), NEW at \in Nat, NEW bs \in Seq(Nat), Holds(d, at, bs)
  PROVE  SubSeq(d, at + 1, at + Len(bs)) = bs
  <1>1. PICK k \in Nat : k = Len(bs)
    OBVIOUS
  <1>2. PICK f \in Nat : f = at + 1
    OBVIOUS
  <1>3. PICK n \in Nat : n = at + k
    OBVIOUS
  <1>4. n <= Len(d) /\ \A i \in 1..k : d[at + i] = bs[i]
    BY <1>1, <1>3 DEF Holds
  <1>5. 1 <= f /\ f <= n + 1
    BY <1>2, <1>3
  <1>6. PICK c \in Seq(Nat) : /\ IsPart(c, d, f, n) /\ Len(c) = n - f + 1
                              /\ \A i \in 1..Len(c) : c[i] = d[f + i - 1]
    BY <1>4, <1>5, Cut
  <1>7. Len(c) = k /\ \A i \in 1..k : f + i - 1 = at + i
    <2>1. n - f + 1 = k /\ \A i \in 1..k : f + i - 1 = at + i
      BY <1>2, <1>3
    <2>2. Len(c) = n - f + 1
      BY <1>6, Zenon
    <2> QED
      BY <2>1, <2>2
  <1>8. \A i \in 1..k : c[i] = bs[i]
    BY <1>4, <1>6, <1>7
  <1>9. c = bs
    BY <1>1, <1>7, <1>8, SeqEqual
  <1> QED
    BY <1>1, <1>2, <1>3, <1>6, <1>9 DEF IsPart

LEMMA SliceRead ==
  ASSUME NEW d \in Seq(Nat), NEW at \in Nat, NEW off \in Nat, NEW bs \in Seq(Nat), NEW n \in Nat,
         Holds(d, at, Word(off)), Holds(d, at + 4, Word(Len(bs))), Holds(d, off, bs),
         NEW top \in Nat, Small(top), off + Len(bs) <= top, Len(bs) <= n
  PROVE  SliceAt(d, at, n) = bs
  <1>1. PICK k \in Nat : k = Len(bs)
    OBVIOUS
  <1>2. PICK q \in Nat : q = at + 4
    OBVIOUS
  <1>3. Small(off) /\ Small(k)
    <2>1. off <= top /\ k <= top
      BY <1>1
    <2> QED
      BY <2>1, SmallBelow
  <1>4. WordAt(d, at) = off
    BY <1>3, WordRead
  <1>5. WordAt(d, q) = k
    BY <1>1, <1>2, <1>3, WordRead
  <1>6. off + k <= Len(d) /\ k <= n
    BY <1>1 DEF Holds
  <1>7. AtMost(k, n) = k
    BY <1>6 DEF AtMost
  <1>8. SubSeq(d, off + 1, off + k) = bs
    BY <1>1, HoldsCut
  <1>9. IsValidOffset(d, off, k)
    BY <1>6 DEF IsValidOffset
  <1> QED
    BY <1>2, <1>4, <1>5, <1>7, <1>8, <1>9, Zenon DEF SliceAt

LEMMA FieldRead ==
  ASSUME NEW d \in Seq(Nat), NEW at \in Nat, NEW size \in Nat, NEW f, IsField(f), f.n \in Nat,
         NEW bs \in Seq(Nat), NEW base \in Nat, NEW top \in Nat, Small(top),
         WordAt(d, at) = size, f.at + (IF f.slot THEN 12 ELSE f.n) <= size,
         f.slot => Len(bs) <= f.n, ~f.slot => Len(bs) = f.n,
         FieldHolds(d, at, f, bs, base, top)
  PROVE  Get(d, at, f) = bs
  <1>1. PICK n \in Nat, m \in Nat : n = f.n /\ m = f.at
    BY DEF IsField
  <1>2. PICK p \in Nat : p = at + m
    OBVIOUS
  <1>3. p = at + f.at
    BY <1>1, <1>2, Zenon
  <1>4. CASE f.slot
    <2>1. PICK off \in Nat :
            /\ off + Len(bs) <= top /\ Holds(d, p, Word(off))
            /\ Holds(d, p + 4, Word(Len(bs))) /\ Holds(d, off, bs)
      BY <1>3, <1>4, Zenon DEF FieldHolds
    <2>3. Len(bs) <= n
      BY <1>1, <1>4
    <2>4. SliceAt(d, p, n) = bs
      BY <2>1, <2>3, SliceRead
    <2>5. f.at + (IF f.slot THEN 12 ELSE f.n) <= WordAt(d, at)
      OBVIOUS
    <2> QED
      BY <1>1, <1>3, <1>4, <2>4, <2>5, Zenon DEF Get
  <1>5. CASE ~f.slot
    <2>1. Holds(d, p, bs) /\ Len(bs) = n
      BY <1>1, <1>3, <1>5, Zenon DEF FieldHolds
    <2>2. SubSeq(d, p + 1, p + n) = bs
      BY <2>1, HoldsCut
    <2>3. f.at + (IF f.slot THEN 12 ELSE f.n) <= WordAt(d, at)
      OBVIOUS
    <2> QED
      BY <1>1, <1>3, <1>5, <2>2, <2>3, Zenon DEF Get
  <1> QED
    BY <1>4, <1>5

(* What a view has of a field is what the table has of it.                 *)
Shows(f, g, size) ==
  /\ IsField(f) /\ f.n \in Nat /\ f.at + (IF f.slot THEN 12 ELSE f.n) <= size
  /\ g.at = f.at /\ g.slot = f.slot

Fits(view, fields, size) ==
  /\ Len(fields) \in Nat
  /\ \A name \in DOMAIN view : \E j \in 1..Len(fields) :
       fields[j].name = name /\ Shows(view[name], fields[j], size)

(* Every field of x is held.                                               *)
AllHold(d, at, x, fields, base, top) ==
  \A j \in 1..Len(fields) : FieldHolds(d, at, fields[j], x[fields[j].name], base, top)

LEMMA ReadFacts ==
  ASSUME NEW d \in Seq(Nat), NEW at \in Nat, NEW size \in Nat, 8 <= size, at + size <= Len(d),
         Small(size), Holds(d, at, Word(size)),
         NEW base \in Nat, NEW top \in Nat, Small(top),
         NEW view, NEW x \in Values(view), NEW fields,
         Fits(view, fields, size), AllHold(d, at, x, fields, base, top)
  PROVE  Read(d, at, view) = x
  <1>1. WordAt(d, at) = size
    BY WordRead
  <1>2. Valid(d, at)
    <2>1. at + 8 <= Len(d)
      OBVIOUS
    <2> QED
      BY <1>1, <2>1 DEF Valid, IsValidOffset
  <1>3. ASSUME NEW name \in DOMAIN view
        PROVE  Get(d, at, view[name]) = x[name]
    <2>7. PICK f : f = view[name]
      OBVIOUS
    <2>1. PICK bs \in Seq(Nat) : f = view[name] /\ bs = x[name]
      BY <2>7 DEF Values
    <2>2. PICK g : g.name = name /\ Shows(f, g, size) /\ FieldHolds(d, at, g, bs, base, top)
      BY <2>1 DEF Fits, AllHold
    <2>3. FieldHolds(d, at, f, bs, base, top)
      BY <2>2, Zenon DEF FieldHolds, Shows
    <2>4. /\ f.slot => Len(bs) <= f.n
          /\ ~f.slot => Len(bs) = f.n
      BY <2>1, Zenon DEF Values
    <2>5. IsField(f) /\ f.n \in Nat /\ f.at + (IF f.slot THEN 12 ELSE f.n) <= size
      BY <2>2, Zenon DEF Shows
    <2>6. Get(d, at, f) = bs
      BY <1>1, <2>3, <2>4, <2>5, FieldRead
    <2> QED
      BY <2>1, <2>6
  <1>4. Read(d, at, view) = [name \in DOMAIN view |-> x[name]]
    BY <1>2, <1>3, Zenon DEF Read
  <1>5. x = [name \in DOMAIN view |-> x[name]]
    BY DEF Values
  <1> QED
    BY <1>4, <1>5

(* A struct written and read again.                                        *)
LEMMA PutRead ==
  ASSUME NEW size \in Nat, NEW at \in Nat, 8 <= size, Small(size),
         NEW w \in Writer(at + size), NEW view, NEW x \in Values(view), NEW fields,
         Laid(x, fields, size), Fits(view, fields, size),
         NEW v, v = Put(x, w, at, size, fields), Small(Len(Bytes(v)))
  PROVE  Read(Bytes(v), at, view) = x
  <1>1. PICK last \in Nat : last = at + size
    OBVIOUS
  <1>2. PutInv(v, Len(fields), x, w, at, size, fields)
    BY PutFacts
  <1>3. v \in Writer(last)
    BY <1>1, <1>2 DEF PutInv
  <1>4. PICK d \in Seq(Nat), n \in Nat : d = Bytes(v) /\ n = v.len /\ Len(d) = n /\ last <= n
    <2>1. Bytes(v) \in Seq(Nat) /\ Len(Bytes(v)) = v.len
      BY <1>3, BytesFacts
    <2>2. v.len \in Nat /\ last <= v.len
      BY <1>3, WriterFacts
    <2> QED
      BY <2>1, <2>2
  <1>5. Holds(d, at, Word(size))
    BY <1>2, <1>4, Zenon DEF PutInv
  <1>6. AllHold(d, at, x, fields, last, n)
    BY <1>1, <1>2, <1>4, Zenon DEF PutInv, AllHold
  <1>7. at + size <= Len(d) /\ Small(n)
    BY <1>1, <1>4
  <1>8. Read(d, at, view) = x
    BY <1>5, <1>6, <1>7, ReadFacts
  <1> QED
    BY <1>4, <1>8

LEMMA NewWriterFacts ==
  /\ NewWriter \in Writer(0) /\ NewWriter.len = 0
  /\ \A n \in Nat : Alloc(NewWriter, n) \in Writer(n) /\ Alloc(NewWriter, n).len = n
  <1>1. NewWriter \in Writer(0) /\ NewWriter.len = 0
    BY DEF NewWriter, Writer
  <1>2. ASSUME NEW n \in Nat
        PROVE  Alloc(NewWriter, n) \in Writer(n) /\ Alloc(NewWriter, n).len = n
    <2>1. Alloc(NewWriter, n) \in Writer(0 + n) /\ Alloc(NewWriter, n).len = 0 + n
      BY <1>1, AllocFacts
    <2>2. 0 + n = n
      OBVIOUS
    <2> QED
      BY <2>1, <2>2
  <1> QED
    BY <1>1, <1>2

LEMMA RootRead ==
  ASSUME NEW size \in Nat, NEW alloc \in Nat, 8 <= size, size <= alloc, Small(size),
         NEW view, NEW x \in Values(view), NEW fields,
         Laid(x, fields, size), Fits(view, fields, size),
         NEW v, v = Put(x, Alloc(NewWriter, alloc), 0, size, fields), Small(Len(Bytes(v)))
  PROVE  Read(Bytes(v), 0, view) = x
  <1>1. PICK w : w = Alloc(NewWriter, alloc)
    OBVIOUS
  <1>2. w \in Writer(0 + size)
    <2>1. w \in Writer(alloc)
      BY <1>1, NewWriterFacts
    <2>2. 0 + size <= alloc
      OBVIOUS
    <2> QED
      BY <2>1, <2>2 DEF Writer
  <1>3. 0 \in Nat
    OBVIOUS
  <1> QED
    BY <1>1, <1>2, <1>3, PutRead

-----------------------------------------------------------------------------
(* The tables of the structs: what a writer sets is what the viewer reads. *)

(* The table of a writer and that of its viewer agree, and the fields lie  *)
(* behind the size word, one behind the other, within the size.            *)
Reach(f) == f.at + (IF f.slot THEN 12 ELSE f.n)

Agree(fields, view, size) ==
  /\ Len(fields) \in Nat
  /\ \A name \in DOMAIN view : \E j \in 1..Len(fields) : fields[j].name = name
  /\ \A j \in 1..Len(fields) :
       /\ fields[j].name \in DOMAIN view
       /\ Shows(view[fields[j].name], fields[j], size)
       /\ 4 <= fields[j].at
       /\ j > 1 => Reach(view[fields[j - 1].name]) <= fields[j].at

LEMMA AgreeFits ==
  ASSUME NEW fields, NEW view, NEW size, Agree(fields, view, size)
  PROVE  Fits(view, fields, size) /\ \A x \in Values(view) : Laid(x, fields, size)
  <1>1. Fits(view, fields, size)
    BY Zenon DEF Agree, Fits
  <1>2. ASSUME NEW x \in Values(view)
        PROVE  Laid(x, fields, size)
    <2>1. ASSUME NEW i \in 1..Len(fields)
          PROVE  /\ IsField(fields[i]) /\ x[fields[i].name] \in Seq(Nat)
                 /\ 4 <= fields[i].at
                 /\ End(x, fields[i]) = Reach(view[fields[i].name])
                 /\ Reach(view[fields[i].name]) <= size
      <3>7. PICK g : g = fields[i]
        OBVIOUS
      <3>8. PICK f : f = view[g.name]
        OBVIOUS
      <3>1. g.name \in DOMAIN view /\ Shows(f, g, size) /\ 4 <= g.at
        BY <3>7, <3>8, Zenon DEF Agree
      <3>2. PICK bs \in Seq(Nat) : bs = x[g.name]
        BY <3>1 DEF Values
      <3>3. f.slot \/ Len(bs) = f.n
        BY <3>1, <3>2, <3>8, Zenon DEF Values
      <3>4. IsField(g) /\ g.at = f.at /\ g.slot = f.slot
        BY <3>1, Zenon DEF Shows, IsField
      <3>5. End(x, g) = Reach(f)
        <4>1. CASE f.slot
          BY <3>2, <3>4, <4>1, Zenon DEF End, Reach, Width
        <4>2. CASE ~f.slot
          BY <3>2, <3>3, <3>4, <4>2, Zenon DEF End, Reach, Width
        <4> QED
          BY <4>1, <4>2
      <3>6. Reach(f) <= size
        BY <3>1, Zenon DEF Shows, Reach
      <3> QED
        BY <3>1, <3>2, <3>4, <3>5, <3>6, <3>7, <3>8, Zenon
    <2>2. Len(fields) \in Nat
      BY DEF Agree
    <2>3. ASSUME NEW i \in 1..Len(fields), i > 1
          PROVE  End(x, fields[i - 1]) <= fields[i].at
      <3>1. i - 1 \in 1..Len(fields)
        BY <2>2, <2>3
      <3>2. Reach(view[fields[i - 1].name]) <= fields[i].at
        BY <2>3, Zenon DEF Agree
      <3> QED
        BY <2>1, <3>1, <3>2, Zenon
    <2> QED
      BY <2>1, <2>2, <2>3, Zenon DEF Laid
  <1> QED
    BY <1>1, <1>2

LEMMA GenesisParamsAgree ==
  \E fields : /\ Agree(fields, GenesisParamsViewer, 204) /\ Len(fields) = 4
             /\ \A x, w : GenesisParamsWrite(x, w) = Root(x, w, 208, 204, fields)
  <1>1. PICK F : /\ F = <<Inline("Order", 4), Inline("TimeParam", 132),
                        Inline("Seed", 140), Inline("VerifyParam", 172)>>
                 /\ \A x, w : GenesisParamsWrite(x, w) = Root(x, w, 208, 204, F)
    BY Zenon DEF GenesisParamsWrite
  <1>2. PICK V : V = GenesisParamsViewer
    OBVIOUS
  <1>3. /\ DOMAIN V = {"Order", "TimeParam", "Seed", "VerifyParam"}
        /\ V.Order = Array(4, 128) /\ V.TimeParam = Array(132, 8)
        /\ V.Seed = Array(140, 32) /\ V.VerifyParam = Array(172, 32)
    BY <1>2 DEF GenesisParamsViewer, Int64
  <1>4. MaxWord \in Nat
    BY DEF MaxWord
  <1>5. /\ Len(F) = 4 /\ F[1] = Inline("Order", 4)
        /\ F[2] = Inline("TimeParam", 132) /\ F[3] = Inline("Seed", 140)
        /\ F[4] = Inline("VerifyParam", 172)
    BY <1>1
  <1>6. \A j \in 1..4 : F[j].name \in DOMAIN V /\ 4 <= F[j].at
    BY <1>3, <1>5 DEF Inline, Slot
  <1>7. \A name \in DOMAIN V : \E j \in 1..4 : F[j].name = name
    BY <1>3, <1>5 DEF Inline, Slot
  <1>8. /\ Shows(V.Order, F[1], 204) /\ Shows(V.TimeParam, F[2], 204)
        /\ Shows(V.Seed, F[3], 204) /\ Shows(V.VerifyParam, F[4], 204)
    BY <1>3, <1>4, <1>5 DEF Slice, SliceUpTo, Array, Inline, Slot, Shows, IsField
  <1>9. /\ F[1].name = "Order" /\ F[2].name = "TimeParam"
        /\ F[3].name = "Seed" /\ F[4].name = "VerifyParam"
    BY <1>5 DEF Inline, Slot
  <1>10. \A j \in 1..4 : Shows(V[F[j].name], F[j], 204)
    BY <1>8, <1>9
  <1>11. \A j \in 1..4 : j > 1 => Reach(V[F[j - 1].name]) <= F[j].at
    BY <1>3, <1>5, <1>9 DEF Slice, SliceUpTo, Array, Inline, Slot, Reach
  <1>12. Agree(F, V, 204)
    BY <1>5, <1>6, <1>7, <1>10, <1>11 DEF Agree
  <1> QED
    BY <1>1, <1>5, <1>12, <1>2

LEMMA GeneralParamsAgree ==
  \E fields : /\ Agree(fields, GeneralParamsViewer, 85) /\ Len(fields) = 5
             /\ \A x, w : GeneralParamsWrite(x, w) = Root(x, w, 88, 85, fields)
  <1>1. PICK F : /\ F = <<Slot("Result", 4), Slot("Proof", 16),
                        Inline("RandomNumber", 28), Slot("S", 61),
                        Slot("T", 73)>>
                 /\ \A x, w : GeneralParamsWrite(x, w) = Root(x, w, 88, 85, F)
    BY Zenon DEF GeneralParamsWrite
  <1>2. PICK V : V = GeneralParamsViewer
    OBVIOUS
  <1>3. /\ DOMAIN V = {"Result", "Proof", "RandomNumber", "S", "T"}
        /\ V.Result = Slice(4) /\ V.Proof = Slice(16)
        /\ V.RandomNumber = Array(28, 33) /\ V.S = Slice(61)
        /\ V.T = Slice(73)
    BY <1>2 DEF GeneralParamsViewer, Int64
  <1>4. MaxWord \in Nat
    BY DEF MaxWord
  <1>5. /\ Len(F) = 5 /\ F[1] = Slot("Result", 4) /\ F[2] = Slot("Proof", 16)
        /\ F[3] = Inline("RandomNumber", 28) /\ F[4] = Slot("S", 61)
        /\ F[5] = Slot("T", 73)
    BY <1>1
  <1>6. \A j \in 1..5 : F[j].name \in DOMAIN V /\ 4 <= F[j].at
    BY <1>3, <1>5 DEF Inline, Slot
  <1>7. \A name \in DOMAIN V : \E j \in 1..5 : F[j].name = name
    BY <1>3, <1>5 DEF Inline, Slot
  <1>8. /\ Shows(V.Result, F[1], 85) /\ Shows(V.Proof, F[2], 85)
        /\ Shows(V.RandomNumber, F[3], 85) /\ Shows(V.S, F[4], 85)
        /\ Shows(V.T, F[5], 85)
    BY <1>3, <1>4, <1>5 DEF Slice, SliceUpTo, Array, Inline, Slot, Shows, IsField
  <1>9. /\ F[1].name = "Result" /\ F[2].name = "Proof"
        /\ F[3].name = "RandomNumber" /\ F[4].name = "S" /\ F[5].name = "T"
    BY <1>5 DEF Inline, Slot
  <1>10. \A j \in 1..5 : Shows(V[F[j].name], F[j], 85)
    BY <1>8, <1>9
  <1>11. \A j \in 1..5 : j > 1 => Reach(V[F[j - 1].name]) <= F[j].at
    BY <1>3, <1>5, <1>9 DEF Slice, SliceUpTo, Array, Inline, Slot, Reach
  <1>12. Agree(F, V, 85)
    BY <1>5, <1>6, <1>7, <1>10, <1>11 DEF Agree
  <1> QED
    BY <1>1, <1>5, <1>12, <1>2

LEMMA DataCommandAgree ==
  \E fields : /\ Agree(fields, DataCommandViewer, 40) /\ Len(fields) = 3
             /\ \A x, w : DataCommandWrite(x, w) = Root(x, w, 48, 40, fields)
  <1>1. PICK F : /\ F = <<Slot("Opt", 4), Slot("Key", 16), Slot("Value", 28)>>
                 /\ \A x, w : DataCommandWrite(x, w) = Root(x, w, 48, 40, F)
    BY Zenon DEF DataCommandWrite
  <1>2. PICK V : V = DataCommandViewer
    OBVIOUS
  <1>3. /\ DOMAIN V = {"Opt", "Key", "Value"}
        /\ V.Opt = Slice(4) /\ V.Key = Slice(16) /\ V.Value = Slice(28)
    BY <1>2 DEF DataCommandViewer, Int64
  <1>4. MaxWord \in Nat
    BY DEF MaxWord
  <1>5. /\ Len(F) = 3 /\ F[1] = Slot("Opt", 4) /\ F[2] = Slot("Key", 16)
        /\ F[3] = Slot("Value", 28)
    BY <1>1
  <1>6. \A j \in 1..3 : F[j].name \in DOMAIN V /\ 4 <= F[j].at
    BY <1>3, <1>5 DEF Inline, Slot
  <1>7. \A name \in DOMAIN V : \E j \in 1..3 : F[j].name = name
    BY <1>3, <1>5 DEF Inline, Slot
  <1>8. /\ Shows(V.Opt, F[1], 40) /\ Shows(V.Key, F[2], 40)
        /\ Shows(V.Value, F[3], 40)
    BY <1>3, <1>4, <1>5 DEF Slice, SliceUpTo, Array, Inline, Slot, Shows, IsField
  <1>9. /\ F[1].name = "Opt" /\ F[2].name = "Key" /\ F[3].name = "Value"
    BY <1>5 DEF Inline, Slot
  <1>10. \A j \in 1..3 : Shows(V[F[j].name], F[j], 40)
    BY <1>8, <1>9
  <1>11. \A j \in 1..3 : j > 1 => Reach(V[F[j - 1].name]) <= F[j].at
    BY <1>3, <1>5, <1>9 DEF Slice, SliceUpTo, Array, Inline, Slot, Reach
  <1>12. Agree(F, V, 40)
    BY <1>5, <1>6, <1>7, <1>10, <1>11 DEF Agree
  <1> QED
    BY <1>1, <1>5, <1>12, <1>2

LEMMA SyncStatusMsgAgree ==
  \E fields : /\ Agree(fields, SyncStatusMsgViewer, 60) /\ Len(fields) = 4
             /\ \A x, w : SyncStatusMsgWrite(x, w) = Root(x, w, 64, 60, fields)
  <1>1. PICK F : /\ F = <<Inline("LatestHeight", 4), Inline("LatestHash", 12),
                        Inline("BufferedStartHeight", 44),
                        Inline("BufferedEndHeight", 52)>>
                 /\ \A x, w : SyncStatusMsgWrite(x, w) = Root(x, w, 64, 60, F)
    BY Zenon DEF SyncStatusMsgWrite
  <1>2. PICK V : V = SyncStatusMsgViewer
    OBVIOUS
  <1>3. /\ DOMAIN V = {"LatestHeight", "LatestHash", "BufferedStartHeight",
                     "BufferedEndHeight"}
        /\ V.LatestHeight = Array(4, 8) /\ V.LatestHash = Array(12, 32)
        /\ V.BufferedStartHeight = Array(44, 8)
        /\ V.BufferedEndHeight = Array(52, 8)
    BY <1>2 DEF SyncStatusMsgViewer, Int64
  <1>4. MaxWord \in Nat
    BY DEF MaxWord
  <1>5. /\ Len(F) = 4 /\ F[1] = Inline("LatestHeight", 4)
        /\ F[2] = Inline("LatestHash", 12)
        /\ F[3] = Inline("BufferedStartHeight", 44)
        /\ F[4] = Inline("BufferedEndHeight", 52)
    BY <1>1
  <1>6. \A j \in 1..4 : F[j].name \in DOMAIN V /\ 4 <= F[j].at
    BY <1>3, <1>5 DEF Inline, Slot
  <1>7. \A name \in DOMAIN V : \E j \in 1..4 : F[j].name = name
    BY <1>3, <1>5 DEF Inline, Slot
  <1>8. /\ Shows(V.LatestHeight, F[1], 60) /\ Shows(V.LatestHash, F[2], 60)
        /\ Shows(V.BufferedStartHeight, F[3], 60)
        /\ Shows(V.BufferedEndHeight, F[4], 60)
    BY <1>3, <1>4, <1>5 DEF Slice, SliceUpTo, Array, Inline, Slot, Shows, IsField
  <1>9. /\ F[1].name = "LatestHeight" /\ F[2].name = "LatestHash"
        /\ F[3].name = "BufferedStartHeight"
        /\ F[4].name = "BufferedEndHeight"
    BY <1>5 DEF Inline, Slot
  <1>10. \A j \in 1..4 : Shows(V[F[j].name], F[j], 60)
    BY <1>8, <1>9
  <1>11. \A j \in 1..4 : j > 1 => Reach(V[F[j - 1].name]) <= F[j].at
    BY <1>3, <1>5, <1>9 DEF Slice, SliceUpTo, Array, Inline, Slot, Reach
  <1>12. Agree(F, V, 60)
    BY <1>5, <1>6, <1>7, <1>10, <1>11 DEF Agree
  <1> QED
    BY <1>1, <1>5, <1>12, <1>2

LEMMA TimeSyncMsgAgree ==
  \E fields : /\ Agree(fields, TimeSyncMsgViewer, 37) /\ Len(fields) = 5
             /\ \A x, w : TimeSyncMsgWrite(x, w) = Root(x, w, 40, 37, fields)
  <1>1. PICK F : /\ F = <<Inline("Code", 4), Inline("ReqTime", 5),
                        Inline("RecReqTime", 13), Inline("RspTime", 21),
                        Inline("RecRspTime", 29)>>
                 /\ \A x, w : TimeSyncMsgWrite(x, w) = Root(x, w, 40, 37, F)
    BY Zenon DEF TimeSyncMsgWrite
  <1>2. PICK V : V = TimeSyncMsgViewer
    OBVIOUS
  <1>3. /\ DOMAIN V = {"Code", "ReqTime", "RecReqTime", "RspTime",
                     "RecRspTime"}
        /\ V.Code = Array(4, 1) /\ V.ReqTime = Array(5, 8)
        /\ V.RecReqTime = Array(13, 8) /\ V.RspTime = Array(21, 8)
        /\ V.RecRspTime = Array(29, 8)
    BY <1>2 DEF TimeSyncMsgViewer, Int64
  <1>4. MaxWord \in Nat
    BY DEF MaxWord
  <1>5. /\ Len(F) = 5 /\ F[1] = Inline("Code", 4)
        /\ F[2] = Inline("ReqTime", 5) /\ F[3] = Inline("RecReqTime", 13)
        /\ F[4] = Inline("RspTime", 21) /\ F[5] = Inline("RecRspTime", 29)
    BY <1>1
  <1>6. \A j \in 1..5 : F[j].name \in DOMAIN V /\ 4 <= F[j].at
    BY <1>3, <1>5 DEF Inline, Slot
  <1>7. \A name \in DOMAIN V : \E j \in 1..5 : F[j].name = name
    BY <1>3, <1>5 DEF Inline, Slot
  <1>8. /\ Shows(V.Code, F[1], 37) /\ Shows(V.ReqTime, F[2], 37)
        /\ Shows(V.RecReqTime, F[3], 37) /\ Shows(V.RspTime, F[4], 37)
        /\ Shows(V.RecRspTime, F[5], 37)
    BY <1>3, <1>4, <1>5 DEF Slice, SliceUpTo, Array, Inline, Slot, Shows, IsField
  <1>9. /\ F[1].name = "Code" /\ F[2].name = "ReqTime"
        /\ F[3].name = "RecReqTime" /\ F[4].name = "RspTime"
        /\ F[5].name = "RecRspTime"
    BY <1>5 DEF Inline, Slot
  <1>10. \A j \in 1..5 : Shows(V[F[j].name], F[j], 37)
    BY <1>8, <1>9
  <1>11. \A j \in 1..5 : j > 1 => Reach(V[F[j - 1].name]) <= F[j].at
    BY <1>3, <1>5, <1>9 DEF Slice, SliceUpTo, Array, Inline, Slot, Reach
  <1>12. Agree(F, V, 37)
    BY <1>5, <1>6, <1>7, <1>10, <1>11 DEF Agree
  <1> QED
    BY <1>1, <1>5, <1>12, <1>2

LEMMA MessageAgree ==
  \E fields : /\ Agree(fields, MessageViewer, 29) /\ Len(fields) = 4
             /\ \A x, w : MessageWrite(x, w) = Root(x, w, 32, 29, fields)
  <1>1. PICK F : /\ F = <<Inline("Code", 4), Inline("Size", 5),
                        Slot("Payload", 9), Inline("ReceiveAt", 21)>>
                 /\ \A x, w : MessageWrite(x, w) = Root(x, w, 32, 29, F)
    BY Zenon DEF MessageWrite
  <1>2. PICK V : V = MessageViewer
    OBVIOUS
  <1>3. /\ DOMAIN V = {"Code", "Size", "Payload", "ReceiveAt"}
        /\ V.Code = Array(4, 1) /\ V.Size = Array(5, 4)
        /\ V.Payload = Slice(9) /\ V.ReceiveAt = Array(21, 8)
    BY <1>2 DEF MessageViewer, Int64
  <1>4. MaxWord \in Nat
    BY DEF MaxWord
  <1>5. /\ Len(F) = 4 /\ F[1] = Inline("Code", 4) /\ F[2] = Inline("Size", 5)
        /\ F[3] = Slot("Payload", 9) /\ F[4] = Inline("ReceiveAt", 21)
    BY <1>1
  <1>6. \A j \in 1..4 : F[j].name \in DOMAIN V /\ 4 <= F[j].at
    BY <1>3, <1>5 DEF Inline, Slot
  <1>7. \A name \in DOMAIN V : \E j \in 1..4 : F[j].name = name
    BY <1>3, <1>5 DEF Inline, Slot
  <1>8. /\ Shows(V.Code, F[1], 29) /\ Shows(V.Size, F[2], 29)
        /\ Shows(V.Payload, F[3], 29) /\ Shows(V.ReceiveAt, F[4], 29)
    BY <1>3, <1>4, <1>5 DEF Slice, SliceUpTo, Array, Inline, Slot, Shows, IsField
  <1>9. /\ F[1].name = "Code" /\ F[2].name = "Size" /\ F[3].name = "Payload"
        /\ F[4].name = "ReceiveAt"
    BY <1>5 DEF Inline, Slot
  <1>10. \A j \in 1..4 : Shows(V[F[j].name], F[j], 29)
    BY <1>8, <1>9
  <1>11. \A j \in 1..4 : j > 1 => Reach(V[F[j - 1].name]) <= F[j].at
    BY <1>3, <1>5, <1>9 DEF Slice, SliceUpTo, Array, Inline, Slot, Reach
  <1>12. Agree(F, V, 29)
    BY <1>5, <1>6, <1>7, <1>10, <1>11 DEF Agree
  <1> QED
    BY <1>1, <1>5, <1>12, <1>2

LEMMA BroadcastMessageAgree ==
  \E fields : /\ Agree(fields, BroadcastMessageViewer, 28) /\ Len(fields) = 2
             /\ \A x, w : BroadcastMessageWrite(x, w) = Root(x, w, 32, 28, fields)
  <1>1. PICK F : /\ F = <<Slot("ID", 4), Slot("Data", 16)>>
                 /\ \A x, w : BroadcastMessageWrite(x, w) = Root(x, w, 32, 28, F)
    BY Zenon DEF BroadcastMessageWrite
  <1>2. PICK V : V = BroadcastMessageViewer
    OBVIOUS
  <1>3. /\ DOMAIN V = {"ID", "Data"}
        /\ V.ID = Slice(4) /\ V.Data = Slice(16)
    BY <1>2 DEF BroadcastMessageViewer, Int64
  <1>4. MaxWord \in Nat
    BY DEF MaxWord
  <1>5. /\ Len(F) = 2 /\ F[1] = Slot("ID", 4) /\ F[2] = Slot("Data", 16)
    BY <1>1
  <1>6. \A j \in 1..2 : F[j].name \in DOMAIN V /\ 4 <= F[j].at
    BY <1>3, <1>5 DEF Inline, Slot
  <1>7. \A name \in DOMAIN V : \E j \in 1..2 : F[j].name = name
    BY <1>3, <1>5 DEF Inline, Slot
  <1>8. /\ Shows(V.ID, F[1], 28) /\ Shows(V.Data, F[2], 28)
    BY <1>3, <1>4, <1>5 DEF Slice, SliceUpTo, Array, Inline, Slot, Shows, IsField
  <1>9. /\ F[1].name = "ID" /\ F[2].name = "Data"
    BY <1>5 DEF Inline, Slot
  <1>10. \A j \in 1..2 : Shows(V[F[j].name], F[j], 28)
    BY <1>8, <1>9
  <1>11. \A j \in 1..2 : j > 1 => Reach(V[F[j - 1].name]) <= F[j].at
    BY <1>3, <1>5, <1>9 DEF Slice, SliceUpTo, Array, Inline, Slot, Reach
  <1>12. Agree(F, V, 28)
    BY <1>5, <1>6, <1>7, <1>10, <1>11 DEF Agree
  <1> QED
    BY <1>1, <1>5, <1>12, <1>2

LEMMA BlockHeaderAgree == Agree(BlockHeaderFields, BlockHeaderViewer, 169)
  <1>1. PICK F : /\ F = <<Inline("Timestamp", 4), Inline("PrevBlockHash", 12),
                        Inline("BlockHash", 44), Inline("MerkleRoot", 76),
                        Inline("Height", 108), Inline("PublicKey", 116),
                        Slot("Params", 149), Inline("GasLimit", 161)>>
                 /\ F = BlockHeaderFields
    BY DEF BlockHeaderFields
  <1>2. PICK V : V = BlockHeaderViewer
    OBVIOUS
  <1>3. /\ DOMAIN V = {"Timestamp", "PrevBlockHash", "BlockHash",
                     "MerkleRoot", "Height", "PublicKey", "Params", "GasLimit"}
        /\ V.Timestamp = Array(4, 8) /\ V.PrevBlockHash = Array(12, 32)
        /\ V.BlockHash = Array(44, 32) /\ V.MerkleRoot = Array(76, 32)
        /\ V.Height = Array(108, 8) /\ V.PublicKey = Array(116, 33)
        /\ V.Params = Slice(149) /\ V.GasLimit = Array(161, 8)
    BY <1>2 DEF BlockHeaderViewer, Int64
  <1>4. MaxWord \in Nat
    BY DEF MaxWord
  <1>5. /\ Len(F) = 8 /\ F[1] = Inline("Timestamp", 4)
        /\ F[2] = Inline("PrevBlockHash", 12)
        /\ F[3] = Inline("BlockHash", 44) /\ F[4] = Inline("MerkleRoot", 76)
        /\ F[5] = Inline("Height", 108) /\ F[6] = Inline("PublicKey", 116)
        /\ F[7] = Slot("Params", 149) /\ F[8] = Inline("GasLimit", 161)
    BY <1>1
  <1>6. \A j \in 1..8 : F[j].name \in DOMAIN V /\ 4 <= F[j].at
    BY <1>3, <1>5 DEF Inline, Slot
  <1>7. \A name \in DOMAIN V : \E j \in 1..8 : F[j].name = name
    BY <1>3, <1>5 DEF Inline, Slot
  <1>8. /\ Shows(V.Timestamp, F[1], 169) /\ Shows(V.PrevBlockHash, F[2], 169)
        /\ Shows(V.BlockHash, F[3], 169) /\ Shows(V.MerkleRoot, F[4], 169)
        /\ Shows(V.Height, F[5], 169) /\ Shows(V.PublicKey, F[6], 169)
        /\ Shows(V.Params, F[7], 169) /\ Shows(V.GasLimit, F[8], 169)
    BY <1>3, <1>4, <1>5 DEF Slice, SliceUpTo, Array, Inline, Slot, Shows, IsField
  <1>9. /\ F[1].name = "Timestamp" /\ F[2].name = "PrevBlockHash"
        /\ F[3].name = "BlockHash" /\ F[4].name = "MerkleRoot"
        /\ F[5].name = "Height" /\ F[6].name = "PublicKey"
        /\ F[7].name = "Params" /\ F[8].name = "GasLimit"
    BY <1>5 DEF Inline, Slot
  <1>10. \A j \in 1..8 : Shows(V[F[j].name], F[j], 169)
    BY <1>8, <1>9
  <1>11. \A j \in 1..8 : j > 1 => Reach(V[F[j - 1].name]) <= F[j].at
    BY <1>3, <1>5, <1>9 DEF Slice, SliceUpTo, Array, Inline, Slot, Reach
  <1>12. Agree(F, V, 169)
    BY <1>5, <1>6, <1>7, <1>10, <1>11 DEF Agree
  <1> QED
    BY <1>1, <1>12, <1>2

LEMMA TransactionBodyAgree == Agree(TransactionBodyFields, TransactionBodyViewer, 249)
  <1>1. PICK F : /\ F = <<Inline("Hash", 4), Inline("Address", 36),
                        Inline("Receiver", 56), Inline("Gas", 76),
                        Inline("Nonce", 84), Slot("Event", 92), Slot("Opt", 104),
                        Slot("State", 116), Slot("Data", 128),
                        Inline("Expire", 140), Inline("Height", 148),
                        Inline("Index", 156), Inline("BlockHash", 164),
                        Inline("Timestamp", 196), Inline("Public", 204),
                        Slot("Signature", 237)>>
                 /\ F = TransactionBodyFields
    BY DEF TransactionBodyFields
  <1>2. PICK V : V = TransactionBodyViewer
    OBVIOUS
  <1>3. /\ DOMAIN V = {"Hash", "Address", "Receiver", "Gas", "Nonce", "Event",
                     "Opt", "State", "Data", "Expire", "Height", "Index",
                     "BlockHash", "Timestamp", "Public", "Signature"}
        /\ V.Hash = Array(4, 32) /\ V.Address = Array(36, 20)
        /\ V.Receiver = Array(56, 20) /\ V.Gas = Array(76, 8)
        /\ V.Nonce = Array(84, 8) /\ V.Event = Slice(92) /\ V.Opt = Slice(104)
        /\ V.State = Slice(116) /\ V.Data = Slice(128)
        /\ V.Expire = Array(140, 8) /\ V.Height = Array(148, 8)
        /\ V.Index = Array(156, 8) /\ V.BlockHash = Array(164, 32)
        /\ V.Timestamp = Array(196, 8) /\ V.Public = Array(204, 33)
        /\ V.Signature = SliceUpTo(237, 73)
    BY <1>2 DEF TransactionBodyViewer, Int64
  <1>4. MaxWord \in Nat
    BY DEF MaxWord
  <1>5. /\ Len(F) = 16 /\ F[1] = Inline("Hash", 4)
        /\ F[2] = Inline("Address", 36) /\ F[3] = Inline("Receiver", 56)
        /\ F[4] = Inline("Gas", 76) /\ F[5] = Inline("Nonce", 84)
        /\ F[6] = Slot("Event", 92) /\ F[7] = Slot("Opt", 104)
        /\ F[8] = Slot("State", 116) /\ F[9] = Slot("Data", 128)
        /\ F[10] = Inline("Expire", 140) /\ F[11] = Inline("Height", 148)
        /\ F[12] = Inline("Index", 156) /\ F[13] = Inline("BlockHash", 164)
        /\ F[14] = Inline("Timestamp", 196) /\ F[15] = Inline("Public", 204)
        /\ F[16] = Slot("Signature", 237)
    BY <1>1
  <1>6. \A j \in 1..16 : F[j].name \in DOMAIN V /\ 4 <= F[j].at
    BY <1>3, <1>5 DEF Inline, Slot
  <1>7. \A name \in DOMAIN V : \E j \in 1..16 : F[j].name = name
    BY <1>3, <1>5 DEF Inline, Slot
  <1>8. /\ Shows(V.Hash, F[1], 249) /\ Shows(V.Address, F[2], 249)
        /\ Shows(V.Receiver, F[3], 249) /\ Shows(V.Gas, F[4], 249)
        /\ Shows(V.Nonce, F[5], 249) /\ Shows(V.Event, F[6], 249)
        /\ Shows(V.Opt, F[7], 249) /\ Shows(V.State, F[8], 249)
        /\ Shows(V.Data, F[9], 249) /\ Shows(V.Expire, F[10], 249)
        /\ Shows(V.Height, F[11], 249) /\ Shows(V.Index, F[12], 249)
        /\ Shows(V.BlockHash, F[13], 249) /\ Shows(V.Timestamp, F[14], 249)
        /\ Shows(V.Public, F[15], 249) /\ Shows(V.Signature, F[16], 249)
    <2>1. /\ Shows(V.Hash, F[1], 249) /\ Shows(V.Address, F[2], 249)
          /\ Shows(V.Receiver, F[3], 249) /\ Shows(V.Gas, F[4], 249)
          /\ Shows(V.Nonce, F[5], 249) /\ Shows(V.Event, F[6], 249)
          /\ Shows(V.Opt, F[7], 249) /\ Shows(V.State, F[8], 249)
      BY <1>3, <1>4, <1>5 DEF Slice, Array, SliceUpTo, Inline, Slot, Shows, IsField
    <2>2. /\ Shows(V.Data, F[9], 249) /\ Shows(V.Expire, F[10], 249)
          /\ Shows(V.Height, F[11], 249) /\ Shows(V.Index, F[12], 249)
          /\ Shows(V.BlockHash, F[13], 249) /\ Shows(V.Timestamp, F[14], 249)
          /\ Shows(V.Public, F[15], 249) /\ Shows(V.Signature, F[16], 249)
      BY <1>3, <1>4, <1>5 DEF Slice, Array, SliceUpTo, Inline, Slot, Shows, IsField
    <2> QED
      BY <2>1, <2>2
  <1>9. /\ F[1].name = "Hash" /\ F[2].name = "Address"
        /\ F[3].name = "Receiver" /\ F[4].name = "Gas" /\ F[5].name = "Nonce"
        /\ F[6].name = "Event" /\ F[7].name = "Opt" /\ F[8].name = "State"
        /\ F[9].name = "Data" /\ F[10].name = "Expire"
        /\ F[11].name = "Height" /\ F[12].name = "Index"
        /\ F[13].name = "BlockHash" /\ F[14].name = "Timestamp"
        /\ F[15].name = "Public" /\ F[16].name = "Signature"
    BY <1>5 DEF Inline, Slot
  <1>10. \A j \in 1..16 : Shows(V[F[j].name], F[j], 249)
    BY <1>8, <1>9
  <1>11. \A j \in 1..16 : j > 1 => Reach(V[F[j - 1].name]) <= F[j].at
    BY <1>3, <1>5, <1>9 DEF Slice, SliceUpTo, Array, Inline, Slot, Reach
  <1>12. Agree(F, V, 249)
    BY <1>5, <1>6, <1>7, <1>10, <1>11 DEF Agree
  <1> QED
    BY <1>1, <1>12, <1>2

LEMMA RootReads ==
  ASSUME NEW fields, NEW view, NEW size \in Nat, NEW alloc \in Nat, 8 <= size, size <= alloc,
         alloc <= 255, Agree(fields, view, size), NEW x \in Values(view),
         NEW d, d = Bytes(Root(x, NewWriter, alloc, size, fields)), Small(Len(d))
  PROVE  Read(d, 0, view) = x
  <1>1. Small(size)
    BY DEF Small, MaxWord
  <1>2. Fits(view, fields, size) /\ Laid(x, fields, size)
    BY AgreeFits
  <1>3. PICK v : v = Put(x, Alloc(NewWriter, alloc), 0, size, fields)
    OBVIOUS
  <1>4. d = Bytes(v)
    BY <1>3, NewWriterFacts, Zenon DEF Root
  <1>5. Small(Len(Bytes(v)))
    BY <1>4
  <1>6. Read(Bytes(v), 0, view) = x
    BY <1>1, <1>2, <1>3, <1>5, RootRead
  <1> QED
    BY <1>4, <1>6

(***************************************************************************)
(* SerializeX and DeserializeX of the structs that are sent or stored by   *)
(* themselves, karmem's Write and New...Viewer for each: every value is    *)
(* what the reader finds in the bytes of the writer, if they are few       *)
(* enough for the words of the model.                                      *)
(***************************************************************************)
THEOREM MessagesReadAsWritten ==
  /\ \A x \in Values(GenesisParamsViewer) : Small(Len(SerializeGenesisParams(x))) =>
       DeserializeGenesisParams(SerializeGenesisParams(x)) = x
  /\ \A x \in Values(GeneralParamsViewer) : Small(Len(SerializeGeneralParams(x))) =>
       DeserializeGeneralParams(SerializeGeneralParams(x)) = x
  /\ \A x \in Values(DataCommandViewer) : Small(Len(SerializeDataCommand(x))) =>
       DeserializeDataCommand(SerializeDataCommand(x)) = x
  /\ \A x \in Values(SyncStatusMsgViewer) : Small(Len(SerializeStatusMsg(x))) =>
       DeserializeStatusMsg(SerializeStatusMsg(x)) = x
  /\ \A x \in Values(TimeSyncMsgViewer) : Small(Len(SerializeTimeSyncMsg(x))) =>
       DeserializeTimeSyncMsg(SerializeTimeSyncMsg(x)) = x
  /\ \A x \in Values(MessageViewer) : Small(Len(SerializeMessage(x))) =>
       DeserializeMessage(SerializeMessage(x)) = x
  /\ \A x \in Values(BroadcastMessageViewer) : Small(Len(SerializeBroadcastMessage(x))) =>
       DeserializeBroadcastMessage(SerializeBroadcastMessage(x)) = x
  <1>1. ASSUME NEW x \in Values(GenesisParamsViewer), Small(Len(SerializeGenesisParams(x)))
        PROVE  DeserializeGenesisParams(SerializeGenesisParams(x)) = x
    <2>1. PICK F : /\ Agree(F, GenesisParamsViewer, 204)
                   /\ \A w : GenesisParamsWrite(x, w) = Root(x, w, 208, 204, F)
      BY GenesisParamsAgree
    <2>2. PICK d : d = SerializeGenesisParams(x)
      OBVIOUS
    <2>3. d = Bytes(Root(x, NewWriter, 208, 204, F)) /\ Small(Len(d))
      BY <1>1, <2>1, <2>2, Zenon DEF SerializeGenesisParams
    <2>4. Read(d, 0, GenesisParamsViewer) = x
      BY <2>1, <2>3, RootReads
    <2> QED
      BY <2>2, <2>4, Zenon DEF DeserializeGenesisParams, GenesisParamsRead
  <1>2. ASSUME NEW x \in Values(GeneralParamsViewer), Small(Len(SerializeGeneralParams(x)))
        PROVE  DeserializeGeneralParams(SerializeGeneralParams(x)) = x
    <2>1. PICK F : /\ Agree(F, GeneralParamsViewer, 85)
                   /\ \A w : GeneralParamsWrite(x, w) = Root(x, w, 88, 85, F)
      BY GeneralParamsAgree
    <2>2. PICK d : d = SerializeGeneralParams(x)
      OBVIOUS
    <2>3. d = Bytes(Root(x, NewWriter, 88, 85, F)) /\ Small(Len(d))
      BY <1>2, <2>1, <2>2, Zenon DEF SerializeGeneralParams
    <2>4. Read(d, 0, GeneralParamsViewer) = x
      BY <2>1, <2>3, RootReads
    <2> QED
      BY <2>2, <2>4, Zenon DEF DeserializeGeneralParams, GeneralParamsRead
  <1>3. ASSUME NEW x \in Values(DataCommandViewer), Small(Len(SerializeDataCommand(x)))
        PROVE  DeserializeDataCommand(SerializeDataCommand(x)) = x
    <2>1. PICK F : /\ Agree(F, DataCommandViewer, 40)
                   /\ \A w : DataCommandWrite(x, w) = Root(x, w, 48, 40, F)
      BY DataCommandAgree
    <2>2. PICK d : d = SerializeDataCommand(x)
      OBVIOUS
    <2>3. d = Bytes(Root(x, NewWriter, 48, 40, F)) /\ Small(Len(d))
      BY <1>3, <2>1, <2>2, Zenon DEF SerializeDataCommand
    <2>4. Read(d, 0, DataCommandViewer) = x
      BY <2>1, <2>3, RootReads
    <2> QED
      BY <2>2, <2>4, Zenon DEF DeserializeDataCommand, DataCommandRead
  <1>4. ASSUME NEW x \in Values(SyncStatusMsgViewer), Small(Len(SerializeStatusMsg(x)))
        PROVE  DeserializeStatusMsg(SerializeStatusMsg(x)) = x
    <2>1. PICK F : /\ Agree(F, SyncStatusMsgViewer, 60)
                   /\ \A w : SyncStatusMsgWrite(x, w) = Root(x, w, 64, 60, F)
      BY SyncStatusMsgAgree
    <2>2. PICK d : d = SerializeStatusMsg(x)
      OBVIOUS
    <2>3. d = Bytes(Root(x, NewWriter, 64, 60, F)) /\ Small(Len(d))
      BY <1>4, <2>1, <2>2, Zenon DEF SerializeStatusMsg
    <2>4. Read(d, 0, SyncStatusMsgViewer) = x
      BY <2>1, <2>3, RootReads
    <2> QED
      BY <2>2, <2>4, Zenon DEF DeserializeStatusMsg, SyncStatusMsgRead
  <1>5. ASSUME NEW x \in Values(TimeSyncMsgViewer), Small(Len(SerializeTimeSyncMsg(x)))
        PROVE  DeserializeTimeSyncMsg(SerializeTimeSyncMsg(x)) = x
    <2>1. PICK F : /\ Agree(F, TimeSyncMsgViewer, 37)
                   /\ \A w : TimeSyncMsgWrite(x, w) = Root(x, w, 40, 37, F)
      BY TimeSyncMsgAgree
    <2>2. PICK d : d = SerializeTimeSyncMsg(x)
      OBVIOUS
    <2>3. d = Bytes(Root(x, NewWriter, 40, 37, F)) /\ Small(Len(d))
      BY <1>5, <2>1, <2>2, Zenon DEF SerializeTimeSyncMsg
    <2>4. Read(d, 0, TimeSyncMsgViewer) = x
      BY <2>1, <2>3, RootReads
    <2> QED
      BY <2>2, <2>4, Zenon DEF DeserializeTimeSyncMsg, TimeSyncMsgRead
  <1>6. ASSUME NEW x \in Values(MessageViewer), Small(Len(SerializeMessage(x)))
        PROVE  DeserializeMessage(SerializeMessage(x)) = x
    <2>1. PICK F : /\ Agree(F, MessageViewer, 29)
                   /\ \A w : MessageWrite(x, w) = Root(x, w, 32, 29, F)
      BY MessageAgree
    <2>2. PICK d : d = SerializeMessage(x)
      OBVIOUS
    <2>3. d = Bytes(Root(x, NewWriter, 32, 29, F)) /\ Small(Len(d))
      BY <1>6, <2>1, <2>2, Zenon DEF SerializeMessage
    <2>4. Read(d, 0, MessageViewer) = x
      BY <2>1, <2>3, RootReads
    <2> QED
      BY <2>2, <2>4, Zenon DEF DeserializeMessage, MessageRead
  <1>7. ASSUME NEW x \in Values(BroadcastMessageViewer), Small(Len(SerializeBroadcastMessage(x)))
        PROVE  DeserializeBroadcastMessage(SerializeBroadcastMessage(x)) = x
    <2>1. PICK F : /\ Agree(F, BroadcastMessageViewer, 28)
                   /\ \A w : BroadcastMessageWrite(x, w) = Root(x, w, 32, 28, F)
      BY BroadcastMessageAgree
    <2>2. PICK d : d = SerializeBroadcastMessage(x)
      OBVIOUS
    <2>3. d = Bytes(Root(x, NewWriter, 32, 28, F)) /\ Small(Len(d))
      BY <1>7, <2>1, <2>2, Zenon DEF SerializeBroadcastMessage
    <2>4. Read(d, 0, BroadcastMessageViewer) = x
      BY <2>1, <2>3, RootReads
    <2> QED
      BY <2>2, <2>4, Zenon DEF DeserializeBroadcastMessage, BroadcastMessageRead
  <1> QED
    BY <1>1, <1>2, <1>3, <1>4, <1>5, <1>6, <1>7, Zenon

-----------------------------------------------------------------------------
(* How long the bytes of a struct with short slices can get.               *)
IsRecord(w, m, n) == w = [mem |-> m, len |-> n]

LEMMA LenKept ==
  ASSUME NEW w, NEW m, NEW n, IsRecord(w, m, n), NEW at, NEW bs
  PROVE  \E r : IsRecord(WriteAt(w, at, bs), r, n)
  <1>1. PICK r : r = SubSeq(m, 1, at) \o bs \o SubSeq(m, at + Len(bs) + 1, Len(m))
    OBVIOUS
  <1>2. WriteAt(w, at, bs) = [w EXCEPT !.mem = r]
    <2>1. w.mem = m
      BY DEF IsRecord
    <2> QED
      BY <1>1, <2>1, Zenon DEF WriteAt
  <1> QED
    BY <1>2, SetMem DEF IsRecord

LEMMA RecordLen ==
  ASSUME NEW w, NEW m, NEW n, IsRecord(w, m, n)
  PROVE  w.len = n
  BY DEF IsRecord

LEMMA FieldLen ==
  ASSUME NEW last \in Nat, NEW w \in Writer(last), NEW at, NEW f, IsField(f),
         NEW bs \in Seq(Nat)
  PROVE  PutField(w, at, f, bs).len = w.len + (IF f.slot THEN Len(bs) ELSE 0)
  <1>1. PICK m \in Seq(Nat), n \in Nat : m = w.mem /\ n = w.len /\ IsRecord(w, m, n)
    BY WriterFacts DEF IsRecord
  <1>2. CASE f.slot
    <2>9. PICK k : k = n + Len(bs)
      OBVIOUS
    <2>1. PICK z : IsRecord(Alloc(w, Len(bs)), z, k)
      BY <1>1, <2>9 DEF Alloc, IsRecord
    <2>2. PICK u : u = Alloc(w, Len(bs)) /\ IsRecord(u, z, k)
      BY <2>1
    <2>10. PICK p, c : p = at + f.at /\ c = Word(w.len) \o Word(Len(bs)) \o Word(1)
      OBVIOUS
    <2>3. PICK r : IsRecord(WriteAt(u, p, c), r, k)
      BY <2>2, LenKept
    <2>4. PICK v : v = WriteAt(u, p, c) /\ IsRecord(v, r, k)
      BY <2>3
    <2>5. PICK q : IsRecord(WriteAt(v, w.len, bs), q, k)
      BY <2>4, LenKept
    <2>6. PutField(w, at, f, bs) = WriteAt(v, w.len, bs)
      BY <1>2, <2>2, <2>4, <2>10, Zenon DEF PutField, WriteSlot
    <2>7. PutField(w, at, f, bs).len = k
      BY <2>5, <2>6, RecordLen
    <2> QED
      BY <1>1, <1>2, <2>9, <2>7
  <1>3. CASE ~f.slot
    <2>1. PICK r : IsRecord(WriteAt(w, at + f.at, bs), r, n)
      BY <1>1, LenKept
    <2>2. PutField(w, at, f, bs) = WriteAt(w, at + f.at, bs)
      BY <1>3, Zenon DEF PutField
    <2>3. PutField(w, at, f, bs).len = n
      BY <2>1, <2>2, RecordLen
    <2> QED
      BY <1>1, <1>3, <2>3
  <1> QED
    BY <1>2, <1>3

LEMMA PutBound ==
  ASSUME NEW size \in Nat, NEW at \in Nat, 4 <= size, NEW w \in Writer(at + size), NEW x,
         NEW fields, Laid(x, fields, size),
         NEW most \in Nat, \A i \in 1..Len(fields) : fields[i].slot => Len(x[fields[i].name]) <= most
  PROVE  Put(x, w, at, size, fields).len <= w.len + most * Len(fields)
  <1>1. PICK last \in Nat, n \in Nat : last = at + size /\ n = Len(fields)
    <2>1. Len(fields) \in Nat
      BY DEF Laid
    <2>2. PICK last \in Nat : last = at + size
      OBVIOUS
    <2> QED
      BY <2>1, <2>2
  <1>2. PICK value : /\ Puts(value, x, w, at, size, fields)
                     /\ Put(x, w, at, size, fields) = value[n]
                     /\ \A i \in 0..n : value[i] \in Writer(last)
    BY <1>1, PutSteps
  <1>3. PICK m \in Seq(Nat), len \in Nat : len = w.len /\ IsRecord(w, m, len)
    BY <1>1, WriterFacts DEF IsRecord
  <1> DEFINE S == {i \in 0..n : value[i].len <= len + most * i}
  <1>4. 0 \in S
    <2>1. value[0] = WriteAt(w, at, Word(size))
      BY <1>2, Zenon DEF Puts
    <2>2. value[0].len = len
      BY <1>3, <2>1, LenKept, RecordLen
    <2> QED
      BY <2>2
  <1>5. ASSUME NEW i \in 1..n, i - 1 \in S
        PROVE  i \in S
    <2>1. PICK u \in Writer(last), k \in Nat : u = value[i - 1] /\ k = u.len /\ k <= len + most * (i - 1)
      <3>1. i - 1 \in 0..n
        OBVIOUS
      <3>2. value[i - 1] \in Writer(last)
        BY <1>2, <3>1
      <3>3. value[i - 1].len \in Nat
        BY <3>2, WriterFacts
      <3> QED
        BY <1>5, <3>2, <3>3
    <2>2. PICK f : f = fields[i]
      OBVIOUS
    <2>3. IsField(f) /\ x[f.name] \in Seq(Nat)
      BY <1>1, <2>2, Zenon DEF Laid
    <2>4. PICK bs \in Seq(Nat) : bs = x[f.name] /\ (f.slot => Len(bs) <= most)
      BY <1>1, <2>2, <2>3
    <2>5. value[i] = PutField(u, at, f, bs)
      BY <1>1, <1>2, <2>1, <2>2, <2>4, Zenon DEF Puts
    <2>6. value[i].len = k + (IF f.slot THEN Len(bs) ELSE 0)
      BY <2>1, <2>3, <2>5, FieldLen
    <2>7. value[i].len <= len + most * i
      <3>1. Len(bs) \in Nat
        OBVIOUS
      <3>2. PICK b \in Nat : b = Len(bs)
        BY <3>1
      <3>3. CASE f.slot
        <4>1. value[i].len = k + b /\ b <= most
          BY <2>4, <2>6, <3>2, <3>3
        <4> QED
          BY <2>1, <4>1
      <3>4. CASE ~f.slot
        <4>1. value[i].len = k
          BY <2>6, <3>4
        <4> QED
          BY <2>1, <4>1
      <3> QED
        BY <3>3, <3>4
    <2> QED
      BY <2>7
  <1>6. \A i \in 0..n : i \in S
    <2> HIDE DEF S
    <2> QED
      BY <1>4, <1>5, Upward
  <1>7. n \in S
    <2>1. n \in 0..n
      OBVIOUS
    <2> HIDE DEF S
    <2> QED
      BY <1>6, <2>1
  <1>8. value[n].len <= len + most * n
    BY <1>7
  <1> QED
    BY <1>1, <1>2, <1>3, <1>8

-----------------------------------------------------------------------------
(* Blocks: the table of the transactions, and their bodies behind it.      *)

(* What is written behind d leaves d as it is.                             *)
LEMMA KeptBehind ==
  ASSUME NEW d \in Seq(Nat), NEW e \in Seq(Nat), NEW f \in Seq(Nat),
         NEW from \in Nat, NEW to \in Nat, NEW a \in Nat, NEW b \in Nat,
         Kept(e, d, from, to), Kept(f, e, a, b), Len(d) <= a
  PROVE  Kept(f, d, from, to)
  <1>1. PICK k \in Nat, n \in Nat, m \in Nat : k = Len(d) /\ n = Len(e) /\ m = Len(f)
    OBVIOUS
  <1>2. k <= n /\ n <= m
    BY <1>1 DEF Kept
  <1>3. \A p \in 1..k : p \in 1..n /\ ~(a < p /\ p <= b)
    BY <1>1, <1>2
  <1> QED
    BY <1>1, <1>2, <1>3 DEF Kept

LEMMA AllHoldKept ==
  ASSUME NEW d \in Seq(Nat), NEW e \in Seq(Nat), NEW from \in Nat, NEW to \in Nat,
         Kept(e, d, from, to), NEW at \in Nat, NEW size \in Nat, NEW x, NEW fields,
         Laid(x, fields, size), NEW base \in Nat, NEW top \in Nat, NEW up \in Nat,
         top <= up, AllHold(d, at, x, fields, base, top), to <= base,
         at + size <= from \/ to <= at
  PROVE  AllHold(e, at, x, fields, base, up)
  <1>1. ASSUME NEW j \in 1..Len(fields)
        PROVE  FieldHolds(e, at, fields[j], x[fields[j].name], base, up)
    <2>1. PICK f : f = fields[j]
      OBVIOUS
    <2>2. IsField(f) /\ Sits(x, f, size)
      BY <2>1, LaidField
    <2>3. PICK bs \in Seq(Nat), p \in Nat, q \in Nat :
            bs = x[f.name] /\ p = f.at /\ q = Width(f, bs) /\ p + q <= size
      BY <2>2 DEF Sits
    <2>4. at + p + q <= from \/ to <= at
      <3>1. p + q <= size
        BY <2>3, Zenon
      <3> QED
        BY <3>1
    <2>5. at + f.at + Width(f, bs) <= from \/ to <= at
      BY <2>3, <2>4, Zenon
    <2>6. FieldHolds(d, at, f, bs, base, top)
      BY <2>1, <2>3, Zenon DEF AllHold
    <2>7. FieldHolds(e, at, f, bs, base, up)
      BY <2>2, <2>5, <2>6, FieldKept
    <2> QED
      BY <2>1, <2>3, <2>7
  <1> QED
    BY <1>1 DEF AllHold

-----------------------------------------------------------------------------
(* A transaction: its entry has the offset of its body.                    *)
BodyHeld(d, off, x) ==
  /\ Holds(d, off, Word(249))
  /\ AllHold(d, off, x, TransactionBodyFields, off + 249, Len(d))

TxHeld(d, at, x, base) ==
  \E off \in Nat : /\ base <= off /\ off + 249 <= Len(d)
                   /\ Holds(d, at, Word(off)) /\ BodyHeld(d, off, x)

LEMMA BodyBehind ==
  ASSUME NEW last \in Nat, NEW w \in Writer(last), NEW at \in Nat, at + 8 <= last,
         NEW x \in Values(TransactionBodyViewer)
  PROVE  LET v == TransactionBodyWrite(x, WriteAt(Alloc(w, 256), at, Word(w.len)), w.len)
         IN /\ v \in Writer(last) /\ w.len <= v.len
            /\ TxHeld(Bytes(v), at, x, last)
            /\ Kept(Bytes(v), Bytes(w), at, at + 4)
            /\ Holds(Bytes(v), at, Word(w.len)) /\ Holds(Bytes(v), w.len, Word(249))
            /\ w.len + 249 <= Len(Bytes(v))
  <1>1. PICK off \in Nat : off = w.len /\ last <= off
    BY WriterFacts
  <1>2. PICK base \in Nat, to \in Nat : base = off + 249 /\ to = at + 4
    OBVIOUS
  <1>3. PICK a \in Writer(base) : a = Alloc(w, 256) /\ Kept(Bytes(a), Bytes(w), at, to)
                                  /\ off <= a.len /\ a.len \in Nat
    <2>1. PICK a \in Writer(last) : /\ a = Alloc(w, 256) /\ a.len = off + 256
                                    /\ Kept(Bytes(a), Bytes(w), at, to)
      <3>1. PICK k \in Nat : k = 256
        OBVIOUS
      <3>2. PICK a \in Writer(last) : /\ a = Alloc(w, k) /\ a.len = w.len + k
                                      /\ \A f, t \in Nat : Kept(Bytes(a), Bytes(w), f, t)
        BY AllocKept
      <3> QED
        BY <1>1, <3>1, <3>2
    <2>2. a \in Writer(base)
      BY <1>2, <2>1 DEF Writer
    <2>3. off <= a.len /\ a.len \in Nat
      BY <2>1
    <2> QED
      BY <2>1, <2>2, <2>3
  <1>4. PICK s \in Seq(Nat) : s = Word(off) /\ Len(s) = 4
    BY WordSeq
  <1>5. PICK b \in Writer(base) : /\ b = WriteAt(a, at, s) /\ b.len = a.len
                                  /\ Holds(Bytes(b), at, s) /\ Kept(Bytes(b), Bytes(a), at, to)
    <2>1. at + Len(s) <= a.len /\ at + Len(s) = to
      BY <1>1, <1>2, <1>3, <1>4
    <2> QED
      BY <2>1, WriteHolds
  <1>6. PICK v : v = TransactionBodyWrite(x, b, off) /\ v = Put(x, b, off, 249, TransactionBodyFields)
    <2>1. off # 0
      BY <1>1
    <2> QED
      BY <2>1 DEF TransactionBodyWrite, Area, Offset
  <1>7. Laid(x, TransactionBodyFields, 249)
    BY TransactionBodyAgree, AgreeFits
  <1>8. PutInv(v, Len(TransactionBodyFields), x, b, off, 249, TransactionBodyFields)
    <2>1. b \in Writer(off + 249) /\ 249 \in Nat /\ 4 <= 249
      BY <1>2
    <2> QED
      BY <1>6, <1>7, <2>1, PutFacts
  <1>9. v \in Writer(base) /\ b.len <= v.len
    BY <1>2, <1>8, Zenon DEF PutInv
  <1>10. PICK W \in Seq(Nat), A \in Seq(Nat), B \in Seq(Nat), V \in Seq(Nat) :
           /\ W = Bytes(w) /\ A = Bytes(a) /\ B = Bytes(b) /\ V = Bytes(v)
           /\ Len(W) = off /\ Len(V) = v.len
    BY <1>1, <1>3, <1>5, <1>9, BytesFacts
  <1>11. v.len \in Nat /\ base <= v.len
    BY <1>9, WriterFacts
  <1>12. Kept(V, B, off, base)
    BY <1>2, <1>8, <1>10, Zenon DEF PutInv
  <1>13. Kept(V, W, at, to)
    <2>1. Kept(B, W, at, to)
      BY <1>3, <1>5, <1>10, KeptTrans
    <2>2. Len(W) <= off
      BY <1>10
    <2> QED
      BY <1>12, <2>1, <2>2, KeptBehind
  <1>14. Holds(V, at, s)
    <2>1. Holds(B, at, s)
      BY <1>5, <1>10
    <2>2. at + Len(s) <= off
      BY <1>1, <1>4
    <2> QED
      BY <1>12, <2>1, <2>2, HoldsKept
  <1>15. BodyHeld(V, off, x)
    <2>1. Holds(V, off, Word(249))
      BY <1>8, <1>10, Zenon DEF PutInv
    <2>2. AllHold(V, off, x, TransactionBodyFields, off + 249, Len(V))
      BY <1>8, <1>10, Zenon DEF PutInv, AllHold
    <2> QED
      BY <2>1, <2>2 DEF BodyHeld
  <1>16. TxHeld(V, at, x, last)
    <2>1. off + 249 <= Len(V)
      BY <1>2, <1>10, <1>11
    <2> QED
      BY <1>1, <1>4, <1>14, <1>15, <2>1 DEF TxHeld
  <1>17. v \in Writer(last)
    <2>1. v \in [mem : Seq(Nat), len : Nat] /\ v.len <= Len(v.mem)
      BY <1>9 DEF Writer
    <2>2. last <= v.len
      BY <1>1, <1>2, <1>11
    <2> QED
      BY <2>1, <2>2 DEF Writer
  <1>18. w.len <= v.len
    BY <1>1, <1>2, <1>11
  <1>19. v = TransactionBodyWrite(x, WriteAt(Alloc(w, 256), at, Word(w.len)), w.len)
    BY <1>1, <1>3, <1>4, <1>5, <1>6, Zenon
  <1>20. /\ Holds(V, at, Word(w.len)) /\ Holds(V, w.len, Word(249))
         /\ w.len + 249 <= Len(V)
    <2>1. off + 249 <= Len(V)
      BY <1>2, <1>10, <1>11
    <2>2. Holds(V, at, Word(off)) /\ Holds(V, off, Word(249))
      BY <1>4, <1>14, <1>15 DEF BodyHeld
    <2> QED
      BY <1>1, <2>1, <2>2, Zenon
  <1> QED
    BY <1>2, <1>10, <1>13, <1>16, <1>17, <1>18, <1>19, <1>20

(* The length of a body, of a transaction and of a block.                  *)
Short(x, most) ==
  \A name \in DOMAIN TransactionBodyViewer :
    TransactionBodyViewer[name].slot => Len(x[name]) <= most

LEMMA BodyLen ==
  ASSUME NEW last \in Nat, NEW w \in Writer(last), NEW at \in Nat, at + 8 <= last,
         NEW x \in Values(TransactionBodyViewer), NEW most \in Nat, Short(x, most)
  PROVE  LET v == TransactionBodyWrite(x, WriteAt(Alloc(w, 256), at, Word(w.len)), w.len)
         IN v.len <= w.len + 256 + most * 16
  <1>1. PICK off \in Nat : off = w.len /\ last <= off
    BY WriterFacts
  <1>2. PICK base \in Nat : base = off + 249
    OBVIOUS
  <1>3. PICK a \in Writer(base) : a = Alloc(w, 256) /\ a.len = off + 256
    <2>1. PICK k \in Nat : k = 256
      OBVIOUS
    <2>2. PICK a \in Writer(last) : a = Alloc(w, k) /\ a.len = w.len + k
      BY AllocKept
    <2>3. a \in Writer(base)
      BY <1>1, <1>2, <2>1, <2>2 DEF Writer
    <2> QED
      BY <1>1, <2>1, <2>2, <2>3
  <1>4. PICK s \in Seq(Nat) : s = Word(off) /\ Len(s) = 4
    BY WordSeq
  <1>5. PICK b \in Writer(base) : b = WriteAt(a, at, s) /\ b.len = off + 256
    <2>1. at + Len(s) <= a.len
      BY <1>1, <1>3, <1>4
    <2> QED
      BY <1>3, <2>1, WriteHolds
  <1>6. PICK v : v = TransactionBodyWrite(x, b, off) /\ v = Put(x, b, off, 249, TransactionBodyFields)
    <2>1. off # 0
      BY <1>1
    <2> QED
      BY <2>1 DEF TransactionBodyWrite, Area, Offset
  <1>7. PICK F : F = TransactionBodyFields /\ Len(F) = 16
    <2>1. Len(TransactionBodyFields) = 16
      BY DEF TransactionBodyFields
    <2> QED
      BY <2>1
  <1>8. Laid(x, F, 249) /\ Agree(F, TransactionBodyViewer, 249)
    BY <1>7, TransactionBodyAgree, AgreeFits
  <1>9. ASSUME NEW i \in 1..Len(F), F[i].slot
        PROVE  Len(x[F[i].name]) <= most
    <2>1. /\ F[i].name \in DOMAIN TransactionBodyViewer
          /\ Shows(TransactionBodyViewer[F[i].name], F[i], 249)
      BY <1>8, Zenon DEF Agree
    <2>2. TransactionBodyViewer[F[i].name].slot
      BY <1>9, <2>1, Zenon DEF Shows
    <2> QED
      BY <2>1, <2>2 DEF Short
  <1>10. v.len <= b.len + most * Len(F)
    <2>1. b \in Writer(off + 249) /\ 249 \in Nat /\ 4 <= 249
      BY <1>2
    <2>2. Put(x, b, off, 249, F).len <= b.len + most * Len(F)
      BY <1>8, <1>9, <2>1, PutBound
    <2> QED
      BY <1>6, <1>7, <2>2
  <1>11. v = TransactionBodyWrite(x, WriteAt(Alloc(w, 256), at, Word(w.len)), w.len)
    BY <1>1, <1>3, <1>4, <1>5, <1>6, Zenon
  <1>12. v.len <= off + 256 + most * 16
    BY <1>5, <1>7, <1>10
  <1> QED
    BY <1>1, <1>11, <1>12, Zenon

LEMMA TxLen ==
  ASSUME NEW last \in Nat, NEW u \in Writer(last), NEW at \in Nat, at # 0, at + 8 <= last,
         NEW x \in Values(TransactionBodyViewer), NEW most \in Nat, Short(x, most)
  PROVE  TransactionWrite(x, u, at).len <= u.len + 256 + most * 16
  <1>1. Area(u, at, 8) = u /\ Offset(u, at) = at
    BY DEF Area, Offset
  <1>2. TransactionWrite(x, u, at) =
          TransactionBodyWrite(x, WriteAt(Alloc(u, 256), at, Word(u.len)), u.len)
    BY <1>1, Zenon DEF TransactionWrite
  <1> QED
    BY <1>2, BodyLen

(* A sample of a transaction by itself.                                    *)
LEMMA TransactionLen ==
  ASSUME NEW x \in Values(TransactionBodyViewer), NEW most \in Nat, Short(x, most)
  PROVE  Len(SerializeTransaction(x)) <= 264 + most * 16
  <1>1. PICK w \in Writer(8) : w = Alloc(NewWriter, 8) /\ w.len = 8
    BY NewWriterFacts
  <1>2. Area(NewWriter, 0, 8) = w /\ Offset(NewWriter, 0) = 0
    BY <1>1, NewWriterFacts DEF Area, Offset
  <1>3. PICK v : v = TransactionWrite(x, NewWriter, 0) /\ v \in Writer(8)
                 /\ v.len <= w.len + 256 + most * 16
    <2>1. TransactionWrite(x, NewWriter, 0) =
            TransactionBodyWrite(x, WriteAt(Alloc(w, 256), 0, Word(w.len)), w.len)
      BY <1>2, Zenon DEF TransactionWrite
    <2>2. 0 \in Nat /\ 8 \in Nat /\ 0 + 8 <= 8
      OBVIOUS
    <2> QED
      BY <2>1, <2>2, BodyBehind, BodyLen
  <1>4. Len(Bytes(v)) = v.len /\ v.len \in Nat
    BY <1>3, WriterFacts, BytesFacts
  <1>5. Bytes(v) = SerializeTransaction(x)
    BY <1>3 DEF SerializeTransaction
  <1> QED
    BY <1>1, <1>3, <1>4, <1>5

(* The reader follows the offset.                                          *)
LEMMA TxRead ==
  ASSUME NEW d \in Seq(Nat), NEW at \in Nat, NEW base \in Nat,
         NEW x \in Values(TransactionBodyViewer),
         TxHeld(d, at, x, base), Small(Len(d)), at + 8 <= Len(d)
  PROVE  TransactionRead(d, at) = x
  <1>1. PICK off \in Nat : off + 249 <= Len(d) /\ Holds(d, at, Word(off)) /\ BodyHeld(d, off, x)
    BY DEF TxHeld
  <1>2. PICK top \in Nat : top = Len(d) /\ Small(top) /\ off <= top /\ 249 <= top
    BY <1>1
  <1>3. Small(off) /\ Small(249) /\ 249 \in Nat
    BY <1>2, SmallBelow
  <1>4. WordAt(d, at) = off
    BY <1>1, <1>3, WordRead
  <1>5. TransactionViewer(d, at) = off
    BY <1>4 DEF TransactionViewer, IsValidOffset
  <1>6. Fits(TransactionBodyViewer, TransactionBodyFields, 249)
    BY TransactionBodyAgree, AgreeFits
  <1>7. Read(d, off, TransactionBodyViewer) = x
    <2>1. /\ Holds(d, off, Word(249))
          /\ AllHold(d, off, x, TransactionBodyFields, off + 249, top)
      BY <1>1, <1>2, Zenon DEF BodyHeld
    <2>2. PICK base2 \in Nat : base2 = off + 249
      OBVIOUS
    <2>3. AllHold(d, off, x, TransactionBodyFields, base2, top) /\ 8 <= 249
      BY <2>1, <2>2
    <2> QED
      BY <1>1, <1>2, <1>3, <1>6, <2>1, <2>3, ReadFacts
  <1> QED
    BY <1>5, <1>7 DEF TransactionRead, TransactionBodyRead

LEMMA TxHeldKept ==
  ASSUME NEW d \in Seq(Nat), NEW e \in Seq(Nat), NEW from \in Nat, NEW to \in Nat,
         Kept(e, d, from, to), NEW at \in Nat, NEW base \in Nat,
         NEW x \in Values(TransactionBodyViewer), TxHeld(d, at, x, base), to <= base,
         at + 4 <= from \/ to <= at
  PROVE  TxHeld(e, at, x, base)
  <1>1. PICK off \in Nat : /\ base <= off /\ off + 249 <= Len(d)
                           /\ Holds(d, at, Word(off)) /\ BodyHeld(d, off, x)
    BY DEF TxHeld
  <1>2. PICK n \in Nat, m \in Nat : n = Len(d) /\ m = Len(e) /\ n <= m
    BY DEF Kept
  <1>3. PICK s \in Seq(Nat) : s = Word(off) /\ Len(s) = 4
    BY WordSeq
  <1>4. Holds(e, at, s)
    <2>1. Holds(d, at, s)
      BY <1>1, <1>3
    <2>2. at + Len(s) <= from \/ to <= at
      BY <1>3
    <2> QED
      BY <2>1, <2>2, HoldsKept
  <1>5. PICK size \in Nat : size = 249
    OBVIOUS
  <1>6. Holds(e, off, Word(249))
    <2>1. PICK u \in Seq(Nat) : u = Word(size) /\ Len(u) = 4
      BY WordSeq
    <2>2. Holds(d, off, u)
      BY <1>1, <1>5, <2>1 DEF BodyHeld
    <2>3. to <= off
      BY <1>1
    <2>4. Holds(e, off, u)
      BY <2>2, <2>3, HoldsKept
    <2> QED
      BY <1>5, <2>1, <2>4
  <1>7. AllHold(e, off, x, TransactionBodyFields, off + 249, Len(e))
    <2>1. PICK b \in Nat : b = off + 249 /\ to <= off /\ to <= b
      BY <1>1
    <2>2. Laid(x, TransactionBodyFields, size)
      BY <1>5, TransactionBodyAgree, AgreeFits
    <2>3. AllHold(d, off, x, TransactionBodyFields, b, n)
      BY <1>1, <1>2, <2>1 DEF BodyHeld
    <2>4. AllHold(e, off, x, TransactionBodyFields, b, m)
      BY <1>2, <2>1, <2>2, <2>3, AllHoldKept
    <2> QED
      BY <1>2, <2>1, <2>4
  <1>8. off + 249 <= Len(e)
    BY <1>1, <1>2
  <1> QED
    BY <1>1, <1>3, <1>4, <1>6, <1>7, <1>8 DEF TxHeld, BodyHeld

(* The entries of the transactions, filled in one after the other.         *)
Entry(m, j) == m + 8 * (j - 1)

EntryInv(v, i, c, m, last, txs) ==
  /\ v \in Writer(last) /\ Kept(Bytes(v), Bytes(c), m, last)
  /\ \A j \in 1..i : TxHeld(Bytes(v), Entry(m, j), txs[j], last)

LEMMA EntryGoesOn ==
  ASSUME NEW m \in Nat, NEW last \in Nat, NEW c \in Writer(last), 1 <= m,
         NEW txs \in Seq(Values(TransactionBodyViewer)), last = m + 8 * Len(txs),
         NEW i \in 1..Len(txs), NEW u, EntryInv(u, i - 1, c, m, last, txs)
  PROVE  EntryInv(TransactionWrite(txs[i], u, m + 8 * (i - 1)), i, c, m, last, txs)
  <1>1. PICK at \in Nat, x \in Values(TransactionBodyViewer) : at = m + 8 * (i - 1) /\ x = txs[i]
    OBVIOUS
  <1>2. m <= at /\ at + 8 <= last /\ at # 0
    BY <1>1
  <1>3. u \in Writer(last)
    BY DEF EntryInv
  <1>4. PICK v \in Writer(last) : /\ v = TransactionWrite(x, u, at)
                                  /\ TxHeld(Bytes(v), at, x, last)
                                  /\ Kept(Bytes(v), Bytes(u), at, at + 4)
    <2>1. /\ Area(u, at, 8) = u /\ Offset(u, at) = at
      BY <1>2 DEF Area, Offset
    <2>2. TransactionWrite(x, u, at) =
            TransactionBodyWrite(x, WriteAt(Alloc(u, 256), at, Word(u.len)), u.len)
      BY <2>1, Zenon DEF TransactionWrite
    <2> QED
      BY <1>2, <1>3, <2>2, BodyBehind
  <1>5. PICK C \in Seq(Nat), U \in Seq(Nat), V \in Seq(Nat) :
          C = Bytes(c) /\ U = Bytes(u) /\ V = Bytes(v)
    BY <1>3, <1>4, BytesFacts
  <1>6. PICK to \in Nat : to = at + 4 /\ to <= last
    BY <1>2
  <1>7. Kept(V, U, at, to)
    BY <1>4, <1>5, <1>6
  <1>8. Kept(V, C, m, last)
    <2>1. Kept(V, U, m, last)
      <3>1. m <= at /\ to <= last
        BY <1>2, <1>6
      <3> QED
        BY <1>7, <3>1, KeptWiden
    <2>2. Kept(U, C, m, last)
      BY <1>5 DEF EntryInv
    <2> QED
      BY <2>1, <2>2, KeptTrans
  <1>9. ASSUME NEW j \in 1..i
        PROVE  TxHeld(V, Entry(m, j), txs[j], last)
    <2>1. CASE j = i
      BY <1>1, <1>4, <1>5, <2>1 DEF Entry
    <2>2. CASE j # i
      <3>1. PICK e \in Nat, y \in Values(TransactionBodyViewer) :
              e = Entry(m, j) /\ y = txs[j] /\ e + 4 <= at
        <4>1. j \in 1..(i - 1) /\ j \in 1..Len(txs)
          BY <2>2
        <4>2. m + 8 * (j - 1) \in Nat /\ m + 8 * (j - 1) + 4 <= at
          BY <1>1, <4>1
        <4> QED
          BY <4>1, <4>2 DEF Entry
      <3>2. TxHeld(U, e, y, last)
        <4>1. j \in 1..(i - 1)
          BY <2>2
        <4> QED
          BY <1>5, <3>1, <4>1 DEF EntryInv
      <3>3. TxHeld(V, e, y, last)
        BY <1>6, <1>7, <3>1, <3>2, TxHeldKept
      <3> QED
        BY <3>1, <3>3
    <2> QED
      BY <2>1, <2>2
  <1> QED
    BY <1>1, <1>4, <1>5, <1>8, <1>9 DEF EntryInv

LEMMA EntriesWritten ==
  ASSUME NEW m \in Nat, NEW last \in Nat, NEW c \in Writer(last), 1 <= m,
         NEW txs \in Seq(Values(TransactionBodyViewer)), last = m + 8 * Len(txs),
         NEW written, written[0] = c,
         \A i \in 1..Len(txs) :
           written[i] = TransactionWrite(txs[i], written[i - 1], m + 8 * (i - 1))
  PROVE  EntryInv(written[Len(txs)], Len(txs), c, m, last, txs)
  <1>1. PICK n \in Nat : n = Len(txs)
    OBVIOUS
  <1> DEFINE S == {i \in 0..n : EntryInv(written[i], i, c, m, last, txs)}
  <1>2. 0 \in S
    <2>1. PICK C \in Seq(Nat) : C = Bytes(c)
      BY BytesFacts
    <2>2. Kept(C, C, m, last)
      BY DEF Kept
    <2>3. EntryInv(c, 0, c, m, last, txs)
      BY <2>1, <2>2 DEF EntryInv
    <2> QED
      BY <1>1, <2>3
  <1>3. ASSUME NEW i \in 1..n, i - 1 \in S
        PROVE  i \in S
    <2>1. EntryInv(written[i - 1], i - 1, c, m, last, txs)
      BY <1>3
    <2>2. written[i] = TransactionWrite(txs[i], written[i - 1], m + 8 * (i - 1))
      BY <1>1
    <2>3. EntryInv(written[i], i, c, m, last, txs)
      BY <1>1, <2>1, <2>2, EntryGoesOn
    <2> QED
      BY <2>3
  <1>4. \A i \in 0..n : i \in S
    <2> HIDE DEF S
    <2> QED
      BY <1>2, <1>3, Upward
  <1>5. n \in S
    BY <1>1, <1>4
  <1> QED
    BY <1>1, <1>5

(* Where an entry of the table is, and what the entries and areas add up to. *)
LEMMA EntryPlace ==
  ASSUME NEW m \in Nat, 1 <= m, NEW n \in Nat, NEW i \in 1..n
  PROVE  \E at \in Nat : at = m + 8 * (i - 1) /\ at + 8 <= m + 8 * n /\ at # 0
  OBVIOUS

LEMMA Spread ==
  ASSUME NEW m \in Nat, NEW n \in Nat, NEW cost \in Nat, NEW len \in Nat,
         len <= (m + 8 * n) + cost * n
  PROVE  len <= m + (cost + 8) * n
  <1>1. (cost + 8) * n = cost * n + 8 * n
    OBVIOUS
  <1>2. cost * n \in Nat
    OBVIOUS
  <1> QED
    BY <1>1, <1>2

Fills(written, c, m, txs) ==
  /\ written[0] = c
  /\ \A i \in 1..Len(txs) :
       written[i] = TransactionWrite(txs[i], written[i - 1], m + 8 * (i - 1))

AllShort(txs, most) == \A i \in 1..Len(txs) : Short(txs[i], most)

LEMMA EntriesLen ==
  ASSUME NEW m \in Nat, NEW last \in Nat, NEW c \in Writer(last), 1 <= m,
         NEW txs \in Seq(Values(TransactionBodyViewer)), last = m + 8 * Len(txs),
         NEW written, Fills(written, c, m, txs), NEW most \in Nat, AllShort(txs, most)
  PROVE  written[Len(txs)].len <= c.len + (256 + most * 16) * Len(txs)
  <1>0. /\ written[0] = c
        /\ \A i \in 1..Len(txs) :
             /\ written[i] = TransactionWrite(txs[i], written[i - 1], m + 8 * (i - 1))
             /\ Short(txs[i], most)
    BY Zenon DEF Fills, AllShort
  <1>1. PICK n \in Nat, cost \in Nat, len \in Nat :
          n = Len(txs) /\ cost = 256 + most * 16 /\ len = c.len
    <2>1. PICK len \in Nat : len = c.len
      BY WriterFacts
    <2>2. PICK n \in Nat, cost \in Nat : n = Len(txs) /\ cost = 256 + most * 16
      OBVIOUS
    <2> QED
      BY <2>1, <2>2
  <1> DEFINE S == {i \in 0..n : written[i] \in Writer(last) /\ written[i].len <= len + cost * i}
  <1>2. 0 \in S
    BY <1>0, <1>1
  <1>3. ASSUME NEW i \in 1..n, i - 1 \in S
        PROVE  i \in S
    <2>1. PICK u \in Writer(last), k \in Nat :
            u = written[i - 1] /\ k = u.len /\ k <= len + cost * (i - 1)
      BY <1>3, WriterFacts
    <2>2. PICK at \in Nat, x \in Values(TransactionBodyViewer) :
            at = m + 8 * (i - 1) /\ x = txs[i] /\ at + 8 <= last /\ at # 0 /\ Short(x, most)
      <3>1. PICK at \in Nat : at = m + 8 * (i - 1) /\ at + 8 <= last /\ at # 0
        <4>1. PICK at \in Nat : at = m + 8 * (i - 1) /\ at + 8 <= m + 8 * n /\ at # 0
          BY EntryPlace
        <4>2. m + 8 * n = last
          BY <1>1
        <4> QED
          BY <4>1, <4>2, Zenon
      <3>2. i \in 1..Len(txs)
        BY <1>1
      <3>3. PICK x \in Values(TransactionBodyViewer) : x = txs[i]
        BY <3>2
      <3>4. Short(x, most)
        BY <1>0, <3>2, <3>3
      <3> QED
        BY <3>1, <3>3, <3>4, Zenon
    <2>3. PICK v : v = written[i] /\ v = TransactionWrite(x, u, at)
      BY <1>0, <1>1, <2>1, <2>2
    <2>4. Area(u, at, 8) = u /\ Offset(u, at) = at
      BY <2>2 DEF Area, Offset
    <2>5. v = TransactionBodyWrite(x, WriteAt(Alloc(u, 256), at, Word(u.len)), u.len)
      BY <2>3, <2>4, Zenon DEF TransactionWrite
    <2>6. v \in Writer(last)
      BY <2>2, <2>5, BodyBehind
    <2>7. v.len <= u.len + 256 + most * 16
      BY <2>2, <2>3, TxLen
    <2>8. PICK l \in Nat : l = v.len
      BY <2>6, WriterFacts
    <2>9. l <= k + cost
      BY <1>1, <2>1, <2>7, <2>8
    <2>10. l <= len + cost * i
      BY <2>1, <2>9
    <2>11. i \in 0..n /\ written[i] \in Writer(last) /\ written[i].len <= len + cost * i
      <3>1. i \in 0..n
        OBVIOUS
      <3> QED
        BY <2>3, <2>6, <2>8, <2>10, <3>1, Zenon
    <2> QED
      BY <2>11, Zenon
  <1>4. \A i \in 0..n : i \in S
    <2> HIDE DEF S
    <2> QED
      BY <1>2, <1>3, Upward
  <1>5. n \in S
    <2> n \in 0..n
      OBVIOUS
    <2> HIDE DEF S
    <2> QED
      BY <1>4
  <1>6. written[n].len <= len + cost * n
    BY <1>5
  <1> QED
    BY <1>1, <1>6

(* The recursive function of BlockWrite.                                   *)
IsEntries(written, c, m, txs) ==
  written = [i \in 0..Len(txs) |->
               IF i = 0 THEN c
               ELSE TransactionWrite(txs[i], written[i - 1], m + 8 * (i - 1))]

Entries(c, m, txs) ==
  LET written[i \in 0..Len(txs)] ==
        IF i = 0 THEN c
        ELSE TransactionWrite(txs[i], written[i - 1], m + 8 * (i - 1))
  IN written[Len(txs)]

LEMMA EntriesExist ==
  ASSUME NEW m \in Nat, NEW last \in Nat, NEW c \in Writer(last), 1 <= m,
         NEW txs \in Seq(Values(TransactionBodyViewer)), last = m + 8 * Len(txs)
  PROVE  \E written : /\ IsEntries(written, c, m, txs)
                      /\ Entries(c, m, txs) = written[Len(txs)]
  <1> DEFINE E(i, u) == TransactionWrite(txs[i], u, m + 8 * (i - 1))
  <1>0. PICK n \in Nat : n = Len(txs)
    OBVIOUS
  <1>1. PICK V : n = Len(txs) /\ V = Writer(last)
    BY <1>0
  <1>2. ASSUME NEW i \in 1..n, NEW u \in V
        PROVE  E(i, u) \in V
    <2>1. PICK at \in Nat, x \in Values(TransactionBodyViewer) :
            at = m + 8 * (i - 1) /\ x = txs[i] /\ at + 8 <= last /\ at # 0
      BY <1>1
    <2>2. Area(u, at, 8) = u /\ Offset(u, at) = at
      BY <2>1 DEF Area, Offset
    <2>3. TransactionWrite(x, u, at) =
            TransactionBodyWrite(x, WriteAt(Alloc(u, 256), at, Word(u.len)), u.len)
      BY <2>2, Zenon DEF TransactionWrite
    <2>4. TransactionWrite(x, u, at) \in Writer(last)
      BY <1>1, <2>1, <2>3, BodyBehind
    <2> QED
      BY <1>1, <2>1, <2>4
  <1>3. PICK step \in Steps(V, n) : \A i \in 1..n, u \in V : step[i][u] = E(i, u)
    <2> DEFINE g == [i \in 1..n |-> [u \in V |-> E(i, u)]]
    <2> HIDE DEF E
    <2>1. g \in [1..n -> [V -> V]] /\ \A i \in 1..n, u \in V : g[i][u] = E(i, u)
      BY <1>2
    <2> HIDE DEF g
    <2> QED
      BY <2>1 DEF Steps
  <1>4. PICK g : Solves(g, V, n, c, step)
    BY <1>1, StepsExist
  <1>5. /\ g \in [0..n -> V] /\ g[0] = c
        /\ \A i \in 1..n : g[i] = step[i][g[i - 1]]
    BY <1>4 DEF Solves
  <1>6. \A i \in 1..n : g[i] = E(i, g[i - 1])
    <2> HIDE DEF E
    <2> QED
      BY <1>3, <1>5
  <1>7. \A i \in 0..n : g[i] = IF i = 0 THEN c ELSE E(i, g[i - 1])
    <2>1. \A i \in 0..n : i = 0 \/ i \in 1..n
      OBVIOUS
    <2> HIDE DEF E
    <2> QED
      BY <1>5, <1>6, <2>1
  <1>8. g = [i \in 0..n |-> IF i = 0 THEN c ELSE E(i, g[i - 1])]
    <2> HIDE DEF E
    <2> QED
      BY <1>5, <1>7, Zenon
  <1>9. IsEntries(g, c, m, txs)
    BY <1>1, <1>8, Zenon DEF IsEntries
  <1> QED
    BY <1>9, Zenon DEF Entries, IsEntries

(* The blocks that are written, and what their bytes hold: the header at   *)
(* 24, from m on an entry for each transaction, the bodies behind them.    *)
BlockValues ==
  [Header : Values(BlockHeaderViewer), Transactions : Seq(Values(TransactionBodyViewer))]

HeaderHeld(d, h, m) ==
  /\ Holds(d, 0, Word(20)) /\ Holds(d, 4, Word(24)) /\ Holds(d, 24, Word(169))
  /\ AllHold(d, 24, h, BlockHeaderFields, 193, m)

BlockHeld(d, x, m) ==
  LET n == Len(x.Transactions)
  IN /\ HeaderHeld(d, x.Header, m)
     /\ Holds(d, 8, Word(m)) /\ Holds(d, 12, Word(8 * n)) /\ m + 8 * n <= Len(d)
     /\ \A j \in 1..n : TxHeld(d, Entry(m, j), x.Transactions[j], m + 8 * n)

HeaderWriter(h) ==
  LET a == WriteAt(Alloc(NewWriter, 24), 0, Word(20))
  IN BlockHeaderWrite(h, WriteAt(Alloc(a, 176), 4, Word(24)), 24)

LEMMA HeaderWritten ==
  ASSUME NEW h \in Values(BlockHeaderViewer)
  PROVE  LET b == HeaderWriter(h)
         IN /\ b \in Writer(193) /\ HeaderHeld(Bytes(b), h, b.len)
            /\ \E w \in Writer(193) : w.len = 200 /\ b = Put(h, w, 24, 169, BlockHeaderFields)
  <1>1. PICK z \in Writer(24) : z = Alloc(NewWriter, 24) /\ z.len = 24
    BY NewWriterFacts
  <1>2. PICK s \in Seq(Nat) : s = Word(20) /\ Len(s) = 4
    BY WordSeq
  <1>3. PICK s4 \in Seq(Nat) : s4 = Word(24) /\ Len(s4) = 4
    BY WordSeq
  <1>4. PICK a \in Writer(24) : /\ a = WriteAt(z, 0, s) /\ a.len = 24
                                /\ Holds(Bytes(a), 0, s)
    <2>1. 0 \in Nat /\ 24 \in Nat /\ 0 + Len(s) <= z.len
      <3>1. Len(s) = 4 /\ z.len = 24
        BY <1>1, <1>2, Zenon
      <3>2. 0 + Len(s) <= z.len
        BY <3>1
      <3> QED
        BY <3>2
    <2> QED
      BY <1>1, <2>1, WriteHolds
  <1>5. PICK y \in Writer(193) : /\ y = Alloc(a, 176) /\ y.len = 200
                                 /\ Kept(Bytes(y), Bytes(a), 4, 8)
    <2>1. PICK k \in Nat : k = 176
      OBVIOUS
    <2>2. PICK y \in Writer(24) : /\ y = Alloc(a, k) /\ y.len = a.len + k
                                  /\ \A f, t \in Nat : Kept(Bytes(y), Bytes(a), f, t)
      BY AllocKept
    <2>3. y.len = 200
      BY <1>4, <2>1, <2>2
    <2>4. y \in Writer(193)
      BY <2>2, <2>3 DEF Writer
    <2> QED
      BY <2>1, <2>2, <2>3, <2>4
  <1>6. PICK w \in Writer(193) : /\ w = WriteAt(y, 4, s4) /\ w.len = 200
                                 /\ Holds(Bytes(w), 4, s4) /\ Kept(Bytes(w), Bytes(y), 4, 8)
    <2>1. 4 \in Nat /\ 193 \in Nat /\ 4 + Len(s4) <= y.len /\ 4 + Len(s4) = 8
      <3>1. Len(s4) = 4 /\ y.len = 200
        BY <1>3, <1>5, Zenon
      <3>2. 4 + Len(s4) <= y.len /\ 4 + Len(s4) = 8
        BY <3>1
      <3> QED
        BY <3>2
    <2> QED
      BY <1>5, <2>1, WriteHolds
  <1>7. PICK b : b = HeaderWriter(h) /\ b = Put(h, w, 24, 169, BlockHeaderFields)
    <2>1. HeaderWriter(h) = BlockHeaderWrite(h, w, 24)
      BY <1>1, <1>2, <1>3, <1>4, <1>5, <1>6, Zenon DEF HeaderWriter
    <2>2. Area(w, 24, 176) = w /\ Offset(w, 24) = 24
      BY DEF Area, Offset
    <2> QED
      BY <2>1, <2>2, Zenon DEF BlockHeaderWrite
  <1>8. Laid(h, BlockHeaderFields, 169)
    BY BlockHeaderAgree, AgreeFits
  <1>9. PutInv(b, Len(BlockHeaderFields), h, w, 24, 169, BlockHeaderFields)
    <2>1. w \in Writer(24 + 169) /\ 169 \in Nat /\ 24 \in Nat /\ 4 <= 169
      BY <1>6
    <2> QED
      BY <1>7, <1>8, <2>1, PutFacts
  <1>10. b \in Writer(193)
    BY <1>9 DEF PutInv
  <1>11. PICK A \in Seq(Nat), Y \in Seq(Nat), W \in Seq(Nat), B \in Seq(Nat) :
           A = Bytes(a) /\ Y = Bytes(y) /\ W = Bytes(w) /\ B = Bytes(b)
    BY <1>4, <1>5, <1>6, <1>10, BytesFacts
  <1>12. PICK last \in Nat : last = 193 /\ last = 24 + 169
    OBVIOUS
  <1>13. Kept(B, W, 24, last)
    BY <1>9, <1>11, <1>12, Zenon DEF PutInv
  <1>14. Holds(B, 0, s) /\ Holds(B, 4, s4)
    <2>1. PICK zero \in Nat, four \in Nat, eight \in Nat, hd \in Nat :
            zero = 0 /\ four = 4 /\ eight = 8 /\ hd = 24
      OBVIOUS
    <2>2. Holds(A, zero, s) /\ Holds(W, four, s4)
      BY <1>4, <1>6, <1>11, <2>1
    <2>3. Kept(Y, A, four, eight) /\ Kept(W, Y, four, eight) /\ Kept(B, W, hd, last)
      BY <1>5, <1>6, <1>11, <1>13, <2>1
    <2>4. zero + Len(s) <= four /\ zero + Len(s) <= hd /\ four + Len(s4) <= hd
      <3>1. Len(s) = 4 /\ Len(s4) = 4
        BY <1>2, <1>3, Zenon
      <3> QED
        BY <2>1, <3>1
    <2>5. Holds(Y, zero, s)
      BY <2>2, <2>3, <2>4, HoldsKept
    <2>6. Holds(W, zero, s)
      BY <2>3, <2>4, <2>5, HoldsKept
    <2>7. Holds(B, zero, s)
      BY <2>3, <2>4, <2>6, HoldsKept
    <2>8. Holds(B, four, s4)
      BY <2>2, <2>3, <2>4, HoldsKept
    <2> QED
      BY <2>1, <2>7, <2>8
  <1>15. Holds(B, 24, Word(169)) /\ AllHold(B, 24, h, BlockHeaderFields, 193, b.len)
    <2>1. /\ Holds(B, 24, Word(169))
          /\ \A j \in 1..Len(BlockHeaderFields) :
               FieldHolds(B, 24, BlockHeaderFields[j], h[BlockHeaderFields[j].name], 24 + 169, b.len)
      BY <1>9, <1>11, Zenon DEF PutInv
    <2>2. \A j \in 1..Len(BlockHeaderFields) :
            FieldHolds(B, 24, BlockHeaderFields[j], h[BlockHeaderFields[j].name], 193, b.len)
      <3>1. PICK base : base = 24 + 169
        OBVIOUS
      <3>2. \A j \in 1..Len(BlockHeaderFields) :
              FieldHolds(B, 24, BlockHeaderFields[j], h[BlockHeaderFields[j].name], base, b.len)
        BY <2>1, <3>1, Zenon
      <3>3. base = 193
        BY <3>1
      <3> QED
        BY <3>2, <3>3, Zenon
    <2> QED
      BY <2>1, <2>2, Zenon DEF AllHold
  <1>16. b \in Writer(193) /\ HeaderHeld(Bytes(b), h, b.len)
    BY <1>2, <1>3, <1>10, <1>11, <1>14, <1>15 DEF HeaderHeld
  <1> QED
    BY <1>6, <1>7, <1>16, Zenon

LEMMA BlockWritten ==
  ASSUME NEW x \in BlockValues
  PROVE  \E d \in Seq(Nat), m \in Nat :
           /\ d = SerializeBlock(x) /\ m = HeaderWriter(x.Header).len
           /\ 193 <= m /\ BlockHeld(d, x, m)
           /\ \A most \in Nat :
                (\A i \in DOMAIN x.Transactions : Short(x.Transactions[i], most)) =>
                   Len(d) <= m + (264 + most * 16) * Len(x.Transactions)
  <1>1. PICK h \in Values(BlockHeaderViewer), txs \in Seq(Values(TransactionBodyViewer)) :
          h = x.Header /\ txs = x.Transactions
    BY DEF BlockValues
  <1>2. PICK b \in Writer(193) : b = HeaderWriter(h) /\ HeaderHeld(Bytes(b), h, b.len)
    BY HeaderWritten
  <1>3. PICK m \in Nat, n \in Nat, last \in Nat :
          m = b.len /\ 193 <= m /\ n = Len(txs) /\ last = m + 8 * n
    <2>1. PICK m \in Nat : m = b.len /\ 193 <= m
      BY WriterFacts
    <2>2. PICK n \in Nat : n = Len(txs)
      OBVIOUS
    <2>3. PICK last \in Nat : last = m + 8 * n
      OBVIOUS
    <2> QED
      BY <2>1, <2>2, <2>3
  <1>4. PICK z \in Writer(last) : /\ z = Alloc(b, 8 * n) /\ z.len = last
                                  /\ Kept(Bytes(z), Bytes(b), 8, 20)
    <2>1. PICK k \in Nat, base \in Nat : k = 8 * n /\ base = 193
      OBVIOUS
    <2>5. b \in Writer(base)
      BY <2>1
    <2>2. PICK z \in Writer(base) : /\ z = Alloc(b, k) /\ z.len = b.len + k
                                   /\ \A f, t \in Nat : Kept(Bytes(z), Bytes(b), f, t)
      BY <2>5, AllocKept
    <2>3. z.len = last
      BY <1>3, <2>1, <2>2
    <2>4. z \in Writer(last)
      BY <2>2, <2>3 DEF Writer
    <2> QED
      BY <2>1, <2>2, <2>3, <2>4
  <1>5. PICK s1 \in Seq(Nat) : s1 = Word(m) /\ Len(s1) = 4
    BY WordSeq
  <1>6. PICK s2 \in Seq(Nat) : s2 = Word(8 * n) /\ Len(s2) = 4
    <2>1. 8 * n \in Nat
      OBVIOUS
    <2> QED
      BY <2>1, WordSeq
  <1>7. PICK s3 \in Seq(Nat) : s3 = Word(8) /\ Len(s3) = 4
    BY WordSeq
  <1>8. PICK s12 \in Seq(Nat) : s12 = s1 \o s2 /\ Len(s12) = 8
    <2>1. PICK c \in Seq(Nat) : IsJoin(c, s1, s2) /\ Len(c) = Len(s1) + Len(s2)
      BY Join
    <2>2. Len(s1) = 4 /\ Len(s2) = 4
      BY <1>5, <1>6, Zenon
    <2>3. Len(c) = 8
      BY <2>1, <2>2
    <2> QED
      BY <2>1, <2>3 DEF IsJoin
  <1>9. PICK s \in Seq(Nat) : s = s12 \o s3 /\ Len(s) = 12
    <2>1. PICK c \in Seq(Nat) : IsJoin(c, s12, s3) /\ Len(c) = Len(s12) + Len(s3)
      BY Join
    <2>2. Len(s12) = 8 /\ Len(s3) = 4
      BY <1>7, <1>8, Zenon
    <2>3. Len(c) = 12
      BY <2>1, <2>2
    <2> QED
      BY <2>1, <2>3 DEF IsJoin
  <1>10. PICK at \in Nat, end \in Nat : at = 8 /\ end = 20 /\ at + Len(s) = end
    BY <1>9
  <1>11. PICK c \in Writer(last) : /\ c = WriteAt(z, at, s) /\ c.len = last
                                   /\ Holds(Bytes(c), at, s) /\ Kept(Bytes(c), Bytes(z), at, end)
    <2>1. at + Len(s) <= z.len
      <3>1. z.len = last /\ at + Len(s) = end
        BY <1>4, <1>10, Zenon
      <3> QED
        BY <1>3, <1>10, <3>1
    <2> QED
      BY <1>4, <1>10, <2>1, WriteHolds
  <1>12. PICK written : /\ IsEntries(written, c, m, txs)
                        /\ BlockWrite(x, NewWriter) = written[Len(txs)]
    <2>1. PICK g : IsEntries(g, c, m, txs) /\ Entries(c, m, txs) = g[Len(txs)]
      <3>1. 1 <= m /\ last = m + 8 * Len(txs)
        BY <1>3
      <3> QED
        BY <3>1, EntriesExist
    <2>2. NewWriter.len = 0 /\ 0 + 4 = 4 /\ 0 + 8 = 8
      BY NewWriterFacts
    <2>3. WriteAt(Alloc(NewWriter, 24), 0, Word(20)).len = 24
      <3>1. PICK y \in Writer(24) : y = Alloc(NewWriter, 24) /\ y.len = 24
        BY NewWriterFacts
      <3>2. PICK u \in Seq(Nat) : u = Word(20) /\ Len(u) = 4
        BY WordSeq
      <3>3. 0 + Len(u) <= y.len /\ 0 \in Nat
        <4>1. Len(u) = 4 /\ y.len = 24
          BY <3>1, <3>2, Zenon
        <4> QED
          BY <4>1
      <3>4. WriteAt(y, 0, u).len = y.len
        BY <3>3, WriteAtFacts
      <3> QED
        BY <3>1, <3>2, <3>4, Zenon
    <2>4. b = LET a == WriteAt(Alloc(NewWriter, 24), NewWriter.len, Word(20))
              IN BlockHeaderWrite(x.Header,
                   WriteAt(Alloc(a, 176), NewWriter.len + 4, Word(a.len)), a.len)
      BY <1>1, <1>2, <2>2, <2>3, Zenon DEF HeaderWriter
    <2>5. c = WriteAt(Alloc(b, 8 * Len(txs)), NewWriter.len + 8,
                      Word(b.len) \o Word(8 * Len(txs)) \o Word(8))
      BY <1>3, <1>4, <1>5, <1>6, <1>7, <1>8, <1>9, <1>10, <1>11, <2>2, Zenon
    <2>6. BlockWrite(x, NewWriter) =
            LET a == WriteAt(Alloc(NewWriter, 24), NewWriter.len, Word(20))
                hd == BlockHeaderWrite(x.Header,
                        WriteAt(Alloc(a, 176), NewWriter.len + 4, Word(a.len)), a.len)
            IN Entries(WriteAt(Alloc(hd, 8 * Len(x.Transactions)), NewWriter.len + 8,
                         Word(hd.len) \o Word(8 * Len(x.Transactions)) \o Word(8)),
                       hd.len, x.Transactions)
      BY Zenon DEF BlockWrite, Entries
    <2>7. BlockWrite(x, NewWriter) = Entries(c, m, txs)
      BY <1>1, <1>3, <2>4, <2>5, <2>6, Zenon
    <2> QED
      BY <2>1, <2>7, Zenon
  <1>13. PICK v :
           /\ v = BlockWrite(x, NewWriter) /\ EntryInv(v, n, c, m, last, txs)
           /\ \A most \in Nat : (\A i \in 1..n : Short(txs[i], most)) =>
                v.len <= c.len + (256 + most * 16) * n
    <2>1. written[0] = c /\ \A i \in 1..n :
            written[i] = TransactionWrite(txs[i], written[i - 1], m + 8 * (i - 1))
      <3>1. \A i \in 0..n : written[i] =
              IF i = 0 THEN c ELSE TransactionWrite(txs[i], written[i - 1], m + 8 * (i - 1))
        BY <1>3, <1>12, Zenon DEF IsEntries
      <3>2. 0 \in 0..n /\ \A i \in 1..n : i \in 0..n /\ i # 0
        OBVIOUS
      <3> QED
        BY <3>1, <3>2, Zenon
    <2>2. 1 <= m /\ last = m + 8 * Len(txs)
      BY <1>3
    <2>3. EntryInv(written[Len(txs)], Len(txs), c, m, last, txs)
      BY <1>3, <2>1, <2>2, EntriesWritten
    <2>4. ASSUME NEW most \in Nat, \A i \in 1..n : Short(txs[i], most)
          PROVE  written[Len(txs)].len <= c.len + (256 + most * 16) * Len(txs)
      <3>1. AllShort(txs, most)
        BY <1>3, <2>4, Zenon DEF AllShort
      <3>2. Fills(written, c, m, txs)
        BY <1>3, <2>1, Zenon DEF Fills
      <3> QED
        BY <2>2, <3>1, <3>2, EntriesLen
    <2>5. Len(txs) = n
      BY <1>3
    <2>6. \A most \in Nat : (\A i \in 1..n : Short(txs[i], most)) =>
            written[Len(txs)].len <= c.len + (256 + most * 16) * Len(txs)
      BY <2>4, Zenon
    <2> QED
      BY <1>12, <2>3, <2>5, <2>6, Zenon
  <1>14. PICK B \in Seq(Nat), Z \in Seq(Nat), C \in Seq(Nat), V \in Seq(Nat) :
           /\ B = Bytes(b) /\ Z = Bytes(z) /\ C = Bytes(c) /\ V = Bytes(v)
           /\ Len(B) = m /\ Len(V) = v.len
    <2>1. v \in Writer(last)
      BY <1>13 DEF EntryInv
    <2> QED
      BY <1>3, <1>2, <1>4, <1>11, <2>1, BytesFacts
  <1>15. /\ Kept(C, B, at, end) /\ Kept(V, C, m, last) /\ end <= m /\ Len(B) <= m
    <2>1. Kept(Z, B, at, end) /\ Kept(C, Z, at, end)
      BY <1>4, <1>10, <1>11, <1>14
    <2>2. Kept(C, B, at, end)
      BY <2>1, KeptTrans
    <2>3. Kept(V, C, m, last)
      BY <1>13, <1>14 DEF EntryInv
    <2>4. end <= m /\ Len(B) <= m
      <3>1. Len(B) = m /\ 193 <= m /\ end = 20
        BY <1>3, <1>10, <1>14, Zenon
      <3> QED
        BY <3>1
    <2> QED
      BY <2>2, <2>3, <2>4
  <1>16. Kept(V, B, at, end)
    BY <1>15, KeptBehind
  <1>17. HeaderHeld(V, h, m)
    <2>1. HeaderHeld(B, h, m)
      BY <1>2, <1>3, <1>14
    <2>2. \A p \in Nat, bs \in Seq(Nat) :
            Holds(B, p, bs) /\ (p + Len(bs) <= at \/ end <= p) => Holds(V, p, bs)
      BY <1>16, HoldsKept
    <2>3. \A p, k \in Nat : Holds(B, p, Word(k)) /\ (p + 4 <= at \/ end <= p) => Holds(V, p, Word(k))
      <3> SUFFICES ASSUME NEW p \in Nat, NEW k \in Nat, Holds(B, p, Word(k)),
                          p + 4 <= at \/ end <= p
                   PROVE  Holds(V, p, Word(k))
        OBVIOUS
      <3>1. PICK u \in Seq(Nat) : u = Word(k) /\ Len(u) = 4
        BY WordSeq
      <3> QED
        BY <2>2, <3>1
    <2>4. PICK hd \in Nat, size \in Nat, base \in Nat :
            hd = 24 /\ size = 169 /\ base = 193 /\ end <= hd /\ end <= base
      BY <1>10
    <2>5. AllHold(V, hd, h, BlockHeaderFields, base, m)
      <3>1. Laid(h, BlockHeaderFields, size)
        BY <2>4, BlockHeaderAgree, AgreeFits
      <3>2. AllHold(B, hd, h, BlockHeaderFields, base, m)
        BY <2>1, <2>4 DEF HeaderHeld
      <3>3. m <= m /\ (hd + size <= at \/ end <= hd) /\ end <= base
        BY <2>4
      <3> QED
        BY <1>16, <3>1, <3>2, <3>3, AllHoldKept
    <2>6. Holds(V, 0, Word(20)) /\ Holds(V, 4, Word(24)) /\ Holds(V, 24, Word(169))
      BY <1>10, <2>1, <2>3 DEF HeaderHeld
    <2> QED
      BY <2>4, <2>5, <2>6 DEF HeaderHeld
  <1>18. Holds(V, 8, Word(m)) /\ Holds(V, 12, Word(8 * n))
    <2>1. Holds(C, at, s)
      BY <1>11, <1>14
    <2>2. Holds(C, at, s12)
      BY <1>9, <2>1, HoldsParts
    <2>3. Holds(C, at, s1) /\ Holds(C, at + Len(s1), s2)
      BY <1>8, <2>2, HoldsParts
    <2>4. PICK q \in Nat : q = 12 /\ q = at + Len(s1)
      BY <1>5, <1>10
    <2>5. at + Len(s1) <= m /\ q + Len(s2) <= m /\ Holds(C, q, s2)
      <3>1. Len(s1) = 4 /\ Len(s2) = 4
        BY <1>5, <1>6, Zenon
      <3>2. Holds(C, q, s2)
        BY <2>3, <2>4
      <3>3. at + Len(s1) <= m /\ q + Len(s2) <= m
        <4>1. 193 <= m /\ at = 8 /\ q = 12
          BY <1>3, <1>10, <2>4, Zenon
        <4> QED
          BY <3>1, <4>1
      <3> QED
        BY <3>2, <3>3
    <2>6. Holds(V, at, s1) /\ Holds(V, q, s2)
      BY <1>15, <2>3, <2>5, HoldsKept
    <2> QED
      BY <1>5, <1>6, <1>10, <2>4, <2>6
  <1>19. \A j \in 1..n : TxHeld(V, Entry(m, j), txs[j], last)
    BY <1>13, <1>14 DEF EntryInv
  <1>20. last <= Len(V)
    <2>1. v \in Writer(last)
      BY <1>13 DEF EntryInv
    <2>2. last <= v.len
      BY <2>1, WriterFacts
    <2> QED
      BY <1>14, <2>2
  <1>21. BlockHeld(V, x, m)
    BY <1>1, <1>3, <1>17, <1>18, <1>19, <1>20 DEF BlockHeld
  <1>22. V = SerializeBlock(x)
    BY <1>13, <1>14 DEF SerializeBlock
  <1>23. ASSUME NEW most \in Nat, \A i \in 1..n : Short(txs[i], most)
         PROVE  Len(V) <= m + (264 + most * 16) * n
    <2>1. PICK len \in Nat, cost \in Nat : len = Len(V) /\ cost = 256 + most * 16
      OBVIOUS
    <2>2. len <= last + cost * n
      <3>1. v.len <= c.len + (256 + most * 16) * n
        BY <1>13, <1>23, Zenon
      <3>2. v.len = len /\ c.len = last
        BY <1>11, <1>14, <2>1
      <3> QED
        BY <2>1, <3>1, <3>2, Zenon
    <2>3. 264 + most * 16 = cost + 8
      BY <2>1
    <2>4. len <= (m + 8 * n) + cost * n
      BY <1>3, <2>2, Zenon
    <2>5. len <= m + (cost + 8) * n
      BY <2>4, Spread
    <2> QED
      BY <2>1, <2>3, <2>5, Zenon
  <1>24. DOMAIN txs = 1..n
    BY <1>3
  <1> QED
    <2>1. V = SerializeBlock(x) /\ m = HeaderWriter(x.Header).len
      BY <1>1, <1>2, <1>3, <1>22, Zenon
    <2>2. \A most \in Nat :
            (\A i \in DOMAIN x.Transactions : Short(x.Transactions[i], most)) =>
               Len(V) <= m + (264 + most * 16) * Len(x.Transactions)
      BY <1>1, <1>3, <1>23, <1>24, Zenon
    <2>3. 193 <= m
      BY <1>3, Zenon
    <2> QED
      BY <1>21, <2>1, <2>2, <2>3, Zenon

LEMMA HeaderRead ==
  ASSUME NEW d \in Seq(Nat), NEW h \in Values(BlockHeaderViewer), NEW m \in Nat, Small(m),
         193 <= m, m <= Len(d), HeaderHeld(d, h, m)
  PROVE  Valid(d, 0) /\ WordAt(d, 4) = 24 /\ BlockHeaderRead(d, 24) = h
  <1>1. PICK size \in Nat, hd \in Nat, base \in Nat, four \in Nat, zero \in Nat, twenty \in Nat :
          /\ size = 169 /\ hd = 24 /\ base = 193 /\ four = 4 /\ zero = 0 /\ twenty = 20
          /\ size <= m /\ hd <= m /\ twenty <= m
    OBVIOUS
  <1>2. Small(size) /\ Small(hd) /\ Small(twenty)
    BY <1>1, SmallBelow
  <1>3. /\ Holds(d, zero, Word(twenty)) /\ Holds(d, four, Word(hd)) /\ Holds(d, hd, Word(size))
        /\ AllHold(d, hd, h, BlockHeaderFields, base, m)
    BY <1>1 DEF HeaderHeld
  <1>4. WordAt(d, zero) = twenty /\ WordAt(d, four) = hd
    BY <1>2, <1>3, WordRead
  <1>5. Valid(d, 0)
    <2>1. 0 + 8 <= Len(d) /\ 0 + 20 <= Len(d)
      OBVIOUS
    <2>2. WordAt(d, 0) = 20
      BY <1>1, <1>4
    <2> QED
      BY <2>1, <2>2 DEF Valid, IsValidOffset
  <1>6. Read(d, hd, BlockHeaderViewer) = h
    <2>1. Fits(BlockHeaderViewer, BlockHeaderFields, size)
      BY <1>1, BlockHeaderAgree, AgreeFits
    <2>2. 8 <= size /\ hd + size <= Len(d)
      BY <1>1
    <2> QED
      BY <1>2, <1>3, <2>1, <2>2, ReadFacts
  <1> QED
    BY <1>1, <1>4, <1>5, <1>6 DEF BlockHeaderRead

(* What is read of a block's bytes.                                        *)
LEMMA BlockHeadRead ==
  ASSUME NEW x \in BlockValues, NEW m, m = HeaderWriter(x.Header).len, Small(m)
  PROVE  DeserializeBlock(SerializeBlock(x)).Header = x.Header
  <1>1. PICK d \in Seq(Nat), k \in Nat :
          d = SerializeBlock(x) /\ k = m /\ 193 <= k /\ BlockHeld(d, x, k)
    BY BlockWritten
  <1>2. PICK h \in Values(BlockHeaderViewer), n \in Nat :
          h = x.Header /\ n = Len(x.Transactions)
    BY DEF BlockValues
  <1>3. HeaderHeld(d, h, k) /\ k + 8 * n <= Len(d)
    BY <1>1, <1>2 DEF BlockHeld
  <1>4. k <= Len(d) /\ Small(k)
    BY <1>1, <1>3
  <1>5. Valid(d, 0) /\ WordAt(d, 4) = 24 /\ BlockHeaderRead(d, 24) = h
    BY <1>1, <1>3, <1>4, HeaderRead
  <1>6. BlockRead(d).Header = BlockHeaderRead(d, 24)
    BY <1>5 DEF BlockRead, BlockViewer
  <1> QED
    BY <1>1, <1>2, <1>5, <1>6, Zenon DEF DeserializeBlock

(***************************************************************************)
(* SerializeBlock, SerializeTransaction and SerializeBlockHeader: a block  *)
(* with its header and any number of transactions, one whose areas lie     *)
(* behind one another and point ahead, is what DeserializeBlock finds in   *)
(* the bytes; a transaction and a header by themselves too.                *)
(***************************************************************************)
THEOREM BlocksReadAsWritten ==
  /\ \A x \in BlockValues :
       Small(Len(SerializeBlock(x))) => DeserializeBlock(SerializeBlock(x)) = x
  /\ \A x \in Values(TransactionBodyViewer) :
       Small(Len(SerializeTransaction(x))) => DeserializeTransaction(SerializeTransaction(x)) = x
  /\ \A x \in Values(BlockHeaderViewer) :
       Small(Len(SerializeBlockHeader(x))) => BlockHeaderRead(SerializeBlockHeader(x), 0) = x
  <1>1. ASSUME NEW x \in BlockValues, Small(Len(SerializeBlock(x)))
        PROVE  DeserializeBlock(SerializeBlock(x)) = x
    <2>1. PICK d \in Seq(Nat), m \in Nat :
            d = SerializeBlock(x) /\ 193 <= m /\ BlockHeld(d, x, m)
      BY BlockWritten
    <2>2. PICK h \in Values(BlockHeaderViewer), txs \in Seq(Values(TransactionBodyViewer)) :
            h = x.Header /\ txs = x.Transactions /\ x = [Header |-> h, Transactions |-> txs]
      BY DEF BlockValues
    <2>3. PICK n \in Nat, len \in Nat, top \in Nat :
            n = Len(txs) /\ len = 8 * n /\ top = Len(d)
      <3>1. PICK n \in Nat, top \in Nat : n = Len(txs) /\ top = Len(d)
        OBVIOUS
      <3>2. PICK len \in Nat : len = 8 * n
        OBVIOUS
      <3> QED
        BY <3>1, <3>2
    <2>4. /\ HeaderHeld(d, h, m) /\ Holds(d, 8, Word(m)) /\ Holds(d, 12, Word(len))
          /\ m + len <= top
          /\ \A j \in 1..n : TxHeld(d, Entry(m, j), txs[j], m + len)
      BY <2>1, <2>2, <2>3, Zenon DEF BlockHeld
    <2>5. Small(top) /\ Small(m) /\ Small(len) /\ m <= Len(d)
      <3>1. Small(top)
        BY <1>1, <2>1, <2>3, Zenon
      <3>2. m <= top /\ len <= top
        BY <2>4
      <3> QED
        BY <2>3, <3>1, <3>2, SmallBelow
    <2>6. Valid(d, 0) /\ WordAt(d, 4) = 24 /\ BlockHeaderRead(d, 24) = h
      BY <2>1, <2>4, <2>5, HeaderRead
    <2>7. WordAt(d, 8) = m /\ WordAt(d, 12) = len
      <3>1. 8 \in Nat /\ 12 \in Nat
        OBVIOUS
      <3> QED
        BY <2>4, <2>5, <3>1, WordRead
    <2>8. IsValidOffset(d, m, len) /\ len \div 8 = n
      BY <2>3, <2>4 DEF IsValidOffset
    <2>9. BlockViewer(d) = [Header |-> 24, Transactions |-> [i \in 1..n |-> m + 8 * (i - 1)]]
      BY <2>6, <2>7, <2>8, Zenon DEF BlockViewer
    <2>10. ASSUME NEW j \in 1..n
           PROVE  TransactionRead(d, m + 8 * (j - 1)) = txs[j]
      <3>1. PICK at \in Nat, t \in Values(TransactionBodyViewer), base \in Nat :
              at = m + 8 * (j - 1) /\ t = txs[j] /\ base = m + len
        <4>1. PICK at \in Nat, base \in Nat : at = m + 8 * (j - 1) /\ base = m + len
          OBVIOUS
        <4>2. PICK t \in Values(TransactionBodyViewer) : t = txs[j]
          BY <2>3
        <4> QED
          BY <4>1, <4>2
      <3>2. TxHeld(d, at, t, base)
        BY <2>4, <3>1 DEF Entry
      <3>3. at + 8 <= Len(d) /\ Small(Len(d))
        <4>1. at + 8 <= top
          BY <2>3, <2>4, <3>1
        <4> QED
          BY <2>3, <2>5, <4>1
      <3>4. TransactionRead(d, at) = t
        BY <3>2, <3>3, TxRead
      <3> QED
        BY <3>1, <3>4
    <2>11. BlockRead(d) = [Header |-> BlockHeaderRead(d, 24),
                           Transactions |-> [i \in 1..n |-> TransactionRead(d, m + 8 * (i - 1))]]
      <3> DEFINE E == [i \in 1..n |-> m + 8 * (i - 1)]
      <3>1. DOMAIN E = 1..n /\ \A i \in 1..n : E[i] = m + 8 * (i - 1)
        OBVIOUS
      <3>2. BlockViewer(d).Header = 24 /\ BlockViewer(d).Transactions = E
        BY <2>9
      <3> HIDE DEF E
      <3>3. [i \in DOMAIN E |-> TransactionRead(d, E[i])] =
              [i \in 1..n |-> TransactionRead(d, m + 8 * (i - 1))]
        BY <3>1, Zenon
      <3> QED
        BY <2>6, <3>2, <3>3, Zenon DEF BlockRead
    <2>12. [i \in 1..n |-> TransactionRead(d, m + 8 * (i - 1))] = txs
      <3>1. txs = [i \in 1..n |-> txs[i]]
        BY <2>3
      <3> QED
        BY <2>10, <3>1, Zenon
    <2> QED
      BY <2>1, <2>2, <2>6, <2>11, <2>12, Zenon DEF DeserializeBlock
  <1>2. ASSUME NEW x \in Values(TransactionBodyViewer), Small(Len(SerializeTransaction(x)))
        PROVE  DeserializeTransaction(SerializeTransaction(x)) = x
    <2>1. PICK w \in Writer(8) : w = Alloc(NewWriter, 8) /\ w.len = 8
      BY NewWriterFacts
    <2>2. Area(NewWriter, 0, 8) = w /\ Offset(NewWriter, 0) = 0
      BY <2>1, NewWriterFacts DEF Area, Offset
    <2>3. PICK v : v = TransactionWrite(x, NewWriter, 0) /\ v \in Writer(8)
                   /\ TxHeld(Bytes(v), 0, x, 8)
      <3>1. TransactionWrite(x, NewWriter, 0) =
              TransactionBodyWrite(x, WriteAt(Alloc(w, 256), 0, Word(w.len)), w.len)
        BY <2>2, Zenon DEF TransactionWrite
      <3>2. 0 \in Nat /\ 8 \in Nat /\ 0 + 8 <= 8
        OBVIOUS
      <3> QED
        BY <3>1, <3>2, BodyBehind
    <2>4. PICK d \in Seq(Nat) : d = Bytes(v) /\ d = SerializeTransaction(x) /\ 0 + 8 <= Len(d)
      <3>1. v.len \in Nat /\ 8 <= v.len /\ Bytes(v) \in Seq(Nat) /\ Len(Bytes(v)) = v.len
        BY <2>3, WriterFacts, BytesFacts
      <3> QED
        BY <2>3, <3>1 DEF SerializeTransaction
    <2>5. TransactionRead(d, 0) = x
      <3>1. 0 \in Nat /\ 8 \in Nat
        OBVIOUS
      <3>2. TxHeld(d, 0, x, 8) /\ Small(Len(d))
        BY <1>2, <2>3, <2>4
      <3> QED
        BY <2>4, <3>1, <3>2, TxRead
    <2> QED
      BY <2>4, <2>5, Zenon DEF DeserializeTransaction
  <1>3. ASSUME NEW x \in Values(BlockHeaderViewer), Small(Len(SerializeBlockHeader(x)))
        PROVE  BlockHeaderRead(SerializeBlockHeader(x), 0) = x
    <2>1. PICK d : d = SerializeBlockHeader(x) /\ Small(Len(d))
      BY <1>3
    <2>2. d = Bytes(Root(x, NewWriter, 176, 169, BlockHeaderFields))
      <3>1. Area(NewWriter, 0, 176) = Alloc(NewWriter, 176) /\ Offset(NewWriter, 0) = NewWriter.len
        BY DEF Area, Offset
      <3> QED
        BY <2>1, <3>1, Zenon DEF SerializeBlockHeader, BlockHeaderWrite, Root
    <2>3. Read(d, 0, BlockHeaderViewer) = x
      BY <2>1, <2>2, BlockHeaderAgree, RootReads
    <2> QED
      BY <2>1, <2>3, Zenon DEF BlockHeaderRead
  <1> QED
    BY <1>1, <1>2, <1>3

-----------------------------------------------------------------------------
(* The types of what Wire computes.                                        *)

LEMMA DigestSeq ==
  ASSUME NEW bs \in Seq(Nat)
  PROVE  Sha256(bs) \in Seq(Nat) /\ Len(Sha256(bs)) = 32
  <1>1. \A i \in 1..32 : Sha256(bs)[i] \in Nat
    BY DigestType
  <1> DEFINE mixed == <<Mix(bs, 251, 65521), Mix(bs, 509, 65519)>>
  <1>4. Sha256(bs) = [i \in 1..32 |-> (mixed[1 + (i % 2)] \div i) % 256]
    BY DEF Sha256
  <1> HIDE DEF mixed
  <1>2. PICK f : f = Sha256(bs) /\ DOMAIN f = 1..32 /\ f = [i \in 1..32 |-> f[i]]
    BY <1>4
  <1>3. f \in [1..32 -> Nat]
    BY <1>1, <1>2
  <1> QED
    BY <1>2, <1>3

(* The root of a tree is a digest, or one of the hashes.                   *)
Levels == {s \in Seq(Seq(Nat)) : Len(s) >= 1 /\ Len(s[1]) = 32}

LEMMA LevelType ==
  ASSUME NEW nodes \in Levels
  PROVE  Level(nodes) \in Levels
  <1> DEFINE h == (Len(nodes) + 1) \div 2
  <1>1. PICK n \in Nat : n = Len(nodes) /\ n >= 1 /\ h \in Nat /\ 1 <= h /\ h <= n
    <2>1. PICK n \in Nat : n = Len(nodes) /\ n >= 1
      BY DEF Levels
    <2>2. h \in Nat /\ 1 <= h /\ h <= n
      BY <2>1
    <2> QED
      BY <2>1, <2>2
  <1> HIDE DEF h
  <1> DEFINE E(j) == CASE 2 * j <= h -> mergeHash(nodes[2 * j - 1], nodes[2 * j])
                       [] 2 * j - 1 = h -> mergeHash(nodes[h], <<>>)
                       [] OTHER -> <<>>
  <1>2. \A i \in 1..n : nodes[i] \in Seq(Nat)
    BY <1>1 DEF Levels
  <1>3. \A a, b \in Seq(Nat) : mergeHash(a, b) \in Seq(Nat) /\ Len(mergeHash(a, b)) = 32
    <2> TAKE a, b \in Seq(Nat)
    <2>1. a \o b \in Seq(Nat)
      BY ConcatProperties
    <2> QED
      BY <2>1, DigestSeq DEF mergeHash
  <1>4. <<>> \in Seq(Nat)
    OBVIOUS
  <1>5. ASSUME NEW j \in 1..h
        PROVE  E(j) \in Seq(Nat)
    <2>1. CASE 2 * j <= h
      <3>1. 2 * j - 1 \in 1..n /\ 2 * j \in 1..n
        BY <1>1, <2>1
      <3>2. E(j) = mergeHash(nodes[2 * j - 1], nodes[2 * j])
        BY <2>1
      <3> HIDE DEF E
      <3> QED
        BY <1>2, <1>3, <3>1, <3>2
    <2>2. CASE ~(2 * j <= h) /\ 2 * j - 1 = h
      <3>1. h \in 1..n
        BY <1>1
      <3>2. E(j) = mergeHash(nodes[h], <<>>)
        BY <2>2
      <3> HIDE DEF E
      <3> QED
        BY <1>2, <1>3, <1>4, <3>1, <3>2
    <2>3. CASE ~(2 * j <= h) /\ 2 * j - 1 # h
      BY <1>4, <2>3
    <2> QED
      BY <2>1, <2>2, <2>3
  <1>6. Len(E(1)) = 32
    <2>1. CASE 2 <= h
      <3>1. 1 \in 1..n /\ 2 \in 1..n /\ 2 * 1 - 1 = 1 /\ 2 * 1 = 2
        BY <1>1, <2>1
      <3>2. E(1) = mergeHash(nodes[1], nodes[2])
        BY <2>1
      <3> HIDE DEF E
      <3> QED
        BY <1>2, <1>3, <3>1, <3>2
    <2>2. CASE ~(2 <= h)
      <3>1. 1 \in 1..n /\ h = 1
        BY <1>1, <2>2
      <3>2. E(1) = mergeHash(nodes[1], <<>>)
        BY <3>1
      <3> HIDE DEF E
      <3> QED
        BY <1>2, <1>3, <1>4, <3>1, <3>2
    <2> QED
      BY <2>1, <2>2
  <1>7. Level(nodes) = [j \in 1..h |-> E(j)]
    BY Zenon DEF Level, h
  <1>8. PICK s : s = [j \in 1..h |-> E(j)]
    OBVIOUS
  <1>9. s \in Levels
    <2>1. s \in [1..h -> Seq(Nat)] /\ s[1] = E(1)
      <3> HIDE DEF E
      <3> QED
        BY <1>1, <1>5, <1>8
    <2>2. s \in Seq(Seq(Nat)) /\ Len(s) = h
      BY <1>1, <2>1
    <2> HIDE DEF E
    <2> QED
      BY <1>1, <1>6, <2>1, <2>2 DEF Levels
  <1> QED
    BY <1>7, <1>8, <1>9

(* A set that holds 0 and the next of each below n holds all of them.      *)
LEMMA Climb ==
  ASSUME NEW n \in Nat, NEW S, 0 \in S, \A i \in 1..n : i - 1 \in S => i \in S
  PROVE  \A i \in 0..n : i \in S
  <1>1. PICK f : f = [i \in 0..n |-> i]
    OBVIOUS
  <1>2. f[0] = 0 /\ \A i \in 1..n : f[i] = i /\ f[i - 1] = i - 1
    BY <1>1
  <1>3. Keeps(f, S, n)
    BY <1>2 DEF Keeps
  <1>4. \A i \in 0..n : f[i] \in S
    BY <1>3, StepsStay
  <1> QED
    BY <1>1, <1>4

(* The powers of 2 and how many of them there are up to n.                 *)
Doubles(power, n) ==
  /\ power[0] = 1 /\ \A i \in 1..n : power[i] = 2 * power[i - 1]
  /\ \A i \in 0..n : power[i] \in Nat /\ power[i] > i

LEMMA PowersExist ==
  ASSUME NEW n \in Nat
  PROVE  \E power : Doubles(power, n) /\ Height(n) = Cardinality({i \in 0..n : power[i] <= n})
  <1> DEFINE E(x) == 2 * x
  <1>1. PICK step \in Steps(Nat, n) : \A i \in 1..n, x \in Nat : step[i][x] = E(x)
    <2> DEFINE g == [i \in 1..n |-> [x \in Nat |-> E(x)]]
    <2>1. \A x \in Nat : E(x) \in Nat
      OBVIOUS
    <2> HIDE DEF E
    <2>2. g \in [1..n -> [Nat -> Nat]] /\ \A i \in 1..n, x \in Nat : g[i][x] = E(x)
      BY <2>1
    <2> HIDE DEF g
    <2> QED
      BY <2>2 DEF Steps
  <1>2. PICK f : Solves(f, Nat, n, 1, step)
    BY StepsExist
  <1>3. f \in [0..n -> Nat] /\ f[0] = 1 /\ \A i \in 1..n : f[i] = 2 * f[i - 1]
    <2>1. /\ f \in [0..n -> Nat] /\ f[0] = 1
          /\ \A i \in 1..n : f[i] = step[i][f[i - 1]]
      BY <1>2 DEF Solves
    <2>2. ASSUME NEW i \in 1..n
          PROVE  f[i] = 2 * f[i - 1]
      <3>1. PICK x \in Nat : x = f[i - 1]
        BY <2>1
      <3>2. step[i][x] = 2 * x
        BY <1>1
      <3> QED
        BY <2>1, <3>1, <3>2
    <2> QED
      BY <2>1, <2>2
  <1>4. \A i \in 0..n : f[i] = IF i = 0 THEN 1 ELSE 2 * f[i - 1]
    <2>1. \A i \in 0..n : i = 0 \/ (i \in 1..n /\ i # 0)
      OBVIOUS
    <2> QED
      BY <1>3, <2>1
  <1>5. f = [i \in 0..n |-> IF i = 0 THEN 1 ELSE 2 * f[i - 1]]
    BY <1>3, <1>4, Zenon
  <1>6. PICK power :
          /\ power = [i \in 0..n |-> IF i = 0 THEN 1 ELSE 2 * power[i - 1]]
          /\ Height(n) = Cardinality({i \in 0..n : power[i] <= n})
    BY <1>5 DEF Height
  <1>7. power[0] = 1 /\ \A i \in 1..n : power[i] = 2 * power[i - 1]
    <2>1. \A i \in 0..n : power[i] = IF i = 0 THEN 1 ELSE 2 * power[i - 1]
      BY <1>6
    <2>2. 0 \in 0..n /\ \A i \in 1..n : i \in 0..n /\ i # 0
      OBVIOUS
    <2> QED
      BY <2>1, <2>2
  <1>8. \A i \in 0..n : power[i] \in Nat /\ power[i] > i
    <2> DEFINE S == {i \in 0..n : power[i] \in Nat /\ power[i] > i}
    <2>1. 0 \in S
      BY <1>7
    <2>2. ASSUME NEW i \in 1..n, i - 1 \in S
          PROVE  i \in S
      <3>1. PICK p \in Nat : p = power[i - 1] /\ p > i - 1
        BY <2>2
      <3>2. 2 * p \in Nat /\ 2 * p > i
        BY <3>1
      <3> QED
        BY <1>7, <3>1, <3>2
    <2> HIDE DEF S
    <2>3. \A i \in 0..n : i \in S
      BY <2>1, <2>2, Climb
    <2> QED
      BY <2>3 DEF S
  <1> QED
    BY <1>6, <1>7, <1>8 DEF Doubles

LEMMA HeightType ==
  ASSUME NEW n \in Nat
  PROVE  Height(n) \in Nat
  <1>1. PICK power : Doubles(power, n) /\ Height(n) = Cardinality({i \in 0..n : power[i] <= n})
    BY PowersExist
  <1>2. IsFiniteSet(0..n)
    BY FS_Interval
  <1>3. IsFiniteSet({i \in 0..n : power[i] <= n})
    BY <1>2, FS_Subset
  <1> QED
    BY <1>1, <1>3, FS_CardinalityType

(* There are so many rounds that the last power exceeds n.                 *)
LEMMA HeightFacts ==
  ASSUME NEW n \in Nat, n >= 1
  PROVE  Height(n) \in 1..n /\ \E power : Doubles(power, n) /\ power[Height(n)] > n
  <1>1. PICK power : Doubles(power, n) /\ Height(n) = Cardinality({i \in 0..n : power[i] <= n})
    BY PowersExist
  <1>2. PICK m \in 0..n : power[m] > n /\ \A j \in 0..n : power[j] > n => m <= j
    <2> DEFINE S == {i \in 0..n : power[i] > n}
    <2>1. n \in S /\ S \in SUBSET Nat
      BY <1>1 DEF Doubles
    <2>2. PICK m \in S : \A j \in S : m <= j
      <3> HIDE DEF S
      <3> QED
        BY <2>1, LeastFacts
    <2> QED
      BY <2>2
  <1>3. m \in 1..n
    <2>1. power[0] = 1
      BY <1>1 DEF Doubles
    <2>2. m # 0
      BY <1>2, <2>1
    <2> QED
      BY <2>2
  <1>4. \A i \in 0..n : i >= m => power[i] > n
    <2> DEFINE S == {i \in 0..n : i >= m => power[i] > n}
    <2>1. 0 \in S
      BY <1>3
    <2>2. ASSUME NEW i \in 1..n, i - 1 \in S
          PROVE  i \in S
      <3>1. i \in 0..n /\ i - 1 \in 0..n
        OBVIOUS
      <3>2. CASE i >= m /\ i # m
        <4>1. i - 1 >= m
          BY <3>2
        <4>2. PICK p \in Nat : p = power[i - 1] /\ p > n
          BY <1>1, <2>2, <3>1, <4>1 DEF Doubles
        <4>3. power[i] = 2 * p
          BY <1>1, <4>2 DEF Doubles
        <4> QED
          BY <3>1, <4>2, <4>3
      <3>3. CASE i = m
        BY <1>2, <3>1, <3>3
      <3>4. CASE ~(i >= m)
        BY <3>1, <3>4
      <3> QED
        BY <3>2, <3>3, <3>4
    <2> HIDE DEF S
    <2>3. \A i \in 0..n : i \in S
      BY <2>1, <2>2, Climb
    <2> QED
      BY <2>3 DEF S
  <1>5. {i \in 0..n : power[i] <= n} = 0..(m - 1)
    <2>1. ASSUME NEW i \in 0..n
          PROVE  power[i] <= n <=> i <= m - 1
      <3>1. power[i] \in Nat
        BY <1>1 DEF Doubles
      <3>2. CASE i >= m
        BY <1>4, <3>1, <3>2
      <3>3. CASE ~(i >= m)
        BY <1>2, <3>1, <3>3
      <3> QED
        BY <3>2, <3>3
    <2> QED
      BY <1>3, <2>1
  <1>6. Height(n) = m
    <2>1. Cardinality(0..(m - 1)) = m
      <3>1. 0 \in Int /\ m - 1 \in Int /\ ~(0 > m - 1) /\ (m - 1) - 0 + 1 = m
        BY <1>3
      <3> QED
        BY <3>1, FS_Interval
    <2> QED
      BY <1>1, <1>5, <2>1
  <1> QED
    BY <1>1, <1>2, <1>3, <1>6

(* What one round makes of a level, and the levels of a tree.              *)
Round(i, u) == IF i > 1 /\ Len(u) = 1 THEN u ELSE Level(u)

Grows(level, hashes, n) ==
  /\ level[0] = hashes /\ \A i \in 1..n : level[i] = Round(i, level[i - 1])
  /\ \A i \in 0..n : level[i] \in Levels

LEMMA LevelsGrow ==
  ASSUME NEW hashes \in Levels
  PROVE  Grows(MerkleLevels(hashes), hashes, Height(Len(hashes)))
  <1>2. PICK n \in Nat : n = Height(Len(hashes))
    BY HeightType
  <1>1. hashes \in Levels
    OBVIOUS
  <1> DEFINE E(i, u) == Round(i, u)
  <1>3. \A i \in 1..n, u \in Levels : E(i, u) \in Levels
    BY LevelType DEF Round
  <1>4. PICK step \in Steps(Levels, n) : \A i \in 1..n, u \in Levels : step[i][u] = E(i, u)
    <2> DEFINE g == [i \in 1..n |-> [u \in Levels |-> E(i, u)]]
    <2> HIDE DEF E
    <2>1. g \in [1..n -> [Levels -> Levels]] /\ \A i \in 1..n, u \in Levels : g[i][u] = E(i, u)
      BY <1>3
    <2> HIDE DEF g
    <2> QED
      BY <2>1 DEF Steps
  <1>5. PICK g : Solves(g, Levels, n, hashes, step)
    BY <1>1, StepsExist
  <1>6. /\ g \in [0..n -> Levels] /\ g[0] = hashes
        /\ \A i \in 1..n : g[i] = E(i, g[i - 1])
    <2> HIDE DEF E
    <2> QED
      BY <1>4, <1>5 DEF Solves
  <1>7. \A i \in 0..n : g[i] =
          CASE i = 0 -> hashes
            [] i > 1 /\ Len(g[i - 1]) = 1 -> g[i - 1]
            [] OTHER -> Level(g[i - 1])
    <2>1. \A i \in 0..n : i = 0 \/ (i \in 1..n /\ i # 0)
      OBVIOUS
    <2>2. \A i \in 1..n : ~(i = 0 /\ i > 1)
      OBVIOUS
    <2> QED
      BY <1>6, <2>1, <2>2 DEF Round
  <1>8. g = [i \in 0..n |->
               CASE i = 0 -> hashes
                 [] i > 1 /\ Len(g[i - 1]) = 1 -> g[i - 1]
                 [] OTHER -> Level(g[i - 1])]
    BY <1>6, <1>7, Zenon
  <1>9. PICK level :
          /\ level = [i \in 0..n |->
               CASE i = 0 -> hashes
                 [] i > 1 /\ Len(level[i - 1]) = 1 -> level[i - 1]
                 [] OTHER -> Level(level[i - 1])]
          /\ MerkleLevels(hashes) = level
    BY <1>2, <1>8, Zenon DEF MerkleLevels
  <1>10. level[0] = hashes /\ \A i \in 1..n : level[i] = E(i, level[i - 1])
    <2>1. \A i \in 0..n : level[i] =
            CASE i = 0 -> hashes
              [] i > 1 /\ Len(level[i - 1]) = 1 -> level[i - 1]
              [] OTHER -> Level(level[i - 1])
      BY <1>9, Zenon
    <2>2. 0 \in 0..n /\ \A i \in 1..n : i \in 0..n /\ i # 0
      OBVIOUS
    <2>3. level[0] = hashes
      BY <2>1, <2>2
    <2>4. ASSUME NEW i \in 1..n
          PROVE  level[i] = E(i, level[i - 1])
      BY <2>1, <2>2 DEF Round
    <2> QED
      BY <2>3, <2>4
  <1>11. \A i \in 0..n : level[i] \in Levels
    <2>1. Keeps(level, Levels, n)
      <3> HIDE DEF E
      <3> QED
        BY <1>1, <1>3, <1>10 DEF Keeps
    <2> QED
      BY <2>1, StepsStay
  <1>12. Grows(level, hashes, n)
    BY <1>10, <1>11 DEF Grows
  <1> QED
    BY <1>2, <1>9, <1>12

LEMMA RootFacts ==
  ASSUME NEW hashes \in Levels
  PROVE  /\ BuildMerkleTree(hashes) = MerkleLevels(hashes)[Height(Len(hashes))][1]
         /\ MerkleLevels(hashes)[Height(Len(hashes))] \in Levels
  <1>1. hashes # <<>>
    BY DEF Levels
  <1>2. PICK n \in Nat : n = Height(Len(hashes))
    BY HeightType
  <1>3. Grows(MerkleLevels(hashes), hashes, n)
    BY <1>2, LevelsGrow
  <1>4. n \in 0..n
    OBVIOUS
  <1>5. MerkleLevels(hashes)[n] \in Levels
    BY <1>3, <1>4 DEF Grows
  <1> QED
    BY <1>1, <1>2, <1>5, Zenon DEF BuildMerkleTree

LEMMA RootType ==
  ASSUME NEW hashes \in Seq(Seq(Nat)), \A i \in 1..Len(hashes) : Len(hashes[i]) = 32
  PROVE  BuildMerkleTree(hashes) \in Seq(Nat) /\ Len(BuildMerkleTree(hashes)) = 32
  <1>1. CASE hashes = <<>>
    <2>1. PICK k \in Nat : k = 32
      OBVIOUS
    <2>2. [i \in 1..k |-> 0] \in Seq(Nat) /\ Len([i \in 1..k |-> 0]) = k
      OBVIOUS
    <2>3. BuildMerkleTree(hashes) = [i \in 1..32 |-> 0]
      BY <1>1, Zenon DEF BuildMerkleTree
    <2> QED
      BY <2>1, <2>2, <2>3
  <1>2. CASE hashes # <<>>
    <2>1. hashes \in Levels
      BY <1>2 DEF Levels
    <2>2. PICK top \in Levels : BuildMerkleTree(hashes) = top[1]
      BY <2>1, RootFacts
    <2> QED
      BY <2>2 DEF Levels
  <1> QED
    BY <1>1, <1>2

(* What is hashed for node j of the level above, and for a whole tree.     *)
Joined(nodes, j) ==
  IF 2 * j <= Half(Len(nodes)) THEN nodes[2 * j - 1] \o nodes[2 * j] ELSE nodes[2 * j - 1]

Inputs(nodes) == {Joined(nodes, j) : j \in 1..Half(Half(Len(nodes)))}

Merged(hashes) ==
  UNION {Inputs(MerkleLevels(hashes)[k]) : k \in 0..(Height(Len(hashes)) - 1)}

NoCollision(S) == \A x, y \in S : Sha256(x) = Sha256(y) => x = y

(* A level whose first half, rounded up, are digests.                      *)
Tight(nodes) ==
  nodes \in Levels /\ \A i \in 1..Half(Len(nodes)) : Len(nodes[i]) = 32

LEMMA HalfFacts ==
  ASSUME NEW n \in Nat, n >= 1
  PROVE  /\ Half(n) \in 1..n /\ Half(Half(n)) \in 1..Half(n)
         /\ Half(n) \in Nat /\ Half(Half(n)) \in Nat
         /\ 2 * (Half(n) - 1) <= n - 1
         /\ \A j \in 1..Half(Half(n)) :
              /\ j \in 1..Half(n) /\ 2 * j - 1 \in 1..Half(n) /\ 2 * j - 1 \in 1..n
              /\ 2 * j <= Half(n) => 2 * j \in 1..Half(n) /\ 2 * j \in 1..n
              /\ ~(2 * j <= Half(n)) => 2 * j - 1 = Half(n)
         /\ \A i \in 1..Half(n) : Half(i) \in 1..Half(Half(n))
                                  /\ (i = 2 * Half(i) - 1 \/ i = 2 * Half(i))
  <1>1. PICK h \in Nat : h = Half(n) /\ (2 * h = n + 1 \/ 2 * h = n)
    BY DEF Half
  <1>2. PICK q \in Nat : q = Half(h) /\ (2 * q = h + 1 \/ 2 * q = h)
    BY DEF Half
  <1>3. h \in 1..n /\ q \in 1..h /\ 2 * (h - 1) <= n - 1
    BY <1>1, <1>2
  <1>4. ASSUME NEW j \in 1..q
        PROVE  /\ j \in 1..h /\ 2 * j - 1 \in 1..h /\ 2 * j - 1 \in 1..n
               /\ 2 * j <= h => 2 * j \in 1..h /\ 2 * j \in 1..n
               /\ ~(2 * j <= h) => 2 * j - 1 = h
    BY <1>2, <1>3
  <1>5. ASSUME NEW i \in 1..h
        PROVE  Half(i) \in 1..q /\ (i = 2 * Half(i) - 1 \/ i = 2 * Half(i))
    <2>1. PICK k \in Nat : k = Half(i) /\ (2 * k = i + 1 \/ 2 * k = i)
      BY DEF Half
    <2> QED
      BY <1>2, <1>3, <2>1
  <1> QED
    BY <1>1, <1>2, <1>3, <1>4, <1>5

LEMMA JoinedType ==
  ASSUME NEW nodes \in Levels, NEW j \in 1..Half(Half(Len(nodes)))
  PROVE  Joined(nodes, j) \in Seq(Nat)
  <1>1. PICK n \in Nat : n = Len(nodes) /\ n >= 1
    BY DEF Levels
  <1>2. \A i \in 1..n : nodes[i] \in Seq(Nat)
    BY <1>1 DEF Levels
  <1>3. CASE 2 * j <= Half(n)
    <2>1. PICK x \in Seq(Nat) : x = nodes[2 * j - 1]
      BY <1>1, <1>2, HalfFacts
    <2>2. PICK y \in Seq(Nat) : y = nodes[2 * j]
      BY <1>1, <1>2, <1>3, HalfFacts
    <2>3. x \o y \in Seq(Nat)
      BY ConcatProperties
    <2> QED
      BY <1>1, <1>3, <2>1, <2>2, <2>3 DEF Joined
  <1>4. CASE ~(2 * j <= Half(n))
    <2>1. nodes[2 * j - 1] \in Seq(Nat)
      BY <1>1, <1>2, HalfFacts
    <2> QED
      BY <1>1, <1>4, <2>1 DEF Joined
  <1> QED
    BY <1>3, <1>4

(* The first half of a new level are the digests of what is joined, and    *)
(* nothing else in it depends on the level below.                          *)
LEMMA LevelEntries ==
  ASSUME NEW nodes \in Levels
  PROVE  /\ Len(Level(nodes)) = Half(Len(nodes))
         /\ \A j \in 1..Half(Half(Len(nodes))) : Level(nodes)[j] = Sha256(Joined(nodes, j))
         /\ \A j \in 1..Half(Len(nodes)) : ~(j \in 1..Half(Half(Len(nodes)))) =>
              Level(nodes)[j] = <<>>
  <1>1. PICK n \in Nat : n = Len(nodes) /\ n >= 1
    BY DEF Levels
  <1> DEFINE h == (Len(nodes) + 1) \div 2
  <1>2. h \in Nat /\ h = Half(n) /\ h = Half(Len(nodes)) /\ h \in 1..n
    <2>1. h = Half(n) /\ h = Half(Len(nodes))
      BY <1>1, Zenon DEF Half
    <2> HIDE DEF h
    <2> QED
      BY <1>1, <2>1, HalfFacts
  <1> HIDE DEF h
  <1>3. \A i \in 1..n : nodes[i] \in Seq(Nat)
    BY <1>1 DEF Levels
  <1> DEFINE E(j) == CASE 2 * j <= h -> mergeHash(nodes[2 * j - 1], nodes[2 * j])
                       [] 2 * j - 1 = h -> mergeHash(nodes[h], <<>>)
                       [] OTHER -> <<>>
  <1>4. Level(nodes) = [j \in 1..h |-> E(j)]
    BY Zenon DEF Level, h
  <1>5. Len(Level(nodes)) = h
    <2> HIDE DEF E
    <2>1. DOMAIN Level(nodes) = 1..h
      BY <1>4
    <2>2. Level(nodes) \in Levels
      BY LevelType
    <2>3. PICK m \in Nat : m = Len(Level(nodes)) /\ DOMAIN Level(nodes) = 1..m
      BY <2>2 DEF Levels
    <2> QED
      BY <1>2, <2>1, <2>3
  <1>6. ASSUME NEW j \in 1..Half(h)
        PROVE  Level(nodes)[j] = Sha256(Joined(nodes, j))
    <2>1. j \in 1..h
      BY <1>1, <1>2, HalfFacts
    <2>2. Level(nodes)[j] = E(j)
      <3> HIDE DEF E
      <3> QED
        BY <1>4, <2>1
    <2>3. CASE 2 * j <= h
      <3>1. E(j) = mergeHash(nodes[2 * j - 1], nodes[2 * j])
        BY <2>3
      <3>2. Joined(nodes, j) = nodes[2 * j - 1] \o nodes[2 * j]
        BY <1>1, <1>2, <2>3 DEF Joined
      <3> HIDE DEF E
      <3> QED
        BY <2>2, <3>1, <3>2 DEF mergeHash
    <2>4. CASE ~(2 * j <= h)
      <3>1. 2 * j - 1 = h /\ h \in 1..n
        BY <1>1, <1>2, <2>4, HalfFacts
      <3>2. E(j) = mergeHash(nodes[h], <<>>)
        BY <2>4, <3>1
      <3>3. PICK x \in Seq(Nat) : x = nodes[h]
        BY <1>3, <3>1
      <3>4. x \o <<>> = x
        BY ConcatEmptySeq
      <3>5. Joined(nodes, j) = x
        BY <1>1, <1>2, <2>4, <3>1, <3>3 DEF Joined
      <3> HIDE DEF E
      <3> QED
        BY <2>2, <3>2, <3>3, <3>4, <3>5 DEF mergeHash
    <2> QED
      BY <2>3, <2>4
  <1>7. ASSUME NEW j \in 1..h, ~(j \in 1..Half(h))
        PROVE  Level(nodes)[j] = <<>>
    <2>1. ~(2 * j <= h) /\ 2 * j - 1 # h
      <3>1. PICK q \in Nat : q = Half(h) /\ (2 * q = h + 1 \/ 2 * q = h)
        BY <1>2 DEF Half
      <3> QED
        BY <1>2, <1>7, <3>1
    <2>2. E(j) = <<>>
      BY <2>1
    <2> HIDE DEF E
    <2> QED
      BY <1>4, <2>2
  <1> QED
    BY <1>1, <1>2, <1>5, <1>6, <1>7

(* Two parts of 32 bytes each can be told from what they are joined to.    *)
LEMMA PartsFound ==
  ASSUME NEW x \in Seq(Nat), NEW y \in Seq(Nat), NEW u \in Seq(Nat), NEW v \in Seq(Nat),
         NEW c, IsJoin(c, x, y), IsJoin(c, u, v),
         Len(x) = 32, Len(u) = 32, Len(y) = 32, Len(v) = 32
  PROVE  x = u /\ y = v
  <1>0. x \o y = u \o v
    BY DEF IsJoin
  <1>1. ASSUME NEW i \in 1..64
        PROVE  (x \o y)[i] = IF i <= 32 THEN x[i] ELSE y[i - 32]
    <2>1. i \in 1..Len(x) + Len(y)
      OBVIOUS
    <2>2. (x \o y)[i] = IF i <= Len(x) THEN x[i] ELSE y[i - Len(x)]
      BY <2>1, ConcatProperties
    <2> QED
      BY <2>2
  <1>2. ASSUME NEW i \in 1..64
        PROVE  (u \o v)[i] = IF i <= 32 THEN u[i] ELSE v[i - 32]
    <2>1. i \in 1..Len(u) + Len(v)
      OBVIOUS
    <2>2. (u \o v)[i] = IF i <= Len(u) THEN u[i] ELSE v[i - Len(u)]
      BY <2>1, ConcatProperties
    <2> QED
      BY <2>2
  <1>3. ASSUME NEW i \in 1..32
        PROVE  x[i] = u[i] /\ y[i] = v[i]
    <2>1. x[i] = u[i]
      <3>1. i \in 1..64 /\ i <= 32
        OBVIOUS
      <3>2. (x \o y)[i] = x[i]
        BY <1>1, <3>1
      <3>3. (u \o v)[i] = u[i]
        BY <1>2, <3>1
      <3> QED
        BY <1>0, <3>2, <3>3
    <2>2. PICK k \in 1..64 : k = i + 32 /\ ~(k <= 32) /\ k - 32 = i
      OBVIOUS
    <2>3. (x \o y)[k] = y[i]
      BY <1>1, <2>2
    <2>4. (u \o v)[k] = v[i]
      BY <1>2, <2>2
    <2> QED
      BY <1>0, <2>1, <2>3, <2>4
  <1>4. \A i \in 1..32 : x[i] = u[i]
    BY <1>3
  <1>5. \A i \in 1..32 : y[i] = v[i]
    BY <1>3
  <1>6. x = u
    BY <1>4, SeqEqual
  <1>7. y = v
    BY <1>5, SeqEqual
  <1> QED
    BY <1>6, <1>7

(* Levels of one size whose first halves are digests and differ.           *)
Apart(a, b) ==
  /\ Tight(a) /\ Tight(b) /\ Len(a) = Len(b)
  /\ \E i \in 1..Half(Len(a)) : a[i] # b[i]

LEMMA TightStep ==
  ASSUME NEW nodes, Tight(nodes)
  PROVE  Tight(Level(nodes)) /\ Len(Level(nodes)) = Half(Len(nodes))
  <1>1. nodes \in Levels
    BY DEF Tight
  <1>2. Level(nodes) \in Levels /\ Len(Level(nodes)) = Half(Len(nodes))
    BY <1>1, LevelType, LevelEntries
  <1>3. ASSUME NEW j \in 1..Half(Half(Len(nodes)))
        PROVE  Len(Level(nodes)[j]) = 32
    <2>1. Joined(nodes, j) \in Seq(Nat)
      BY <1>1, JoinedType
    <2>2. Level(nodes)[j] = Sha256(Joined(nodes, j))
      BY <1>1, LevelEntries
    <2> QED
      BY <2>1, <2>2, DigestSeq
  <1> QED
    BY <1>2, <1>3 DEF Tight

LEMMA ApartStep ==
  ASSUME NEW a, NEW b, Apart(a, b), NoCollision(Inputs(a) \cup Inputs(b))
  PROVE  Apart(Level(a), Level(b))
  <1>1. PICK n \in Nat : n = Len(a) /\ n = Len(b) /\ n >= 1
    BY DEF Apart, Tight, Levels
  <1>2. a \in Levels /\ b \in Levels /\ Tight(a) /\ Tight(b)
    BY DEF Apart, Tight
  <1>3. PICK i \in 1..Half(n) : a[i] # b[i]
    BY <1>1 DEF Apart
  <1>4. PICK j \in 1..Half(Half(n)) : j = Half(i) /\ (i = 2 * j - 1 \/ i = 2 * j)
    BY <1>1, <1>3, HalfFacts
  <1>5. /\ \A k \in 1..n : a[k] \in Seq(Nat) /\ b[k] \in Seq(Nat)
        /\ \A k \in 1..Half(n) : Len(a[k]) = 32 /\ Len(b[k]) = 32
    <2>1. ASSUME NEW k \in 1..n
          PROVE  a[k] \in Seq(Nat) /\ b[k] \in Seq(Nat)
      <3>1. a[k] \in Seq(Nat)
        <4>1. PICK s \in Seq(Seq(Nat)) : s = a /\ k \in 1..Len(s)
          BY <1>1, <1>2 DEF Levels
        <4> QED
          BY <4>1
      <3>2. b[k] \in Seq(Nat)
        <4>1. PICK s \in Seq(Seq(Nat)) : s = b /\ k \in 1..Len(s)
          BY <1>1, <1>2 DEF Levels
        <4> QED
          BY <4>1
      <3> QED
        BY <3>1, <3>2
    <2>2. \A k \in 1..Half(n) : Len(a[k]) = 32 /\ Len(b[k]) = 32
      BY <1>1, <1>2 DEF Tight
    <2> QED
      BY <2>1, <2>2
  <1>6. 2 * j - 1 \in 1..Half(n) /\ 2 * j - 1 \in 1..n
    BY <1>1, HalfFacts
  <1>7. Joined(a, j) # Joined(b, j)
    <2>1. CASE 2 * j <= Half(n)
      <3>1. 2 * j \in 1..Half(n) /\ 2 * j \in 1..n
        BY <1>1, <2>1, HalfFacts
      <3>2. PICK x \in Seq(Nat) : x = a[2 * j - 1] /\ Len(x) = 32
        BY <1>5, <1>6
      <3>3. PICK y \in Seq(Nat) : y = a[2 * j] /\ Len(y) = 32
        BY <1>5, <3>1
      <3>4. PICK u \in Seq(Nat) : u = b[2 * j - 1] /\ Len(u) = 32
        BY <1>5, <1>6
      <3>5. PICK v \in Seq(Nat) : v = b[2 * j] /\ Len(v) = 32
        BY <1>5, <3>1
      <3>6. Joined(a, j) = x \o y /\ Joined(b, j) = u \o v
        BY <1>1, <2>1, <3>2, <3>3, <3>4, <3>5 DEF Joined
      <3>7. x # u \/ y # v
        BY <1>3, <1>4, <3>2, <3>3, <3>4, <3>5
      <3>8. ASSUME x \o y = u \o v
            PROVE  FALSE
        <4>1. Len(x) = 32 /\ Len(u) = 32 /\ Len(y) = 32 /\ Len(v) = 32
          BY <3>2, <3>3, <3>4, <3>5
        <4>2. PICK z : IsJoin(z, x, y) /\ IsJoin(z, u, v)
          BY <3>8 DEF IsJoin
        <4>3. x = u /\ y = v
          BY <4>1, <4>2, PartsFound
        <4> QED
          BY <3>7, <4>3
      <3> QED
        BY <3>6, <3>8
    <2>2. CASE ~(2 * j <= Half(n))
      <3>1. i = 2 * j - 1
        <4>1. PICK h \in Nat : h = Half(n)
          BY <1>1, HalfFacts
        <4> QED
          BY <1>4, <2>2, <4>1
      <3>2. Joined(a, j) = a[i] /\ Joined(b, j) = b[i]
        BY <1>1, <2>2, <3>1 DEF Joined
      <3> QED
        BY <1>3, <3>2
    <2> QED
      BY <2>1, <2>2
  <1>8. Level(a)[j] # Level(b)[j]
    <2>1. Joined(a, j) \in Inputs(a) /\ Joined(b, j) \in Inputs(b)
      BY <1>1 DEF Inputs
    <2>2. Sha256(Joined(a, j)) # Sha256(Joined(b, j))
      BY <1>7, <2>1 DEF NoCollision
    <2>3. Level(a)[j] = Sha256(Joined(a, j)) /\ Level(b)[j] = Sha256(Joined(b, j))
      BY <1>1, <1>2, LevelEntries
    <2> QED
      BY <2>2, <2>3
  <1>9. /\ Tight(Level(a)) /\ Tight(Level(b))
        /\ Len(Level(a)) = Half(n) /\ Len(Level(b)) = Half(n)
    BY <1>1, <1>2, TightStep
  <1> QED
    BY <1>8, <1>9 DEF Apart

(* The second half of a level does not matter to the next.                 *)
LEMMA LevelOfHalf ==
  ASSUME NEW a \in Levels, NEW b \in Levels, Len(a) = Len(b),
         \A i \in 1..Half(Len(a)) : a[i] = b[i]
  PROVE  Level(a) = Level(b)
  <1>1. PICK n \in Nat : n = Len(a) /\ n = Len(b) /\ n >= 1
    BY DEF Levels
  <1>2. PICK h \in Nat : h = Half(n)
    BY <1>1, HalfFacts
  <1>3. ASSUME NEW j \in 1..h
        PROVE  Level(a)[j] = Level(b)[j]
    <2>1. CASE j \in 1..Half(h)
      <3>1. /\ 2 * j - 1 \in 1..Half(n)
            /\ 2 * j <= Half(n) => 2 * j \in 1..Half(n)
        BY <1>1, <1>2, <2>1, HalfFacts
      <3>2. Joined(a, j) = Joined(b, j)
        BY <1>1, <3>1 DEF Joined
      <3> QED
        BY <1>1, <1>2, <2>1, <3>2, LevelEntries
    <2>2. CASE ~(j \in 1..Half(h))
      BY <1>1, <1>2, <2>2, LevelEntries
    <2> QED
      BY <2>1, <2>2
  <1>4. /\ Level(a) \in Seq(Seq(Nat)) /\ Level(b) \in Seq(Seq(Nat))
        /\ Len(Level(a)) = h /\ Len(Level(b)) = h
    BY <1>1, <1>2, LevelType, LevelEntries DEF Levels
  <1> QED
    BY <1>3, <1>4, SeqEqual

(* The root is the only node of the last level.                            *)
LEMMA Doubled ==
  ASSUME NEW n \in Nat, NEW p \in Nat, NEW l \in Nat, NEW k \in Nat,
         p * l < n, 2 * k <= l
  PROVE  (2 * p) * k < n
  <1>1. PICK d \in Nat : l = 2 * k + d
    <2>1. l - 2 * k \in Nat /\ l = 2 * k + (l - 2 * k)
      OBVIOUS
    <2> QED
      BY <2>1
  <1>2. p * l = (2 * p) * k + p * d
    BY <1>1
  <1>3. p * d \in Nat /\ (2 * p) * k \in Nat
    OBVIOUS
  <1> QED
    BY <1>2, <1>3

LEMMA LastLevel ==
  ASSUME NEW hashes \in Levels
  PROVE  Len(MerkleLevels(hashes)[Height(Len(hashes))]) = 1
  <1>1. PICK n \in Nat : n = Len(hashes) /\ n >= 1
    BY DEF Levels
  <1>2. PICK h \in 1..n : h = Height(n)
    BY <1>1, HeightFacts
  <1>3. PICK power : Doubles(power, n) /\ power[h] > n
    BY <1>1, <1>2, HeightFacts
  <1>4. PICK level : level = MerkleLevels(hashes) /\ Grows(level, hashes, h)
    BY <1>1, <1>2, LevelsGrow
  <1> DEFINE S == {k \in 0..h : \E l \in Nat : Len(level[k]) = l + 1 /\ power[k] * l < n}
  <1>5. 0 \in S
    <2>1. Len(level[0]) = (n - 1) + 1 /\ n - 1 \in Nat
      BY <1>1, <1>4 DEF Grows
    <2>2. power[0] * (n - 1) < n
      BY <1>1, <1>3 DEF Doubles
    <2> QED
      BY <2>1, <2>2
  <1>6. ASSUME NEW k \in 1..h, k - 1 \in S
        PROVE  k \in S
    <2>1. PICK l \in Nat : Len(level[k - 1]) = l + 1 /\ power[k - 1] * l < n
      BY <1>6
    <2>2. level[k] = Round(k, level[k - 1]) /\ level[k - 1] \in Levels /\ level[k] \in Levels
      BY <1>4 DEF Grows
    <2>3. PICK p \in Nat : p = power[k - 1] /\ power[k] = 2 * p
      BY <1>3 DEF Doubles
    <2>4. CASE k > 1 /\ Len(level[k - 1]) = 1
      <3>1. PICK m \in Nat, q \in Nat : m = 0 /\ m + 1 = 1 /\ q = power[k]
        BY <2>3
      <3>2. level[k] = level[k - 1]
        BY <2>2, <2>4, Zenon DEF Round
      <3>3. Len(level[k]) = m + 1
        BY <2>4, <3>1, <3>2, Zenon
      <3>4. q * m < n
        BY <1>1, <3>1
      <3>5. k \in 0..h
        OBVIOUS
      <3> QED
        BY <3>1, <3>3, <3>4, <3>5, Zenon
    <2>5. CASE ~(k > 1 /\ Len(level[k - 1]) = 1)
      <3>1. Len(level[k]) = Half(l + 1)
        BY <2>1, <2>2, <2>5, LevelEntries DEF Round
      <3>2. PICK m \in Nat : Half(l + 1) = m + 1 /\ 2 * m <= l
        <4>1. Half(l + 1) \in 1..(l + 1) /\ 2 * (Half(l + 1) - 1) <= (l + 1) - 1
          BY HalfFacts
        <4>2. PICK q \in Nat : q = Half(l + 1) /\ q >= 1
          BY <4>1
        <4>3. q - 1 \in Nat /\ q = (q - 1) + 1 /\ 2 * (q - 1) <= l
          BY <4>1, <4>2
        <4> QED
          BY <4>2, <4>3
      <3>3. (2 * p) * m < n
        BY <2>1, <2>3, <3>2, Doubled
      <3> QED
        BY <2>3, <3>1, <3>2, <3>3
    <2> QED
      BY <2>4, <2>5
  <1>7. h \in S
    <2> HIDE DEF S
    <2>1. h \in Nat /\ h \in 0..h
      OBVIOUS
    <2>2. \A k \in 0..h : k \in S
      BY <1>5, <1>6, <2>1, Climb
    <2> QED
      BY <2>1, <2>2
  <1>8. PICK l \in Nat : Len(level[h]) = l + 1 /\ power[h] * l < n
    BY <1>7
  <1>9. PICK p \in Nat : p = power[h] /\ p > n
    BY <1>3 DEF Doubles
  <1>10. l = 0
    <2> SUFFICES ASSUME l # 0
                 PROVE  FALSE
      OBVIOUS
    <2>1. PICK k \in Nat : l = k + 1
      <3>1. l - 1 \in Nat /\ l = (l - 1) + 1
        OBVIOUS
      <3> QED
        BY <3>1
    <2>2. p * l = p * k + p /\ p * k \in Nat
      BY <2>1
    <2>3. p * l < n
      BY <1>8, <1>9
    <2> QED
      BY <1>9, <2>2, <2>3
  <1> QED
    BY <1>1, <1>2, <1>4, <1>8, <1>10

(* Hashes of 32 bytes each.                                                *)
Digests(hashes) ==
  hashes \in Seq(Seq(Nat)) /\ \A i \in 1..Len(hashes) : Len(hashes[i]) = 32

Replaced(hashes, i, hash) == [hashes EXCEPT ![i] = hash]

LEMMA ReplacedFacts ==
  ASSUME NEW hashes, Digests(hashes), NEW i \in 1..Len(hashes),
         NEW hash \in Seq(Nat), Len(hash) = 32
  PROVE  /\ Tight(hashes) /\ Tight(Replaced(hashes, i, hash))
         /\ Len(Replaced(hashes, i, hash)) = Len(hashes)
         /\ Replaced(hashes, i, hash)[i] = hash
         /\ \A j \in 1..Len(hashes) : j # i => Replaced(hashes, i, hash)[j] = hashes[j]
         /\ Len(hashes) \in Nat /\ Len(hashes) >= 1
  <1>1. PICK n \in Nat : n = Len(hashes) /\ n >= 1
    BY DEF Digests
  <1>2. hashes \in Seq(Seq(Nat)) /\ \A j \in 1..n : Len(hashes[j]) = 32
    BY <1>1 DEF Digests
  <1>3. PICK r : r = Replaced(hashes, i, hash)
    OBVIOUS
  <1>4. /\ r \in Seq(Seq(Nat)) /\ Len(r) = n /\ r[i] = hash
        /\ \A j \in 1..n : j # i => r[j] = hashes[j]
    BY <1>1, <1>2, <1>3 DEF Replaced
  <1>5. \A j \in 1..n : Len(r[j]) = 32
    BY <1>2, <1>4
  <1>6. \A j \in 1..Half(n) : j \in 1..n
    <2>1. PICK h \in Nat : h = Half(n) /\ h \in 1..n
      BY <1>1, HalfFacts
    <2> QED
      BY <1>1, <2>1
  <1>7. hashes \in Levels /\ r \in Levels
    BY <1>1, <1>2, <1>4, <1>5 DEF Levels
  <1>8. Tight(hashes) /\ Tight(r)
    BY <1>1, <1>2, <1>4, <1>5, <1>6, <1>7 DEF Tight
  <1> QED
    BY <1>1, <1>3, <1>4, <1>8

LEMMA RootApart ==
  ASSUME NEW a, NEW b, Apart(a, b), NoCollision(Merged(a) \cup Merged(b))
  PROVE  BuildMerkleTree(a) # BuildMerkleTree(b)
  <1>1. a \in Levels /\ b \in Levels
    BY DEF Apart, Tight
  <1>2. PICK n \in Nat : n = Len(a) /\ n = Len(b) /\ n >= 1
    BY DEF Apart, Tight, Levels
  <1>3. PICK h \in 1..n : h = Height(n)
    BY <1>2, HeightFacts
  <1>4. PICK A : A = MerkleLevels(a) /\ Grows(A, a, h)
    BY <1>1, <1>2, <1>3, LevelsGrow
  <1>5. PICK B : B = MerkleLevels(b) /\ Grows(B, b, h)
    BY <1>1, <1>2, <1>3, LevelsGrow
  <1> DEFINE S == {k \in 0..h : Apart(A[k], B[k])}
  <1>6. 0 \in S
    BY <1>4, <1>5 DEF Grows
  <1>7. ASSUME NEW k \in 1..h, k - 1 \in S
        PROVE  k \in S
    <2>1. Apart(A[k - 1], B[k - 1]) /\ k - 1 \in 0..(h - 1) /\ k \in 0..h
      BY <1>7
    <2>2. A[k] = Round(k, A[k - 1]) /\ B[k] = Round(k, B[k - 1])
      BY <1>4, <1>5 DEF Grows
    <2>3. NoCollision(Inputs(A[k - 1]) \cup Inputs(B[k - 1]))
      <3>1. Inputs(A[k - 1]) \subseteq Merged(a)
        BY <1>2, <1>3, <1>4, <2>1 DEF Merged
      <3>2. Inputs(B[k - 1]) \subseteq Merged(b)
        BY <1>2, <1>3, <1>5, <2>1 DEF Merged
      <3> QED
        BY <3>1, <3>2 DEF NoCollision
    <2>4. Apart(Level(A[k - 1]), Level(B[k - 1]))
      BY <2>1, <2>3, ApartStep
    <2>5. Len(A[k - 1]) = Len(B[k - 1])
      BY <2>1 DEF Apart
    <2>6. Apart(A[k], B[k])
      <3>1. CASE k > 1 /\ Len(A[k - 1]) = 1
        BY <2>1, <2>2, <2>5, <3>1 DEF Round
      <3>2. CASE ~(k > 1 /\ Len(A[k - 1]) = 1)
        BY <2>2, <2>4, <2>5, <3>2 DEF Round
      <3> QED
        BY <3>1, <3>2
    <2> QED
      BY <2>1, <2>6
  <1>8. Apart(A[h], B[h])
    <2> HIDE DEF S
    <2>1. h \in Nat /\ h \in 0..h
      OBVIOUS
    <2>2. \A k \in 0..h : k \in S
      BY <1>6, <1>7, <2>1, Climb
    <2>3. h \in S
      BY <2>1, <2>2
    <2> USE DEF S
    <2> QED
      BY <2>3
  <1>9. Len(A[h]) = 1
    BY <1>1, <1>2, <1>3, <1>4, LastLevel
  <1>10. A[h][1] # B[h][1]
    <2>1. PICK i \in 1..Half(1) : A[h][i] # B[h][i]
      BY <1>8, <1>9 DEF Apart
    <2>2. Half(1) = 1
      BY DEF Half
    <2> QED
      BY <2>1, <2>2
  <1>11. BuildMerkleTree(a) = A[h][1] /\ BuildMerkleTree(b) = B[h][1]
    BY <1>1, <1>2, <1>3, <1>4, <1>5, RootFacts
  <1> QED
    BY <1>10, <1>11

LEMMA RootOfHalf ==
  ASSUME NEW a \in Levels, NEW b \in Levels, Len(a) = Len(b),
         \A i \in 1..Half(Len(a)) : a[i] = b[i]
  PROVE  BuildMerkleTree(a) = BuildMerkleTree(b)
  <1>2. PICK n \in Nat : n = Len(a) /\ n = Len(b) /\ n >= 1
    BY DEF Levels
  <1>3. PICK h \in 1..n : h = Height(n)
    BY <1>2, HeightFacts
  <1>4. PICK A : A = MerkleLevels(a) /\ Grows(A, a, h)
    BY <1>2, <1>3, LevelsGrow
  <1>5. PICK B : B = MerkleLevels(b) /\ Grows(B, b, h)
    BY <1>2, <1>3, LevelsGrow
  <1> DEFINE S == {k \in 0..h : k # 0 => A[k] = B[k]}
  <1>6. 0 \in S
    OBVIOUS
  <1>7. ASSUME NEW k \in 1..h, k - 1 \in S
        PROVE  k \in S
    <2>1. A[k] = Round(k, A[k - 1]) /\ B[k] = Round(k, B[k - 1])
      BY <1>4, <1>5 DEF Grows
    <2>2. CASE k = 1
      <3>1. A[k] = Level(a) /\ B[k] = Level(b)
        BY <1>4, <1>5, <2>1, <2>2 DEF Grows, Round
      <3> QED
        BY <2>2, <3>1, LevelOfHalf
    <2>3. CASE k # 1
      <3>1. A[k - 1] = B[k - 1]
        BY <1>7, <2>3
      <3> QED
        BY <2>1, <3>1
    <2> QED
      BY <2>2, <2>3
  <1>8. A[h] = B[h]
    <2> HIDE DEF S
    <2>1. h \in Nat /\ h \in 0..h /\ h # 0
      OBVIOUS
    <2>2. \A k \in 0..h : k \in S
      BY <1>6, <1>7, <2>1, Climb
    <2>3. h \in S
      BY <2>1, <2>2
    <2> USE DEF S
    <2> QED
      BY <2>1, <2>3
  <1>11. BuildMerkleTree(a) = A[h][1] /\ BuildMerkleTree(b) = B[h][1]
    BY <1>2, <1>3, <1>4, <1>5, RootFacts
  <1> QED
    BY <1>8, <1>11

(***************************************************************************)
(* BuildMerkleTree, for any number of hashes of 32 bytes: another hash in  *)
(* the second half never shows in the root, whatever the digests are; in   *)
(* the first half, rounded up, it always shows, as long as the nodes of    *)
(* the two trees have different digests.                                   *)
(***************************************************************************)
THEOREM RootCoversFirstHalf ==
  ASSUME NEW hashes, Digests(hashes), NEW i \in 1..Len(hashes),
         NEW hash \in Seq(Nat), Len(hash) = 32
  PROVE  /\ ~(i \in 1..Half(Len(hashes))) =>
              BuildMerkleTree(Replaced(hashes, i, hash)) = BuildMerkleTree(hashes)
         /\ /\ i \in 1..Half(Len(hashes)) /\ hash # hashes[i]
            /\ NoCollision(Merged(hashes) \cup Merged(Replaced(hashes, i, hash)))
            => BuildMerkleTree(Replaced(hashes, i, hash)) # BuildMerkleTree(hashes)
  <1>1. PICK r : r = Replaced(hashes, i, hash)
    OBVIOUS
  <1>2. /\ Tight(hashes) /\ Tight(r) /\ Len(r) = Len(hashes) /\ r[i] = hash
        /\ \A j \in 1..Len(hashes) : j # i => r[j] = hashes[j]
    BY <1>1, ReplacedFacts
  <1>3. PICK n \in Nat : n = Len(hashes) /\ n >= 1
    BY ReplacedFacts
  <1>4. ASSUME ~(i \in 1..Half(n))
        PROVE  BuildMerkleTree(r) = BuildMerkleTree(hashes)
    <2>1. \A j \in 1..Half(n) : j \in 1..n
      <3>1. PICK h \in Nat : h = Half(n) /\ h \in 1..n
        BY <1>3, HalfFacts
      <3> QED
        BY <1>3, <3>1
    <2>2. \A j \in 1..Half(n) : r[j] = hashes[j]
      BY <1>2, <1>3, <1>4, <2>1
    <2>3. r \in Levels /\ hashes \in Levels
      BY <1>2 DEF Tight
    <2> QED
      BY <1>2, <1>3, <2>2, <2>3, RootOfHalf
  <1>5. ASSUME i \in 1..Half(n), hash # hashes[i], NoCollision(Merged(hashes) \cup Merged(r))
        PROVE  BuildMerkleTree(r) # BuildMerkleTree(hashes)
    <2>1. Apart(hashes, r)
      BY <1>2, <1>3, <1>5 DEF Apart
    <2> QED
      BY <1>5, <2>1, RootApart
  <1> QED
    BY <1>1, <1>3, <1>4, <1>5

(* Whatever the bytes of an area of the right size say, what is read of    *)
(* them is a value.                                                        *)
LEMMA WordType ==
  ASSUME NEW d \in Seq(Nat), NEW p \in Nat, p + 4 <= Len(d)
  PROVE  WordAt(d, p) \in Nat
  <1>1. PICK n \in Nat : n = Len(d) /\ p + 4 <= n
    OBVIOUS
  <1>2. p + 1 \in 1..n /\ p + 2 \in 1..n /\ p + 3 \in 1..n
    BY <1>1
  <1>3. d[p + 1] \in Nat /\ d[p + 2] \in Nat /\ d[p + 3] \in Nat
    BY <1>1, <1>2
  <1> QED
    <2>1. PICK a \in Nat, b \in Nat, c \in Nat : a = d[p + 1] /\ b = d[p + 2] /\ c = d[p + 3]
      BY <1>3
    <2>2. a + 256 * b + 65536 * c \in Nat
      OBVIOUS
    <2> QED
      BY <2>1, <2>2 DEF WordAt

LEMMA SliceType ==
  ASSUME NEW d \in Seq(Nat), NEW p \in Nat, p + 8 <= Len(d), NEW n \in Nat
  PROVE  SliceAt(d, p, n) \in Seq(Nat) /\ Len(SliceAt(d, p, n)) <= n
  <1>1. PICK off \in Nat : off = WordAt(d, p)
    <2>1. p + 4 <= Len(d)
      OBVIOUS
    <2> QED
      BY <2>1, WordType
  <1>2. PICK len \in Nat : len = WordAt(d, p + 4)
    <2>1. PICK q \in Nat : q = p + 4 /\ q + 4 <= Len(d)
      OBVIOUS
    <2> QED
      BY <2>1, WordType
  <1>3. CASE IsValidOffset(d, off, len)
    <2>1. PICK k \in Nat, z \in Nat, f \in Nat :
            /\ k = AtMost(len, n) /\ z = off + k /\ f = off + 1 /\ k <= n /\ k <= len
      <3>1. PICK k \in Nat : k = AtMost(len, n) /\ k <= n /\ k <= len
        BY DEF AtMost
      <3>2. PICK z \in Nat, f \in Nat : z = off + k /\ f = off + 1
        OBVIOUS
      <3> QED
        BY <3>1, <3>2
    <2>2. 1 <= f /\ f <= z + 1 /\ z <= Len(d)
      BY <1>3, <2>1 DEF IsValidOffset
    <2>3. PICK c \in Seq(Nat) : IsPart(c, d, f, z) /\ Len(c) = z - f + 1
      BY <2>2, Cut
    <2>4. Len(c) <= n
      <3>1. z - f + 1 <= n
        BY <2>1
      <3> QED
        BY <2>3, <3>1
    <2>5. SliceAt(d, p, n) = c
      BY <1>1, <1>2, <1>3, <2>1, <2>3, Zenon DEF SliceAt, IsPart
    <2> QED
      BY <2>4, <2>5
  <1>4. CASE ~IsValidOffset(d, off, len)
    <2>1. SliceAt(d, p, n) = <<>>
      BY <1>1, <1>2, <1>4, Zenon DEF SliceAt
    <2>2. <<>> \in Seq(Nat) /\ Len(<<>>) <= n
      OBVIOUS
    <2> QED
      BY <2>1, <2>2, Zenon
  <1> QED
    BY <1>3, <1>4

LEMMA ReadType ==
  ASSUME NEW d \in Seq(Nat), NEW at \in Nat, NEW size \in Nat, 8 <= size, at + size <= Len(d),
         WordAt(d, at) = size, NEW view, NEW fields, Agree(fields, view, size)
  PROVE  Read(d, at, view) \in Values(view)
  <1>1. Valid(d, at)
    <2>1. at + 8 <= Len(d)
      OBVIOUS
    <2> QED
      BY <2>1 DEF Valid, IsValidOffset
  <1>2. ASSUME NEW name \in DOMAIN view
        PROVE  /\ Get(d, at, view[name]) \in Seq(Nat)
               /\ IF view[name].slot THEN Len(Get(d, at, view[name])) <= view[name].n
                  ELSE Len(Get(d, at, view[name])) = view[name].n
    <2>1. PICK f : f = view[name]
      OBVIOUS
    <2>2. IsField(f) /\ f.n \in Nat /\ Reach(f) <= size
      BY <2>1 DEF Agree, Shows, Reach
    <2>3. PICK m \in Nat, n \in Nat : m = f.at /\ n = f.n
      BY <2>2 DEF IsField
    <2>4. PICK p \in Nat : p = at + m
      OBVIOUS
    <2>5. p = at + f.at
      BY <2>3, <2>4, Zenon
    <2>6. f.at + (IF f.slot THEN 12 ELSE f.n) <= WordAt(d, at)
      BY <2>2, Zenon DEF Reach
    <2>7. CASE f.slot
      <3>1. Get(d, at, f) = SliceAt(d, p, n)
        BY <2>3, <2>5, <2>6, <2>7, Zenon DEF Get
      <3>2. p + 8 <= Len(d)
        <4>1. m + 12 <= size
          BY <2>2, <2>3, <2>7 DEF Reach
        <4> QED
          BY <2>4, <4>1
      <3>3. SliceAt(d, p, n) \in Seq(Nat) /\ Len(SliceAt(d, p, n)) <= n
        BY <3>2, SliceType
      <3> QED
        BY <2>1, <2>3, <2>7, <3>1, <3>3, Zenon
    <2>8. CASE ~f.slot
      <3>1. Get(d, at, f) = SubSeq(d, p + 1, p + n)
        BY <2>3, <2>5, <2>6, <2>8, Zenon DEF Get
      <3>2. PICK a \in Nat, z \in Nat : a = p + 1 /\ z = p + n
        OBVIOUS
      <3>3. 1 <= a /\ a <= z + 1 /\ z <= Len(d)
        <4>1. m + n <= size
          BY <2>2, <2>3, <2>8 DEF Reach
        <4> QED
          BY <2>4, <3>2, <4>1
      <3>4. PICK c \in Seq(Nat) : IsPart(c, d, a, z) /\ Len(c) = z - a + 1
        BY <3>3, Cut
      <3>5. Len(c) = n
        <4>1. z - a + 1 = n
          BY <3>2
        <4> QED
          BY <3>4, <4>1, Zenon
      <3>6. Get(d, at, f) = c
        BY <3>1, <3>2, <3>4, Zenon DEF IsPart
      <3> QED
        BY <2>1, <2>3, <2>8, <3>5, <3>6, Zenon
    <2> QED
      BY <2>7, <2>8
  <1>3. PICK x : x = Read(d, at, view) /\ x = [name \in DOMAIN view |-> Get(d, at, view[name])]
    BY <1>1, Zenon DEF Read
  <1>4. x \in [DOMAIN view -> Seq(Nat)] /\ \A name \in DOMAIN view : x[name] = Get(d, at, view[name])
    BY <1>2, <1>3
  <1>5. x \in Values(view)
    BY <1>2, <1>4, Zenon DEF Values
  <1> QED
    BY <1>3, <1>5

Bodies == Values(TransactionBodyViewer)

(* A part of a datagram that is long enough holds what the datagram holds. *)
LEMMA HoldsInCut ==
  ASSUME NEW d \in Seq(Nat), NEW k \in Nat, k <= Len(d), NEW c \in Seq(Nat), Len(c) = k,
         \A i \in 1..k : c[i] = d[i],
         NEW at \in Nat, NEW bs \in Seq(Nat), Holds(d, at, bs), at + Len(bs) <= k
  PROVE  Holds(c, at, bs)
  <1>1. PICK n \in Nat : n = Len(bs) /\ at + n <= k
    OBVIOUS
  <1>2. ASSUME NEW i \in 1..n
        PROVE  c[at + i] = bs[i]
    <2>1. PICK p \in Nat : p = at + i /\ p \in 1..k
      BY <1>1
    <2>2. d[at + i] = bs[i]
      BY <1>1 DEF Holds
    <2> QED
      BY <2>1, <2>2
  <1> QED
    BY <1>1, <1>2 DEF Holds

(* What a listener makes of a datagram and the server of a request.        *)
LEMMA CutRead ==
  ASSUME NEW x \in Bodies, NEW k \in Nat, 264 <= k
  PROVE  LET sent == SerializeTransaction(x)
         IN /\ DeserializeTransaction(SubSeq(sent, 1, AtMost(Len(sent), k))) \in Bodies
            /\ DeserializeTransaction(sent) \in Bodies
  <1>1. PICK eight \in Nat, zero \in Nat, size \in Nat :
          eight = 8 /\ zero = 0 /\ size = 249
    OBVIOUS
  <1>2. PICK w \in Writer(eight) : w = Alloc(NewWriter, 8) /\ w.len = 8
    BY <1>1, NewWriterFacts
  <1>3. PICK v \in Writer(eight) :
          /\ v = TransactionWrite(x, NewWriter, 0)
          /\ Holds(Bytes(v), zero, Word(eight)) /\ Holds(Bytes(v), eight, Word(size))
          /\ 257 <= Len(Bytes(v))
    <2>1. Area(NewWriter, 0, 8) = w /\ Offset(NewWriter, 0) = zero
      BY <1>1, <1>2, NewWriterFacts DEF Area, Offset
    <2>2. TransactionWrite(x, NewWriter, 0) =
            TransactionBodyWrite(x, WriteAt(Alloc(w, 256), zero, Word(w.len)), w.len)
      BY <2>1, Zenon DEF TransactionWrite
    <2>3. zero + 8 <= eight
      BY <1>1
    <2>4. x \in Values(TransactionBodyViewer)
      BY DEF Bodies
    <2>5. PICK v \in Writer(eight) :
            /\ v = TransactionBodyWrite(x, WriteAt(Alloc(w, 256), zero, Word(w.len)), w.len)
            /\ Holds(Bytes(v), zero, Word(w.len)) /\ Holds(Bytes(v), w.len, Word(249))
            /\ w.len + 249 <= Len(Bytes(v))
      BY <2>3, <2>4, BodyBehind
    <2>6. 257 <= Len(Bytes(v))
      <3>1. w.len + 249 <= Len(Bytes(v)) /\ w.len = 8
        BY <1>2, <2>5, Zenon
      <3> QED
        BY <3>1
    <2> QED
      BY <1>1, <1>2, <2>2, <2>5, <2>6
  <1>4. PICK d \in Seq(Nat), n \in Nat :
          d = SerializeTransaction(x) /\ d = Bytes(v) /\ n = Len(d) /\ 257 <= n
    <2>1. PICK d \in Seq(Nat) : d = Bytes(v)
      BY <1>3, BytesFacts
    <2> QED
      BY <1>3, <2>1 DEF SerializeTransaction
  <1>5. Small(eight) /\ Small(size)
    BY <1>1 DEF Small, MaxWord
  <1>6. ASSUME NEW c \in Seq(Nat), NEW l \in Nat, l = Len(c), l <= n, 257 <= l,
               \A i \in 1..l : c[i] = d[i]
        PROVE  DeserializeTransaction(c) \in Bodies
    <2>1. PICK s \in Seq(Nat) : s = Word(eight) /\ Len(s) = 4
      BY WordSeq
    <2>2. PICK u \in Seq(Nat) : u = Word(size) /\ Len(u) = 4
      BY WordSeq
    <2>3. Holds(d, zero, s) /\ Holds(d, eight, u)
      BY <1>3, <1>4, <2>1, <2>2
    <2>4. zero + Len(s) <= l /\ eight + Len(u) <= l /\ l <= Len(d)
      <3>1. Len(s) = 4 /\ Len(u) = 4 /\ n = Len(d)
        BY <1>4, <2>1, <2>2, Zenon
      <3> QED
        BY <1>1, <1>6, <3>1
    <2>5. Holds(c, zero, s) /\ Holds(c, eight, u)
      BY <1>6, <2>3, <2>4, HoldsInCut
    <2>6. Holds(c, zero, Word(eight)) /\ Holds(c, eight, Word(size))
      BY <2>1, <2>2, <2>5
    <2>7. WordAt(c, zero) = eight /\ WordAt(c, eight) = size
      BY <1>5, <2>6, WordRead
    <2>8. TransactionViewer(c, 0) = eight
      <3>1. 0 + 8 <= Len(c)
        BY <1>6
      <3> QED
        BY <1>1, <2>7, <3>1 DEF TransactionViewer, IsValidOffset
    <2>9. Read(c, eight, TransactionBodyViewer) \in Bodies
      <3>1. 8 <= size /\ eight + size <= Len(c)
        BY <1>1, <1>6
      <3>2. Agree(TransactionBodyFields, TransactionBodyViewer, size)
        BY <1>1, TransactionBodyAgree
      <3> QED
        BY <2>7, <3>1, <3>2, ReadType DEF Bodies
    <2> QED
      BY <2>8, <2>9, Zenon DEF DeserializeTransaction, TransactionRead, TransactionBodyRead
  <1>7. DeserializeTransaction(d) \in Bodies
    <2>1. n = Len(d) /\ n <= n /\ \A i \in 1..n : d[i] = d[i]
      BY <1>4
    <2> QED
      BY <1>4, <1>6, <2>1
  <1>8. DeserializeTransaction(SubSeq(d, 1, AtMost(n, k))) \in Bodies
    <2>1. PICK l \in Nat : l = AtMost(n, k) /\ l <= n /\ 257 <= l
      BY <1>4 DEF AtMost
    <2>2. PICK c \in Seq(Nat) : IsPart(c, d, 1, l) /\ Len(c) = l /\ \A i \in 1..l : c[i] = d[i]
      <3>1. l <= Len(d)
        BY <1>4, <2>1
      <3> QED
        BY <3>1, CutFirst
    <2>3. DeserializeTransaction(c) \in Bodies
      BY <1>6, <2>1, <2>2
    <2> QED
      BY <2>1, <2>2, <2>3, Zenon DEF IsPart
  <1> QED
    BY <1>4, <1>7, <1>8, Zenon

(* The bytes of a struct that is a root.                                   *)
LEMMA RootSeq ==
  ASSUME NEW size \in Nat, NEW alloc \in Nat, 8 <= size, size <= alloc,
         NEW fields, NEW view, Agree(fields, view, size), NEW x \in Values(view),
         NEW d, d = Bytes(Root(x, NewWriter, alloc, size, fields)), NEW most \in Nat
  PROVE  /\ d \in Seq(Nat) /\ size <= Len(d)
         /\ (\A name \in DOMAIN view : view[name].slot => Len(x[name]) <= most)
              => Len(d) <= alloc + most * Len(fields)
  <1>1. PICK w : w = Alloc(NewWriter, alloc)
    OBVIOUS
  <1>2. w \in Writer(0 + size) /\ w.len = alloc
    <2>1. w \in Writer(alloc) /\ w.len = alloc
      BY <1>1, NewWriterFacts
    <2>2. 0 + size <= alloc
      OBVIOUS
    <2> QED
      BY <2>1, <2>2 DEF Writer
  <1>3. 0 \in Nat /\ 4 <= size
    OBVIOUS
  <1>4. Laid(x, fields, size)
    BY AgreeFits
  <1>5. PICK v : v = Put(x, w, 0, size, fields) /\ d = Bytes(v)
    BY <1>1, NewWriterFacts, Zenon DEF Root
  <1>6. v \in Writer(0 + size)
    <2>1. PutInv(v, Len(fields), x, w, 0, size, fields)
      BY <1>2, <1>3, <1>4, <1>5, PutFacts
    <2> QED
      BY <2>1, Zenon DEF PutInv
  <1>7. d \in Seq(Nat) /\ Len(d) = v.len
    <2>1. PICK last \in Nat : last = 0 + size
      OBVIOUS
    <2> QED
      BY <1>5, <1>6, <2>1, BytesFacts
  <1>8. ASSUME \A name \in DOMAIN view : view[name].slot => Len(x[name]) <= most
        PROVE  Len(d) <= alloc + most * Len(fields)
    <2>1. ASSUME NEW i \in 1..Len(fields), fields[i].slot
          PROVE  Len(x[fields[i].name]) <= most
      <3>1. /\ fields[i].name \in DOMAIN view
            /\ Shows(view[fields[i].name], fields[i], size)
        BY Zenon DEF Agree
      <3>2. view[fields[i].name].slot
        BY <2>1, <3>1, Zenon DEF Shows
      <3> QED
        BY <1>8, <3>1, <3>2
    <2>2. v.len <= w.len + most * Len(fields)
      BY <1>2, <1>3, <1>4, <1>5, <2>1, PutBound
    <2> QED
      BY <1>2, <1>7, <2>2
  <1>9. size <= v.len
    BY <1>6 DEF Writer
  <1> QED
    BY <1>7, <1>8, <1>9

(* The values that are built.                                              *)
Has(bs, n) == bs \in Seq(Nat) /\ Len(bs) = n
HasAtMost(bs, n) == bs \in Seq(Nat) /\ Len(bs) <= n

LEMMA JoinHas ==
  ASSUME NEW a, NEW b, NEW m \in Nat, NEW n \in Nat, Has(a, m), Has(b, n), NEW k, k = m + n
  PROVE  Has(a \o b, k)
  <1>1. a \in Seq(Nat) /\ b \in Seq(Nat) /\ Len(a) = m /\ Len(b) = n
    BY DEF Has
  <1>2. PICK c \in Seq(Nat) : IsJoin(c, a, b) /\ Len(c) = Len(a) + Len(b)
    BY <1>1, Join
  <1>3. Len(c) = k
    BY <1>1, <1>2
  <1> QED
    BY <1>2, <1>3, Zenon DEF Has, IsJoin

LEMMA BytesHave ==
  /\ \A n \in Nat : Has(LittleEndian(n), 8) /\ Has(Zeros(n), n)
  /\ Has(NoHash, 32) /\ Has(NoAddress, 20) /\ HasAtMost(<<>>, 0)
  <1>1. ASSUME NEW n \in Nat
        PROVE  Has(Zeros(n), n)
    BY ZerosFacts DEF Has
  <1>2. ASSUME NEW n \in Nat
        PROVE  Has(LittleEndian(n), 8)
    <2>1. PICK k \in Nat : k = 4 /\ k \in Nat
      OBVIOUS
    <2>2. Has(Word(n), k)
      BY <2>1, WordFacts DEF Has
    <2>3. Has(Zeros(k), k)
      BY <1>1
    <2>4. Has(Word(n) \o Zeros(k), 8)
      <3>1. 8 = k + k
        BY <2>1
      <3> QED
        BY <2>2, <2>3, <3>1, JoinHas
    <2> QED
      BY <2>1, <2>4 DEF LittleEndian
  <1>3. Has(NoHash, 32) /\ Has(NoAddress, 20)
    <2>1. PICK k \in Nat, n \in Nat : k = 32 /\ n = 20
      OBVIOUS
    <2> QED
      BY <1>1, <2>1 DEF NoHash, NoAddress
  <1>4. HasAtMost(<<>>, 0)
    BY DEF HasAtMost
  <1> QED
    BY <1>1, <1>2, <1>3, <1>4

LEMMA NumberHas ==
  ASSUME NEW n \in Nat
  PROVE  HasAtMost(BigBytes(n), 1) /\ (n < CurveOrder => SetBytes(BigBytes(n)) = n)
  <1>1. HasAtMost(BigBytes(n), 1)
    BY DEF HasAtMost, BigBytes
  <1>2. PICK N \in Nat : N = CurveOrder /\ N > 0
    BY CurveAssumption
  <1>3. PICK b \in Nat : b = 256
    OBVIOUS
  <1>7. <<>> \in Seq(Nat)
    OBVIOUS
  <1>4. PICK e \in Seq(Nat) : e = <<>>
    BY <1>7
  <1>5. Digits(e, b, N) = 0
    <2>1. PICK value : DigitSteps(value, e, b, N) /\ Digits(e, b, N) = value[Len(e)]
      BY <1>2, DigitsSteps
    <2>2. value[0] = 0
      BY <2>1, Zenon DEF DigitSteps
    <2>3. Len(e) = 0
      BY <1>4
    <2> QED
      BY <2>1, <2>2, <2>3
  <1>6. ASSUME n < N
        PROVE  Digits(BigBytes(n), b, N) = n
    <2>1. CASE n = 0
      BY <1>4, <1>5, <2>1 DEF BigBytes
    <2>2. CASE n # 0
      <3>1. Digits(e \o <<n>>, b, N) = (Digits(e, b, N) * b + n) % N
        BY <1>2, LastDigit
      <3>2. e \o <<n>> = BigBytes(n)
        BY <1>4, <2>2 DEF BigBytes
      <3>3. 0 * b + n = n
        OBVIOUS
      <3>4. n % N = n
        BY <1>2, <1>6, ModSmall
      <3> QED
        BY <1>5, <3>1, <3>2, <3>3, <3>4
    <2> QED
      BY <2>1, <2>2
  <1> QED
    BY <1>1, <1>2, <1>3, <1>6, Zenon DEF SetBytes

LEMMA KeyHas ==
  ASSUME NEW key \in Scalars
  PROVE  key \in Nat /\ Has(PublicKey2Bytes(key), 33)
  <1>1. key \in Nat
    BY CurveAssumption DEF Scalars
  <1> QED
    BY <1>1, MarshalFacts DEF PublicKey2Bytes, Has

LEMMA AddressHas ==
  ASSUME NEW pub \in Seq(Nat)
  PROVE  Has(PublicKeyBytes2Address(pub), 20)
  <1>1. PICK d \in Seq(Nat) : d = Sha256(pub) /\ Len(d) = 32
    BY DigestSeq
  <1>2. PICK n \in Nat : n = 20 /\ n <= Len(d)
    BY <1>1
  <1>3. PICK c \in Seq(Nat) : IsPart(c, d, 1, n) /\ Len(c) = n
    BY <1>2, CutFirst
  <1> QED
    BY <1>1, <1>2, <1>3, Zenon DEF PublicKeyBytes2Address, IsPart, Has

LEMMA SignatureHas ==
  ASSUME NEW key \in Nat, NEW digest \in Seq(Nat), Len(digest) = 32
  PROVE  HasAtMost(SignASN1(key, digest), 73)
  <1>1. PICK a : a = <<48, key>> /\ Has(a, 2)
    <2>1. PICK a : a = <<48, key>>
      OBVIOUS
    <2>2. a \in Seq(Nat) /\ Len(a) = 2
      BY <2>1
    <2> QED
      BY <2>1, <2>2 DEF Has
  <1>2. PICK z : z = <<0, 0, 0, 0, 0>> /\ Has(z, 5)
    <2>1. PICK z : z = <<0, 0, 0, 0, 0>>
      OBVIOUS
    <2>2. z \in Seq(Nat) /\ Len(z) = 5
      BY <2>1
    <2> QED
      BY <2>1, <2>2 DEF Has
  <1>3. Has(digest, 32)
    BY DEF Has
  <1>4. Has(a \o digest, 34)
    <2>1. 34 = 2 + 32 /\ 2 \in Nat /\ 32 \in Nat
      OBVIOUS
    <2> QED
      BY <1>1, <1>3, <2>1, JoinHas
  <1>5. Has(a \o digest \o digest, 66)
    <2>1. 66 = 34 + 32 /\ 34 \in Nat /\ 32 \in Nat
      OBVIOUS
    <2> QED
      BY <1>3, <1>4, <2>1, JoinHas
  <1>6. Has(a \o digest \o digest \o z, 71)
    <2>1. 71 = 66 + 5 /\ 66 \in Nat /\ 5 \in Nat
      OBVIOUS
    <2> QED
      BY <1>2, <1>5, <2>1, JoinHas
  <1>7. Has(SignASN1(key, digest), 71)
    BY <1>1, <1>2, <1>6, Zenon DEF SignASN1
  <1> QED
    BY <1>7 DEF Has, HasAtMost

(* A field replaced by one of the right size.                              *)
LEMMA ValueExcept ==
  ASSUME NEW view, NEW x \in Values(view), NEW name \in DOMAIN view, NEW bs \in Seq(Nat),
         IF view[name].slot THEN Len(bs) <= view[name].n ELSE Len(bs) = view[name].n
  PROVE  [x EXCEPT ![name] = bs] \in Values(view)
  <1>1. PICK y : y = [x EXCEPT ![name] = bs]
    OBVIOUS
  <1>2. x \in [DOMAIN view -> Seq(Nat)]
    BY DEF Values
  <1>3. y \in [DOMAIN view -> Seq(Nat)] /\ \A m \in DOMAIN view : y[m] = IF m = name THEN bs ELSE x[m]
    BY <1>1, <1>2
  <1>4. ASSUME NEW m \in DOMAIN view
        PROVE  IF view[m].slot THEN Len(y[m]) <= view[m].n ELSE Len(y[m]) = view[m].n
    <2>1. CASE m = name
      BY <1>3, <2>1
    <2>2. CASE m # name
      <3>1. y[m] = x[m]
        BY <1>3, <2>2
      <3> QED
        BY <3>1 DEF Values
    <2> QED
      BY <2>1, <2>2
  <1>5. y \in Values(view)
    BY <1>3, <1>4, Zenon DEF Values
  <1> QED
    BY <1>1, <1>5, Zenon

Suits(bs, f) == IF f.slot THEN HasAtMost(bs, f.n) ELSE Has(bs, f.n)

LEMMA ValueSuits ==
  ASSUME NEW view, NEW x, DOMAIN x = DOMAIN view, x = [name \in DOMAIN x |-> x[name]],
         \A name \in DOMAIN view : Suits(x[name], view[name])
  PROVE  x \in Values(view)
  <1>1. \A name \in DOMAIN view : x[name] \in Seq(Nat)
    BY Zenon DEF Suits, Has, HasAtMost
  <1>2. x \in [DOMAIN view -> Seq(Nat)]
    BY <1>1
  <1>3. \A name \in DOMAIN view : IF view[name].slot THEN Len(x[name]) <= view[name].n
                                   ELSE Len(x[name]) = view[name].n
    BY Zenon DEF Suits, Has, HasAtMost
  <1> QED
    BY <1>2, <1>3, Zenon DEF Values

LEMMA SuitsAs ==
  /\ \A bs, at, n : Has(bs, n) => Suits(bs, Array(at, n))
  /\ \A bs, at : Has(bs, 8) => Suits(bs, Int64(at))
  /\ \A bs, at : HasAtMost(bs, MaxWord) => Suits(bs, Slice(at))
  /\ \A bs, at, n : HasAtMost(bs, n) => Suits(bs, SliceUpTo(at, n))
  BY DEF Suits, Array, Int64, Slice, SliceUpTo

LEMMA AtMostMore ==
  ASSUME NEW bs, NEW n \in Nat, HasAtMost(bs, n), NEW m \in Nat, n <= m
  PROVE  HasAtMost(bs, m)
  <1>1. bs \in Seq(Nat) /\ Len(bs) <= n
    BY DEF HasAtMost
  <1>2. Len(bs) <= m
    BY <1>1
  <1> QED
    BY <1>1, <1>2 DEF HasAtMost

LEMMA HeaderType ==
  ASSUME NEW prev, NEW height \in Nat, NEW root, NEW params, NEW clock \in Nat,
         NodeKey \in Scalars, Has(prev, 32), Has(root, 32), HasAtMost(params, MaxWord)
  PROVE  Header(prev, height, root, params, clock) \in Values(BlockHeaderViewer)
  <1>1. PICK x : x = Header(prev, height, root, params, clock)
    OBVIOUS
  <1>2. PICK V : V = BlockHeaderViewer
    OBVIOUS
  <1>3. /\ DOMAIN V = {"Timestamp", "PrevBlockHash", "BlockHash", "MerkleRoot", "Height",
                       "PublicKey", "Params", "GasLimit"}
        /\ V.Timestamp = Int64(4) /\ V.PrevBlockHash = Array(12, 32)
        /\ V.BlockHash = Array(44, 32) /\ V.MerkleRoot = Array(76, 32)
        /\ V.Height = Int64(108) /\ V.PublicKey = Array(116, 33)
        /\ V.Params = Slice(149) /\ V.GasLimit = Int64(161)
    BY <1>2 DEF BlockHeaderViewer
  <1>4. /\ DOMAIN x = {"Timestamp", "PrevBlockHash", "BlockHash", "MerkleRoot", "Height",
                       "PublicKey", "Params", "GasLimit"}
        /\ x = [name \in DOMAIN x |-> x[name]]
        /\ x.Timestamp = LittleEndian(clock) /\ x.PrevBlockHash = prev
        /\ x.BlockHash = NoHash /\ x.MerkleRoot = root
        /\ x.Height = LittleEndian(height) /\ x.PublicKey = PublicKey2Bytes(NodeKey)
        /\ x.Params = params /\ x.GasLimit = Zeros(8)
    BY <1>1 DEF Header
  <1>5. /\ Has(x.Timestamp, 8) /\ Has(x.PrevBlockHash, 32) /\ Has(x.BlockHash, 32)
        /\ Has(x.MerkleRoot, 32) /\ Has(x.Height, 8) /\ Has(x.PublicKey, 33)
        /\ HasAtMost(x.Params, MaxWord) /\ Has(x.GasLimit, 8)
    BY <1>4, BytesHave, KeyHas
  <1>6. /\ Suits(x.Timestamp, V.Timestamp) /\ Suits(x.PrevBlockHash, V.PrevBlockHash)
        /\ Suits(x.BlockHash, V.BlockHash) /\ Suits(x.MerkleRoot, V.MerkleRoot)
        /\ Suits(x.Height, V.Height) /\ Suits(x.PublicKey, V.PublicKey)
        /\ Suits(x.Params, V.Params) /\ Suits(x.GasLimit, V.GasLimit)
    BY <1>3, <1>5, SuitsAs
  <1>7. \A name \in DOMAIN V : Suits(x[name], V[name])
    BY <1>3, <1>6
  <1>8. x \in Values(V)
    BY <1>3, <1>4, <1>7, ValueSuits
  <1> QED
    BY <1>1, <1>2, <1>8

LEMMA BodyType ==
  ASSUME NEW key \in Scalars, NEW receiver, NEW data, NEW clock \in Nat,
         Has(receiver, 20), HasAtMost(data, MaxWord)
  PROVE  NewBody(key, receiver, data, clock) \in Bodies
  <1>1. PICK x : x = NewBody(key, receiver, data, clock)
    OBVIOUS
  <1>2. PICK V : V = TransactionBodyViewer
    OBVIOUS
  <1>3. PICK pub : pub = PublicKey2Bytes(key) /\ Has(pub, 33)
    BY KeyHas
  <1>4. PICK addr : addr = PublicKeyBytes2Address(pub) /\ Has(addr, 20)
    BY <1>3, AddressHas DEF Has
  <1>5. PICK expire : expire = LittleEndian(clock + 3000) /\ Has(expire, 8)
    <2>1. clock + 3000 \in Nat
      OBVIOUS
    <2> QED
      BY <2>1, BytesHave
  <1>6. PICK time, zero, none : /\ time = LittleEndian(clock) /\ Has(time, 8)
                                /\ zero = Zeros(8) /\ Has(zero, 8)
                                /\ none = NoHash /\ Has(none, 32)
    BY BytesHave
  <1>7. PICK e : e = <<>> /\ HasAtMost(e, MaxWord) /\ HasAtMost(e, 73)
    <2>1. PICK e : e = <<>> /\ HasAtMost(e, 0)
      BY BytesHave
    <2>2. 0 <= 73 /\ 0 <= MaxWord /\ MaxWord \in Nat
      BY DEF MaxWord
    <2> QED
      BY <2>1, <2>2, AtMostMore
  <1>8. x = [Hash |-> none, Address |-> addr, Receiver |-> receiver, Gas |-> zero,
             Nonce |-> zero, Event |-> e, Opt |-> e, State |-> e, Data |-> data,
             Expire |-> expire, Height |-> zero, Index |-> zero, BlockHash |-> none,
             Timestamp |-> time, Public |-> pub, Signature |-> e]
    BY <1>1, <1>3, <1>4, <1>5, <1>6, <1>7 DEF NewBody
  <1> DEFINE Names == {"Hash", "Address", "Receiver", "Gas", "Nonce", "Event", "Opt", "State",
                       "Data", "Expire", "Height", "Index", "BlockHash", "Timestamp", "Public",
                       "Signature"}
  <1>9. DOMAIN x = Names /\ x = [name \in DOMAIN x |-> x[name]]
    BY <1>8
  <1>10. /\ x.Hash = none /\ x.Address = addr /\ x.Receiver = receiver /\ x.Gas = zero
         /\ x.Nonce = zero /\ x.Event = e /\ x.Opt = e /\ x.State = e /\ x.Data = data
         /\ x.Expire = expire /\ x.Height = zero /\ x.Index = zero /\ x.BlockHash = none
         /\ x.Timestamp = time /\ x.Public = pub /\ x.Signature = e
    BY <1>8
  <1>11. DOMAIN V = Names
    BY <1>2 DEF TransactionBodyViewer
  <1>12. /\ V.Hash = Array(4, 32) /\ V.Address = Array(36, 20) /\ V.Receiver = Array(56, 20)
         /\ V.Gas = Int64(76) /\ V.Nonce = Int64(84) /\ V.Event = Slice(92)
         /\ V.Opt = Slice(104) /\ V.State = Slice(116) /\ V.Data = Slice(128)
         /\ V.Expire = Int64(140) /\ V.Height = Int64(148) /\ V.Index = Int64(156)
         /\ V.BlockHash = Array(164, 32) /\ V.Timestamp = Int64(196)
         /\ V.Public = Array(204, 33) /\ V.Signature = SliceUpTo(237, 73)
    BY <1>2 DEF TransactionBodyViewer
  <1>13. /\ Suits(x.Hash, V.Hash) /\ Suits(x.Address, V.Address)
         /\ Suits(x.Receiver, V.Receiver) /\ Suits(x.Gas, V.Gas)
         /\ Suits(x.Nonce, V.Nonce) /\ Suits(x.Event, V.Event)
         /\ Suits(x.Opt, V.Opt) /\ Suits(x.State, V.State)
         /\ Suits(x.Data, V.Data) /\ Suits(x.Expire, V.Expire)
         /\ Suits(x.Height, V.Height) /\ Suits(x.Index, V.Index)
         /\ Suits(x.BlockHash, V.BlockHash) /\ Suits(x.Timestamp, V.Timestamp)
         /\ Suits(x.Public, V.Public) /\ Suits(x.Signature, V.Signature)
    <2>1. /\ Suits(x.Hash, V.Hash) /\ Suits(x.Address, V.Address)
          /\ Suits(x.Receiver, V.Receiver) /\ Suits(x.Gas, V.Gas)
      BY <1>3, <1>4, <1>5, <1>6, <1>7, <1>10, <1>12, SuitsAs, SMTT(20)
    <2>2. /\ Suits(x.Nonce, V.Nonce) /\ Suits(x.Event, V.Event)
          /\ Suits(x.Opt, V.Opt) /\ Suits(x.State, V.State)
      BY <1>3, <1>4, <1>5, <1>6, <1>7, <1>10, <1>12, SuitsAs, SMTT(20)
    <2>3. /\ Suits(x.Data, V.Data) /\ Suits(x.Expire, V.Expire)
          /\ Suits(x.Height, V.Height) /\ Suits(x.Index, V.Index)
      BY <1>3, <1>4, <1>5, <1>6, <1>7, <1>10, <1>12, SuitsAs, SMTT(20)
    <2>4. /\ Suits(x.BlockHash, V.BlockHash) /\ Suits(x.Timestamp, V.Timestamp)
          /\ Suits(x.Public, V.Public) /\ Suits(x.Signature, V.Signature)
      BY <1>3, <1>4, <1>5, <1>6, <1>7, <1>10, <1>12, SuitsAs, SMTT(20)
    <2> QED
      BY <2>1, <2>2, <2>3, <2>4
  <1>14. \A name \in DOMAIN V : Suits(x[name], V[name])
    BY <1>11, <1>13
  <1>15. x \in Values(V)
    BY <1>9, <1>11, <1>14, ValueSuits
  <1> QED
    BY <1>1, <1>2, <1>15 DEF Bodies

LEMMA BodyBytes ==
  ASSUME NEW x \in Bodies
  PROVE  Bytes(TransactionBodyWrite(x, NewWriter, 0)) \in Seq(Nat)
  <1>1. PICK d : d = Bytes(TransactionBodyWrite(x, NewWriter, 0))
    OBVIOUS
  <1>2. d = Bytes(Root(x, NewWriter, 256, 249, TransactionBodyFields))
    BY <1>1, Zenon DEF TransactionBodyWrite, Root, Area, Offset
  <1>3. PICK size \in Nat, alloc \in Nat : size = 249 /\ alloc = 256 /\ 8 <= size /\ size <= alloc
    OBVIOUS
  <1>4. Agree(TransactionBodyFields, TransactionBodyViewer, size)
    BY <1>3, TransactionBodyAgree
  <1>5. d \in Seq(Nat)
    BY <1>2, <1>3, <1>4, RootSeq DEF Bodies
  <1> QED
    BY <1>1, <1>5

LEMMA HeaderBytes ==
  ASSUME NEW x \in Values(BlockHeaderViewer)
  PROVE  SerializeBlockHeader(x) \in Seq(Nat)
  <1>1. PICK d : d = SerializeBlockHeader(x)
    OBVIOUS
  <1>2. d = Bytes(Root(x, NewWriter, 176, 169, BlockHeaderFields))
    BY <1>1, Zenon DEF SerializeBlockHeader, BlockHeaderWrite, Root, Area, Offset
  <1>3. PICK size \in Nat, alloc \in Nat : size = 169 /\ alloc = 176 /\ 8 <= size /\ size <= alloc
    OBVIOUS
  <1>4. Agree(BlockHeaderFields, BlockHeaderViewer, size)
    BY <1>3, BlockHeaderAgree
  <1>5. d \in Seq(Nat)
    BY <1>2, <1>3, <1>4, RootSeq
  <1> QED
    BY <1>1, <1>5

LEMMA SignedType ==
  ASSUME NEW key \in Scalars, NEW body \in Bodies
  PROVE  Signed(key, body) \in Bodies
  <1>1. PICK digest \in Seq(Nat) :
          /\ digest = Sha256(Bytes(TransactionBodyWrite(body, NewWriter, 0)))
          /\ Len(digest) = 32
    BY BodyBytes, DigestSeq
  <1>2. PICK sig \in Seq(Nat) : sig = SignASN1(key, digest) /\ Len(sig) <= 73
    BY <1>1, KeyHas, SignatureHas DEF HasAtMost
  <1>3. PICK V : V = TransactionBodyViewer
    OBVIOUS
  <1>4. /\ "Hash" \in DOMAIN V /\ ~V["Hash"].slot /\ V["Hash"].n = 32
        /\ "Signature" \in DOMAIN V /\ V["Signature"].slot /\ V["Signature"].n = 73
    BY <1>3 DEF TransactionBodyViewer, Array, SliceUpTo
  <1>5. PICK y \in Values(V) : y = [body EXCEPT !["Hash"] = digest]
    <2>1. body \in Values(V)
      BY <1>3 DEF Bodies
    <2>2. IF V["Hash"].slot THEN Len(digest) <= V["Hash"].n ELSE Len(digest) = V["Hash"].n
      BY <1>1, <1>4
    <2> QED
      BY <1>4, <2>1, <2>2, ValueExcept
  <1>6. [y EXCEPT !["Signature"] = sig] \in Values(V)
    BY <1>2, <1>4, <1>5, ValueExcept
  <1>7. Signed(key, body) = [y EXCEPT !["Signature"] = sig]
    BY <1>1, <1>2, <1>5 DEF Signed
  <1> QED
    BY <1>3, <1>6, <1>7 DEF Bodies

LEMMA HashedFacts ==
  ASSUME NEW h \in Values(BlockHeaderViewer)
  PROVE  /\ Hashed(h) \in Values(BlockHeaderViewer)
         /\ Hashed(h).Params = h.Params /\ Hashed(h).PublicKey = h.PublicKey
         /\ h.BlockHash = NoHash => Hashed([Hashed(h) EXCEPT !.BlockHash = NoHash]) = Hashed(h)
  <1>1. PICK V : V = BlockHeaderViewer
    OBVIOUS
  <1>2. PICK digest \in Seq(Nat) : digest = Sha256(SerializeBlockHeader(h)) /\ Len(digest) = 32
    BY HeaderBytes, DigestSeq
  <1>3. /\ "BlockHash" \in DOMAIN V /\ ~V["BlockHash"].slot /\ V["BlockHash"].n = 32
        /\ "Params" \in DOMAIN V /\ "PublicKey" \in DOMAIN V
    BY <1>1 DEF BlockHeaderViewer, Array
  <1>4. PICK y \in Values(V) : y = [h EXCEPT !["BlockHash"] = digest]
    BY <1>1, <1>2, <1>3, ValueExcept
  <1>5. Hashed(h) = y
    BY <1>2, <1>4 DEF Hashed
  <1>6. h \in [DOMAIN V -> Seq(Nat)]
    BY <1>1 DEF Values
  <1>7. y["Params"] = h["Params"] /\ y["PublicKey"] = h["PublicKey"]
    BY <1>3, <1>4, <1>6
  <1>8. ASSUME h.BlockHash = NoHash
        PROVE  [y EXCEPT !["BlockHash"] = NoHash] = h
    BY <1>3, <1>4, <1>6, <1>8
  <1> QED
    BY <1>1, <1>5, <1>7, <1>8

LEMMA ParamsType ==
  ASSUME NEW seed \in Nat, NEW r \in Scalars, NodeKey \in Scalars, Proof \in Seq(Nat),
         Len(Proof) <= 128
  PROVE  /\ Params(seed, r) \in Values(GeneralParamsViewer)
         /\ HasAtMost(SerializeGeneralParams(Params(seed, r)), 6000)
  <1>1. PICK vrf : vrf = VRFCalculate(NodeKey, BigBytes(seed), r)
    OBVIOUS
  <1>2. Has(vrf.value, 33) /\ vrf.s \in Nat /\ vrf.t \in Nat
    <2>1. PICK N \in Nat : N = CurveOrder /\ N > 0
      BY CurveAssumption
    <2>2. PICK xM \in Nat : xM = AsScalar(Sha256(BigBytes(seed)))
      BY NumberHas, ScalarType, KeyHas DEF HasAtMost
    <2>3. r \in Nat /\ NodeKey \in Nat
      BY KeyHas
    <2>4. PICK a \in Int, b \in Int : a = r * xM /\ b = NodeKey * xM
      BY <2>3
    <2>5. a % N \in Nat /\ b % N \in Nat
      BY <2>1, <2>4, ModParts
    <2>6. PICK u \in Nat, v \in Nat : u = (r * xM) % CurveOrder /\ v = (NodeKey * xM) % CurveOrder
      BY <2>1, <2>4, <2>5
    <2>7. PICK s \in Nat : s = Challenge(u, r)
      <3>1. Challenge(u, r) \in 0..(N - 1)
        BY <2>1, <2>3, ChallengeType
      <3> QED
        BY <3>1
    <2>8. PICK c \in Int : c = r - s * NodeKey
      BY <2>3
    <2>9. c % N \in Nat
      BY <2>1, ModParts
    <2>10. Response(r, s, NodeKey) = c % N
      BY <2>1, <2>8, Zenon DEF Response
    <2>11. vrf = [value |-> Marshal(v), s |-> s, t |-> Response(r, s, NodeKey)]
      BY <1>1, <2>2, <2>6, <2>7, Zenon DEF VRFCalculate
    <2>12. Has(Marshal(v), 33)
      BY MarshalFacts DEF Has
    <2> QED
      BY <2>9, <2>10, <2>11, <2>12
  <1>3. PICK x : x = Params(seed, r)
    OBVIOUS
  <1>4. PICK V : V = GeneralParamsViewer
    OBVIOUS
  <1>5. /\ DOMAIN V = {"Result", "Proof", "RandomNumber", "S", "T"}
        /\ V.Result = Slice(4) /\ V.Proof = Slice(16) /\ V.RandomNumber = Array(28, 33)
        /\ V.S = Slice(61) /\ V.T = Slice(73)
    BY <1>4 DEF GeneralParamsViewer
  <1>6. /\ DOMAIN x = {"Result", "Proof", "RandomNumber", "S", "T"}
        /\ x = [name \in DOMAIN x |-> x[name]]
        /\ x.Result = BigBytes(seed) /\ x.Proof = Proof /\ x.RandomNumber = vrf.value
        /\ x.S = BigBytes(vrf.s) /\ x.T = BigBytes(vrf.t)
    BY <1>1, <1>3 DEF Params
  <1>7. /\ HasAtMost(x.Result, 1) /\ HasAtMost(x.Proof, 128) /\ Has(x.RandomNumber, 33)
        /\ HasAtMost(x.S, 1) /\ HasAtMost(x.T, 1)
    BY <1>2, <1>6, NumberHas DEF HasAtMost
  <1>8. /\ HasAtMost(x.Result, MaxWord) /\ HasAtMost(x.Proof, MaxWord)
        /\ HasAtMost(x.S, MaxWord) /\ HasAtMost(x.T, MaxWord)
    <2>1. 1 <= MaxWord /\ 128 <= MaxWord /\ MaxWord \in Nat
      BY DEF MaxWord
    <2> QED
      BY <1>7, <2>1, AtMostMore
  <1>9. /\ Suits(x.Result, V.Result) /\ Suits(x.Proof, V.Proof)
        /\ Suits(x.RandomNumber, V.RandomNumber) /\ Suits(x.S, V.S) /\ Suits(x.T, V.T)
    BY <1>5, <1>7, <1>8, SuitsAs
  <1>10. \A name \in DOMAIN V : Suits(x[name], V[name])
    BY <1>5, <1>9
  <1>11. x \in Values(V)
    BY <1>5, <1>6, <1>10, ValueSuits
  <1>12. PICK F : /\ Agree(F, V, 85) /\ Len(F) = 5
                  /\ \A y, w : GeneralParamsWrite(y, w) = Root(y, w, 88, 85, F)
    BY <1>4, GeneralParamsAgree
  <1>13. PICK d : d = SerializeGeneralParams(x) /\ d = Bytes(Root(x, NewWriter, 88, 85, F))
    BY <1>12, Zenon DEF SerializeGeneralParams
  <1>14. \A name \in DOMAIN V : V[name].slot => Len(x[name]) <= 1000
    <2>1. ~V.RandomNumber.slot
      BY <1>5 DEF Array
    <2>2. Len(x.Result) <= 1000 /\ Len(x.Proof) <= 1000 /\ Len(x.S) <= 1000 /\ Len(x.T) <= 1000
      BY <1>7 DEF HasAtMost
    <2> QED
      BY <1>5, <2>1, <2>2
  <1>15. d \in Seq(Nat) /\ Len(d) <= 88 + 1000 * Len(F)
    <2>1. PICK size \in Nat, alloc \in Nat : size = 85 /\ alloc = 88 /\ 8 <= size /\ size <= alloc
      OBVIOUS
    <2>4. PICK most \in Nat : most = 1000
      OBVIOUS
    <2>2. Agree(F, V, size) /\ d = Bytes(Root(x, NewWriter, alloc, size, F))
      BY <1>12, <1>13, <2>1
    <2>3. /\ d \in Seq(Nat)
          /\ (\A name \in DOMAIN V : V[name].slot => Len(x[name]) <= most)
               => Len(d) <= alloc + most * Len(F)
      <3>1. 8 <= size /\ size <= alloc
        BY <2>1
      <3> QED
        BY <1>11, <2>2, <3>1, RootSeq
    <2> QED
      BY <1>12, <1>14, <2>1, <2>3, <2>4
  <1>16. HasAtMost(d, 6000)
    BY <1>12, <1>15 DEF HasAtMost
  <1> QED
    BY <1>3, <1>4, <1>11, <1>13, <1>16

(* A header whose parameters are as short as those of the elections, and   *)
(* of the genesis block, is found in every block's bytes.                  *)
LEMMA HeaderLen ==
  ASSUME NEW h \in Values(BlockHeaderViewer), Len(h.Params) <= 6000
  PROVE  /\ Small(HeaderWriter(h).len) /\ HeaderWriter(h).len \in Nat
         /\ HeaderWriter(h).len <= 48200
  <1>1. PICK b \in Writer(193), w \in Writer(193) :
          b = HeaderWriter(h) /\ w.len = 200 /\ b = Put(h, w, 24, 169, BlockHeaderFields)
    BY HeaderWritten
  <1>2. PICK size \in Nat, at \in Nat, most \in Nat :
          size = 169 /\ at = 24 /\ most = 6000 /\ 4 <= size /\ at + size = 193
    OBVIOUS
  <1>3. w \in Writer(at + size) /\ b = Put(h, w, at, size, BlockHeaderFields)
    BY <1>1, <1>2
  <1>4. Laid(h, BlockHeaderFields, size)
    BY <1>2, BlockHeaderAgree, AgreeFits
  <1>5. PICK F : F = BlockHeaderFields
    OBVIOUS
  <1>10. Len(F) = 8 /\ \A i \in 1..Len(F) : F[i].slot => F[i].name = "Params"
    <2>1. Len(F) = 8
      BY <1>5 DEF BlockHeaderFields
    <2>2. /\ F[1] = Inline("Timestamp", 4) /\ F[2] = Inline("PrevBlockHash", 12)
          /\ F[3] = Inline("BlockHash", 44) /\ F[4] = Inline("MerkleRoot", 76)
          /\ F[5] = Inline("Height", 108) /\ F[6] = Inline("PublicKey", 116)
          /\ F[7] = Slot("Params", 149) /\ F[8] = Inline("GasLimit", 161)
      BY <1>5 DEF BlockHeaderFields
    <2>3. F[7].name = "Params" /\ \A i \in 1..8 : i # 7 => ~F[i].slot
      BY <2>2 DEF Inline, Slot
    <2>4. \A i \in 1..Len(F) : F[i].slot => F[i].name = "Params"
      BY <2>1, <2>3
    <2> QED
      BY <2>1, <2>4
  <1>6. \A i \in 1..Len(F) : F[i].slot => Len(h[F[i].name]) <= most
    BY <1>2, <1>10
  <1>7. b.len <= w.len + most * Len(F)
    <2>1. Laid(h, F, size) /\ b = Put(h, w, at, size, F)
      BY <1>3, <1>4, <1>5
    <2>2. Put(h, w, at, size, F).len <= w.len + most * Len(F)
      BY <1>2, <1>3, <1>6, <2>1, PutBound
    <2> QED
      BY <2>1, <2>2
  <1>8. b.len \in Nat
    BY <1>1, WriterFacts
  <1>9. b.len <= 200 + 6000 * 8
    BY <1>1, <1>2, <1>7, <1>10
  <1> QED
    BY <1>1, <1>8, <1>9 DEF Small, MaxWord

LEMMA GenesisType ==
  ASSUME Genesis \in Values(GenesisParamsViewer), NodeKey \in Scalars
  PROVE  NewGenesisBlock \in BlockValues /\ Len(NewGenesisBlock.Header.Params) <= 6000
  <1>1. PICK V, F : /\ V = GenesisParamsViewer /\ Agree(F, V, 204) /\ Len(F) = 4
                    /\ \A x, w : GenesisParamsWrite(x, w) = Root(x, w, 208, 204, F)
    BY GenesisParamsAgree
  <1>2. PICK d : d = SerializeGenesisParams(Genesis)
    OBVIOUS
  <1>3. PICK size \in Nat, alloc \in Nat, most \in Nat :
          size = 204 /\ alloc = 208 /\ most = 0 /\ 8 <= size /\ size <= alloc
    OBVIOUS
  <1>4. Agree(F, V, size) /\ d = Bytes(Root(Genesis, NewWriter, alloc, size, F))
    BY <1>1, <1>2, <1>3, Zenon DEF SerializeGenesisParams
  <1>5. /\ d \in Seq(Nat)
        /\ (\A name \in DOMAIN V : V[name].slot => Len(Genesis[name]) <= most)
             => Len(d) <= alloc + most * Len(F)
    <2>1. PICK x \in Values(V) : x = Genesis
      BY <1>1
    <2>2. d = Bytes(Root(x, NewWriter, alloc, size, F))
      BY <1>4, <2>1
    <2>4. 8 <= size /\ size <= alloc
      BY <1>3
    <2>3. /\ d \in Seq(Nat)
          /\ (\A name \in DOMAIN V : V[name].slot => Len(x[name]) <= most)
               => Len(d) <= alloc + most * Len(F)
      BY <1>4, <2>2, <2>4, RootSeq
    <2> QED
      BY <2>1, <2>3
  <1>6. \A name \in DOMAIN V : ~V[name].slot
    <2>1. /\ DOMAIN V = {"Order", "TimeParam", "Seed", "VerifyParam"}
          /\ V.Order = Array(4, 128) /\ V.TimeParam = Int64(132)
          /\ V.Seed = Array(140, 32) /\ V.VerifyParam = Array(172, 32)
      BY <1>1 DEF GenesisParamsViewer
    <2> QED
      BY <2>1 DEF Array, Int64
  <1>7. Len(d) <= 208
    BY <1>1, <1>3, <1>5, <1>6
  <1>8. HasAtMost(d, MaxWord)
    BY <1>5, <1>7 DEF HasAtMost, MaxWord
  <1>9. PICK h \in Values(BlockHeaderViewer) : h = Header(NoHash, 0, NoHash, d, 1) /\ h.Params = d
    <2>1. 0 \in Nat /\ 1 \in Nat
      OBVIOUS
    <2>2. Header(NoHash, 0, NoHash, d, 1) \in Values(BlockHeaderViewer)
      BY <1>8, <2>1, BytesHave, HeaderType
    <2>3. Header(NoHash, 0, NoHash, d, 1).Params = d
      BY DEF Header
    <2> QED
      BY <2>2, <2>3
  <1>10. Hashed(h) \in Values(BlockHeaderViewer) /\ Hashed(h).Params = d
    BY <1>9, HashedFacts
  <1>11. NewGenesisBlock = [Header |-> Hashed(h), Transactions |-> <<>>]
    BY <1>2, <1>9, Zenon DEF NewGenesisBlock
  <1>12. PICK e \in Seq(Values(TransactionBodyViewer)) : e = <<>>
    <2>1. <<>> \in Seq(Values(TransactionBodyViewer))
      OBVIOUS
    <2> QED
      BY <2>1
  <1>13. PICK g : g = Hashed(h) /\ g \in Values(BlockHeaderViewer) /\ Len(g.Params) <= 6000
    <2>1. Len(d) <= 6000
      BY <1>5, <1>7
    <2> QED
      BY <1>10, <2>1
  <1>14. NewGenesisBlock = [Header |-> g, Transactions |-> e]
    BY <1>11, <1>12, <1>13
  <1> QED
    BY <1>13, <1>14 DEF BlockValues

LEMMA CommandValue ==
  ASSUME NEW type, NEW k \in Seq(Nat), NEW v \in Seq(Nat),
         type \in {setCommandString, appendCommandString},
         Len(k) <= MaxWord, Len(v) <= MaxWord
  PROVE  [Opt |-> type, Key |-> k, Value |-> v] \in Values(DataCommandViewer)
  <1>1. PICK x : x = [Opt |-> type, Key |-> k, Value |-> v]
    OBVIOUS
  <1>2. PICK V : V = DataCommandViewer
    OBVIOUS
  <1>3. /\ DOMAIN V = {"Opt", "Key", "Value"}
        /\ V.Opt = Slice(4) /\ V.Key = Slice(16) /\ V.Value = Slice(28)
    BY <1>2 DEF DataCommandViewer
  <1>4. HasAtMost(type, 6)
    <2>1. CASE type = setCommandString
      <3>1. type \in Seq(Nat) /\ Len(type) <= 6
        BY <2>1 DEF setCommandString
      <3> QED
        BY <3>1 DEF HasAtMost
    <2>2. CASE type = appendCommandString
      <3>1. type \in Seq(Nat) /\ Len(type) <= 6
        BY <2>2 DEF appendCommandString
      <3> QED
        BY <3>1 DEF HasAtMost
    <2> QED
      BY <2>1, <2>2
  <1>5. HasAtMost(type, MaxWord) /\ HasAtMost(k, MaxWord) /\ HasAtMost(v, MaxWord)
    <2>1. 6 <= MaxWord /\ MaxWord \in Nat
      BY DEF MaxWord
    <2>2. HasAtMost(type, MaxWord)
      BY <1>4, <2>1, AtMostMore
    <2> QED
      BY <2>2 DEF HasAtMost
  <1>6. /\ DOMAIN x = {"Opt", "Key", "Value"} /\ x = [name \in DOMAIN x |-> x[name]]
        /\ x.Opt = type /\ x.Key = k /\ x.Value = v
    BY <1>1
  <1>7. Suits(x.Opt, V.Opt) /\ Suits(x.Key, V.Key) /\ Suits(x.Value, V.Value)
    BY <1>3, <1>5, <1>6, SuitsAs
  <1>8. \A name \in DOMAIN V : Suits(x[name], V[name])
    BY <1>3, <1>7
  <1>9. x \in Values(V)
    BY <1>3, <1>6, <1>8, ValueSuits
  <1> QED
    BY <1>1, <1>2, <1>9

LEMMA CommandDataType ==
  ASSUME NEW type, NEW k \in Seq(Nat), NEW v \in Seq(Nat),
         type \in {setCommandString, appendCommandString},
         Len(k) <= MaxWord, Len(v) <= MaxWord
  PROVE  CommandData(type, k, v) \in Seq(Nat) /\ CommandData(type, k, v) # <<>>
  <1>1. PICK x : x = [Opt |-> type, Key |-> k, Value |-> v]
    OBVIOUS
  <1>2. PICK V, F : /\ V = DataCommandViewer /\ Agree(F, V, 40)
                    /\ \A y, w : DataCommandWrite(y, w) = Root(y, w, 48, 40, F)
    BY DataCommandAgree
  <1>3. x \in Values(V)
    BY <1>1, <1>2, CommandValue
  <1>4. PICK size \in Nat, alloc \in Nat, most \in Nat :
          size = 40 /\ alloc = 48 /\ most = 0 /\ 8 <= size /\ size <= alloc
    OBVIOUS
  <1>5. PICK d : d = CommandData(type, k, v)
    OBVIOUS
  <1>6. Agree(F, V, size) /\ d = Bytes(Root(x, NewWriter, alloc, size, F))
    BY <1>1, <1>2, <1>4, <1>5, Zenon DEF CommandData, SerializeDataCommand
  <1>7. d \in Seq(Nat) /\ size <= Len(d)
    BY <1>3, <1>4, <1>6, RootSeq
  <1>8. d # <<>>
    BY <1>4, <1>7
  <1> QED
    BY <1>5, <1>7, <1>8

-----------------------------------------------------------------------------
(* The invariant of Wire.                                                  *)

(* The header of a block packaged by the elected node.                     *)
Elected(h) ==
  \E seed \in Seeds, local \in Randoms, r \in Randoms, b \in Values(BlockHeaderViewer) :
    /\ VRFCheckLocalConsensus(NodeKey, BigBytes(seed), local)
    /\ h = Hashed(b) /\ b.BlockHash = NoHash
    /\ b.PublicKey = PublicKey2Bytes(NodeKey)
    /\ b.Params = SerializeGeneralParams(Params(seed, r))

(* What every node finds in such a header.                                 *)
Accepted(block) ==
  LET p == DeserializeGeneralParams(block.Header.Params)
      s == SetBytes(p.S)
      t == SetBytes(p.T)
  IN /\ verifyBlockVRF(block)
     /\ s # 0 => \A n \in Scalars :
          /\ Marshal(n) # p.RandomNumber =>
               ~VRFVerify(NodeKey, p.Result, s, t, Marshal(n))
          /\ n # NodeKey => ~VRFVerify(n, p.Result, s, t, p.RandomNumber)
     /\ Hashed([block.Header EXCEPT !.BlockHash = NoHash]) = block.Header

LEMMA ProofSizes ==
  ASSUME NEW key \in Scalars, NEW r \in Scalars, NEW msg \in Seq(Nat)
  PROVE  LET vrf == VRFCalculate(key, msg, r)
         IN vrf.s \in 0..(CurveOrder - 1) /\ vrf.t \in 0..(CurveOrder - 1)
  <1>1. PICK N \in Nat : N = CurveOrder /\ N > 0
    BY CurveAssumption
  <1>2. PICK xM \in Nat : xM = AsScalar(Sha256(msg))
    BY ScalarType, KeyHas
  <1>3. r \in Nat /\ key \in Nat
    BY KeyHas
  <1>4. PICK a \in Int : a = r * xM
    BY <1>3
  <1>5. a % N \in Nat
    BY <1>1, ModParts
  <1>6. PICK u \in Nat : u = (r * xM) % CurveOrder
    BY <1>1, <1>4, <1>5
  <1>7. Challenge(u, r) \in 0..(CurveOrder - 1)
    BY <1>3, ChallengeType
  <1>8. PICK s \in Nat : s = Challenge(u, r)
    <2>1. Challenge(u, r) \in Nat
      BY <1>1, <1>7
    <2> QED
      BY <2>1
  <1>9. PICK c \in Int : c = r - s * key
    BY <1>3
  <1>10. c % N \in 0..(N - 1)
    BY <1>1, ModParts
  <1>11. Response(r, s, key) = c % N
    BY <1>1, <1>9, Zenon DEF Response
  <1>12. PICK t : t = Response(r, s, key) /\ t \in 0..(CurveOrder - 1)
    BY <1>1, <1>10, <1>11
  <1>13. VRFCalculate(key, msg, r).s = s /\ VRFCalculate(key, msg, r).t = t
    BY <1>2, <1>6, <1>8, <1>12 DEF VRFCalculate
  <1> QED
    BY <1>7, <1>8, <1>12, <1>13

LEMMA ValueSize ==
  ASSUME NEW key \in Scalars, NEW r \in Scalars, NEW msg \in Seq(Nat)
  PROVE  \E v \in 0..(CurveOrder - 1) : VRFCalculate(key, msg, r).value = Marshal(v)
  <1>1. PICK N \in Nat : N = CurveOrder /\ N > 0
    BY CurveAssumption
  <1>2. PICK x \in Nat : x = AsScalar(Sha256(msg))
    <2>1. AsScalar(Sha256(msg)) \in Scalars
      BY ScalarType
    <2> QED
      BY <1>1, <2>1 DEF Scalars
  <1>3. PICK a \in Int : a = key * x
    BY DEF Scalars
  <1>4. a % N \in 0..(N - 1)
    BY <1>1, ModParts
  <1>5. VRFCalculate(key, msg, r).value = Marshal((key * x) % CurveOrder)
    BY <1>2 DEF VRFCalculate
  <1> QED
    BY <1>1, <1>3, <1>4, <1>5

LEMMA ElectedAccepted ==
  ASSUME NEW block, Elected(block.Header), NodeKey \in Scalars, Seeds \subseteq Nat,
         Randoms \subseteq Scalars, Proof \in Seq(Nat), Len(Proof) <= 128
  PROVE  Accepted(block)
  <1>1. PICK seed \in Seeds, local \in Randoms, r \in Randoms, b \in Values(BlockHeaderViewer) :
          /\ VRFCheckLocalConsensus(NodeKey, BigBytes(seed), local)
          /\ block.Header = Hashed(b) /\ b.BlockHash = NoHash
          /\ b.PublicKey = PublicKey2Bytes(NodeKey)
          /\ b.Params = SerializeGeneralParams(Params(seed, r))
    BY DEF Elected
  <1>2. seed \in Nat /\ local \in Scalars /\ r \in Scalars
    OBVIOUS
  <1>3. PICK msg \in Seq(Nat) : msg = BigBytes(seed)
    BY <1>2, NumberHas DEF HasAtMost
  <1>4. PICK vrf : vrf = VRFCalculate(NodeKey, msg, r)
    OBVIOUS
  <1>5. PICK h : h = block.Header
    OBVIOUS
  <1>6. /\ h.Params = SerializeGeneralParams(Params(seed, r))
        /\ h.PublicKey = PublicKey2Bytes(NodeKey)
        /\ Hashed([h EXCEPT !.BlockHash = NoHash]) = h
    BY <1>1, <1>5, HashedFacts
  <1>7. PICK p : p = DeserializeGeneralParams(h.Params)
    OBVIOUS
  <1>8. p = Params(seed, r)
    <2>1. PICK x \in Values(GeneralParamsViewer) : x = Params(seed, r)
      BY <1>2, ParamsType
    <2>2. HasAtMost(SerializeGeneralParams(x), 6000)
      BY <1>2, <2>1, ParamsType
    <2>3. Small(Len(SerializeGeneralParams(x)))
      BY <2>2 DEF HasAtMost, Small, MaxWord
    <2>4. DeserializeGeneralParams(SerializeGeneralParams(x)) = x
      BY <2>3, MessagesReadAsWritten
    <2> QED
      BY <1>6, <1>7, <2>1, <2>4
  <1>9. /\ p.Result = msg /\ p.RandomNumber = vrf.value
        /\ p.S = BigBytes(vrf.s) /\ p.T = BigBytes(vrf.t)
    BY <1>3, <1>4, <1>8 DEF Params
  <1>10. SetBytes(p.S) = vrf.s /\ SetBytes(p.T) = vrf.t
    <2>1. vrf.s \in 0..(CurveOrder - 1) /\ vrf.t \in 0..(CurveOrder - 1)
      BY <1>2, <1>4, ProofSizes
    <2>2. vrf.s \in Nat /\ vrf.t \in Nat /\ vrf.s < CurveOrder /\ vrf.t < CurveOrder
      <3>1. CurveOrder \in 5..255
        BY CurveAssumption, Zenon
      <3>2. PICK n \in Nat : n = CurveOrder
        BY <3>1
      <3>3. vrf.s \in 0..(n - 1) /\ vrf.t \in 0..(n - 1)
        BY <2>1, <3>2
      <3>4. \A k \in 0..(n - 1) : k \in Nat /\ k < n
        OBVIOUS
      <3> QED
        BY <3>2, <3>3, <3>4, Zenon
    <2> QED
      BY <1>9, <2>2, NumberHas
  <1>11. Bytes2PublicKey(h.PublicKey) = NodeKey
    BY <1>6, KeyHas, MarshalFacts DEF Bytes2PublicKey, PublicKey2Bytes
  <1>12. VRFCheckRemoteConsensus(NodeKey, msg, vrf.s, vrf.t, vrf.value)
    <2>1. VRFCheckLocalConsensus(NodeKey, msg, local)
      BY <1>1, <1>3
    <2> QED
      BY <1>2, <1>4, <2>1, ElectionsAgree
  <1>13. verifyBlockVRF(block)
    BY <1>5, <1>7, <1>9, <1>10, <1>11, <1>12 DEF verifyBlockVRF
  <1>14. vrf.s # 0 => \A n \in Scalars :
           /\ Marshal(n) # vrf.value => ~VRFVerify(NodeKey, msg, vrf.s, vrf.t, Marshal(n))
           /\ n # NodeKey => ~VRFVerify(n, msg, vrf.s, vrf.t, vrf.value)
    <2>1. PICK v \in 0..(CurveOrder - 1) : vrf.value = Marshal(v)
      BY <1>2, <1>4, ValueSize
    <2>2. VRFVerify(NodeKey, msg, vrf.s, vrf.t, Marshal(v))
      BY <1>12, <2>1 DEF VRFCheckRemoteConsensus
    <2>3. vrf.t \in 0..(CurveOrder - 1) /\ (vrf.s # 0 => vrf.s \in Scalars)
      <3>1. vrf.s \in 0..(CurveOrder - 1) /\ vrf.t \in 0..(CurveOrder - 1)
        BY <1>2, <1>4, ProofSizes
      <3> QED
        BY <3>1, CurveAssumption DEF Scalars
    <2>4. \A n \in Scalars : n \in 0..(CurveOrder - 1)
      BY CurveAssumption DEF Scalars
    <2>5. SUFFICES ASSUME vrf.s # 0, NEW n \in Scalars
                   PROVE  /\ Marshal(n) # Marshal(v) =>
                               ~VRFVerify(NodeKey, msg, vrf.s, vrf.t, Marshal(n))
                          /\ n # NodeKey => ~VRFVerify(n, msg, vrf.s, vrf.t, Marshal(v))
      BY <2>1
    <2>6. n \in 0..(CurveOrder - 1) /\ NodeKey \in 0..(CurveOrder - 1)
      BY <2>4
    <2> QED
      BY <1>3, <2>2, <2>3, <2>5, <2>6, ProofBinds, Zenon
  <1> QED
    BY <1>5, <1>6, <1>7, <1>9, <1>10, <1>13, <1>14 DEF Accepted

(* The assumptions.                                                        *)
LEMMA Given ==
  /\ NodeKey \in Scalars /\ Seeds \subseteq Nat /\ Randoms \subseteq Scalars
  /\ Proof \in Seq(Nat) /\ Len(Proof) <= 128
  /\ Genesis \in Values(GenesisParamsViewer)
  /\ Has(Contract, 20)
  /\ udpBufferSize \in Nat /\ 264 <= udpBufferSize
  /\ \A r \in Requests :
       /\ r.Client \in Scalars
       /\ r.Key \in Seq(Nat) /\ r.Value \in Seq(Nat)
       /\ Len(r.Key) <= MaxWord /\ Len(r.Value) <= MaxWord
       /\ Len(CommandData(r.Type, r.Key, r.Value)) <= MaxWord
  <1>1. Has(Contract, 20)
    BY ClientAssumption DEF Has
  <1>2. udpBufferSize \in Nat /\ 264 <= udpBufferSize
    <2>1. udpBufferSize >= 264 /\ udpBufferSize \in Nat
      BY BoundAssumption
    <2> QED
      BY <2>1
  <1>3. \A r \in Requests :
          /\ r.Client \in Scalars
          /\ r.Key \in Seq(Nat) /\ r.Value \in Seq(Nat)
          /\ Len(r.Key) <= MaxWord /\ Len(r.Value) <= MaxWord
          /\ Len(CommandData(r.Type, r.Key, r.Value)) <= MaxWord
    BY ClientAssumption
  <1> QED
    BY <1>1, <1>2, <1>3, NodeAssumption, Zenon

(* txPool is a map of Go, so finite; blocks of elections are packed with   *)
(* parameters of at most four numbers and the result, and the genesis      *)
(* block's are shorter.                                                    *)
PoolInv == IsFiniteSet(DOMAIN txPool) /\ \A h \in DOMAIN txPool : txPool[h] \in Bodies

BlocksInv ==
  /\ blocks \in Seq(BlockValues) /\ Len(blocks) >= 1
  /\ \A i \in 1..Len(blocks) : Len(blocks[i].Header.Params) <= 6000
  /\ \A i \in 2..Len(blocks) : Elected(blocks[i].Header)

WireInv == made \in Seq(Bodies) /\ PoolInv /\ BlocksInv

LEMMA PoolGrows ==
  ASSUME PoolInv, NEW tx \in Bodies, AddTransaction(tx)
  PROVE  PoolInv'
  <1>1. PICK h : h = tx.Hash
    OBVIOUS
  <1>2. txPool' = Overlay(txPool, [k \in {h} |-> tx])
    BY <1>1 DEF AddTransaction
  <1>3. /\ DOMAIN txPool' = DOMAIN txPool \cup {h}
        /\ \A k \in DOMAIN txPool' : txPool'[k] = IF k = h THEN tx ELSE txPool[k]
    BY <1>2 DEF Overlay
  <1>4. IsFiniteSet(DOMAIN txPool')
    <2>1. IsFiniteSet(DOMAIN txPool \cup {h})
      BY FS_AddElement DEF PoolInv
    <2> QED
      BY <1>3, <2>1
  <1>5. \A k \in DOMAIN txPool' : txPool'[k] \in Bodies
    BY <1>3 DEF PoolInv
  <1> QED
    BY <1>4, <1>5 DEF PoolInv

LEMMA PoolShrinks ==
  ASSUME PoolInv, NEW S, txPool' = [h \in DOMAIN txPool \ S |-> txPool[h]]
  PROVE  PoolInv'
  <1>1. DOMAIN txPool' \subseteq DOMAIN txPool /\ \A h \in DOMAIN txPool' : txPool'[h] = txPool[h]
    OBVIOUS
  <1>2. IsFiniteSet(DOMAIN txPool')
    BY <1>1, FS_Subset DEF PoolInv
  <1> QED
    BY <1>1, <1>2 DEF PoolInv

LEMMA ClockType ==
  ASSUME made \in Seq(Bodies)
  PROVE  Clock \in Nat
  <1>1. Len(made) \in Nat
    OBVIOUS
  <1> QED
    BY <1>1 DEF Clock

LEMMA MakeType ==
  ASSUME made \in Seq(Bodies), NEW r, NEW tx \in Bodies, Make(r, tx)
  PROVE  made' \in Seq(Bodies)
  <1>1. made' = Append(made, tx)
    BY DEF Make
  <1> QED
    BY <1>1

(* The transactions that are packaged, in whatever order, and their hashes. *)
IsPacked(txs, hashes) == txs = [i \in DOMAIN hashes |-> txPool[hashes[i]]]
IsHashes(hs, txs) == hs = [i \in DOMAIN txs |-> txs[i].Hash]

LEMMA PackagedType ==
  ASSUME PoolInv, NEW hashes \in Packaged, NEW txs, IsPacked(txs, hashes),
         NEW hs, IsHashes(hs, txs)
  PROVE  /\ txs \in Seq(Bodies) /\ hs \in Seq(Seq(Nat))
         /\ \A i \in 1..Len(hs) : Len(hs[i]) = 32
  <1>1. PICK S : S = {h \in DOMAIN txPool : <<"tx", h>> \notin DOMAIN db}
    OBVIOUS
  <1>2. PICK n \in Nat : n = Cardinality(S)
    <2>1. S \subseteq DOMAIN txPool
      BY <1>1
    <2>2. IsFiniteSet(S)
      BY <2>1, FS_Subset DEF PoolInv
    <2> QED
      BY <2>2, FS_CardinalityType
  <1>3. hashes \in [1..n -> S]
    BY <1>1, <1>2 DEF Packaged, SetToSeqs
  <1>4. txs \in [1..n -> Bodies]
    <2>1. \A i \in 1..n : txPool[hashes[i]] \in Bodies
      BY <1>1, <1>3 DEF PoolInv
    <2> QED
      BY <1>3, <2>1 DEF IsPacked
  <1>6. \A x \in Bodies : x.Hash \in Seq(Nat) /\ Len(x.Hash) = 32
    <2> TAKE x \in Bodies
    <2>1. PICK V : V = TransactionBodyViewer /\ x \in Values(V)
      BY DEF Bodies
    <2>2. "Hash" \in DOMAIN V /\ ~V["Hash"].slot /\ V["Hash"].n = 32
      BY <2>1 DEF TransactionBodyViewer, Array
    <2> QED
      BY <2>1, <2>2 DEF Values
  <1>7. hs \in [1..n -> Seq(Nat)] /\ \A i \in 1..n : Len(hs[i]) = 32
    BY <1>4, <1>6 DEF IsHashes
  <1>8. hs \in Seq(Seq(Nat)) /\ Len(hs) = n
    BY <1>7
  <1>9. txs \in Seq(Bodies)
    BY <1>4
  <1> QED
    BY <1>7, <1>8, <1>9

LEMMA CommandType ==
  ASSUME NEW r \in Requests, r.Type \in {setCommandString, appendCommandString}, NEW c \in Nat
  PROVE  CommandTransaction(r.Client, Contract, r.Type, r.Key, r.Value, c) \in Bodies
  <1>1. PICK key \in Scalars, k \in Seq(Nat), v \in Seq(Nat) :
          key = r.Client /\ k = r.Key /\ v = r.Value /\ Len(k) <= MaxWord /\ Len(v) <= MaxWord
    BY Given
  <1>2. PICK data : data = CommandData(r.Type, k, v)
    OBVIOUS
  <1>3. data \in Seq(Nat)
    BY <1>1, <1>2, CommandDataType
  <1>4. HasAtMost(data, MaxWord)
    <2>1. Len(data) <= MaxWord
      BY <1>1, <1>2, Given
    <2> QED
      BY <1>3, <2>1 DEF HasAtMost
  <1>5. PICK body \in Bodies : body = NewBody(key, Contract, data, c)
    BY <1>4, Given, BodyType
  <1>6. Signed(key, body) \in Bodies
    BY SignedType
  <1> QED
    BY <1>1, <1>2, <1>5, <1>6, Zenon DEF CommandTransaction

LEMMA SenderType ==
  ASSUME NEW r \in Requests, NEW c \in Nat
  PROVE  buildTransaction(r.Client, r.Value, c) \in Bodies
  <1>1. PICK key \in Scalars, v \in Seq(Nat) :
          key = r.Client /\ v = r.Value /\ Len(v) <= MaxWord
    BY Given
  <1>2. HasAtMost(v, MaxWord) /\ Has(NoAddress, 20)
    BY <1>1, BytesHave DEF HasAtMost
  <1>3. PICK body \in Bodies : body = NewBody(key, NoAddress, v, c)
    BY <1>2, BodyType
  <1>4. Signed(key, body) \in Bodies
    BY SignedType
  <1> QED
    BY <1>1, <1>3, <1>4, Zenon DEF buildTransaction

(* What is packaged is a block of an elected node.                         *)
LEMMA PackagedBlock ==
  ASSUME BlocksInv, PoolInv, made \in Seq(Bodies),
         NEW seed \in Seeds, NEW local \in Randoms, NEW r \in Randoms,
         VRFCheckLocalConsensus(NodeKey, BigBytes(seed), local),
         NEW hashes \in Packaged, NEW txs, IsPacked(txs, hashes),
         NEW block, block = PackageNewBlock(txs, Clock, Params(seed, r))
  PROVE  block \in BlockValues /\ Len(block.Header.Params) <= 6000 /\ Elected(block.Header)
  <1>1. PICK hs : IsHashes(hs, txs)
    BY DEF IsHashes
  <1>3. /\ txs \in Seq(Bodies) /\ hs \in Seq(Seq(Nat))
        /\ \A i \in 1..Len(hs) : Len(hs[i]) = 32
    BY <1>1, PackagedType, Zenon
  <1>2. PICK ts \in Seq(Values(TransactionBodyViewer)) : ts = txs
    BY <1>3 DEF Bodies
  <1>4. PICK root : root = BuildMerkleTree(hs) /\ Has(root, 32)
    BY <1>3, RootType DEF Has
  <1>5. PICK n \in Nat : n = Len(blocks) /\ n >= 1
    BY DEF BlocksInv
  <1>6. PICK best \in Values(BlockHeaderViewer) : best = blocks[n].Header
    <2>1. blocks[n] \in BlockValues
      BY <1>5 DEF BlocksInv
    <2> QED
      BY <2>1 DEF BlockValues
  <1>7. PICK prev : prev = best.BlockHash /\ Has(prev, 32)
    <2>1. PICK V : V = BlockHeaderViewer /\ best \in Values(V)
      OBVIOUS
    <2>2. "BlockHash" \in DOMAIN V /\ ~V["BlockHash"].slot /\ V["BlockHash"].n = 32
      BY <2>1 DEF BlockHeaderViewer, Array
    <2> QED
      BY <2>1, <2>2 DEF Values, Has
  <1>8. PICK params : params = SerializeGeneralParams(Params(seed, r)) /\ HasAtMost(params, 6000)
    BY Given, ParamsType
  <1>9. HasAtMost(params, MaxWord)
    <2>1. 6000 <= MaxWord /\ MaxWord \in Nat
      BY DEF MaxWord
    <2> QED
      BY <1>8, <2>1, AtMostMore
  <1>10. PICK c \in Nat : c = Clock
    BY ClockType
  <1>11. PICK b \in Values(BlockHeaderViewer) : b = Header(prev, n, root, params, c)
    BY <1>4, <1>7, <1>9, Given, HeaderType
  <1>12. /\ b.BlockHash = NoHash /\ b.PublicKey = PublicKey2Bytes(NodeKey)
         /\ b.Params = params
    BY <1>11 DEF Header
  <1>13. PICK h \in Values(BlockHeaderViewer) : h = Hashed(b) /\ h.Params = params
    BY <1>12, HashedFacts
  <1>14. block = [Header |-> h, Transactions |-> ts]
    <2>1. PackageNewBlock(txs, Clock, Params(seed, r)) =
            [Header |-> Hashed(Header(blocks[Len(blocks)].Header.BlockHash, Len(blocks),
                        BuildMerkleTree([i \in DOMAIN txs |-> txs[i].Hash]),
                        SerializeGeneralParams(Params(seed, r)), Clock)),
             Transactions |-> txs]
      BY Zenon DEF PackageNewBlock
    <2> QED
      BY <1>1, <1>2, <1>4, <1>5, <1>6, <1>7, <1>8, <1>10, <1>11, <1>13, <2>1 DEF IsHashes
  <1>15. Elected(h)
    BY <1>8, <1>12, <1>13 DEF Elected
  <1>16. Len(params) <= 6000
    BY <1>8 DEF HasAtMost
  <1> QED
    BY <1>13, <1>14, <1>15, <1>16 DEF BlockValues

LEMMA PackageKeeps ==
  ASSUME WireInv, NEW seed \in Seeds, NEW local \in Randoms, NEW r \in Randoms,
         Package(seed, local, r)
  PROVE  WireInv'
  <1>1. made \in Seq(Bodies) /\ PoolInv /\ BlocksInv
    BY DEF WireInv
  <1>2. /\ VRFCheckLocalConsensus(NodeKey, BigBytes(seed), local)
        /\ txPool' = <<>> /\ made' = made
    BY DEF Package
  <1>3. PICK hashes \in Packaged :
          LET txs == [i \in DOMAIN hashes |-> txPool[hashes[i]]]
          IN blocks' = Append(blocks, PackageNewBlock(txs, Clock, Params(seed, r)))
    BY Zenon DEF Package
  <1>4. PICK txs : IsPacked(txs, hashes)
    BY DEF IsPacked
  <1>5. PICK block : block = PackageNewBlock(txs, Clock, Params(seed, r))
    OBVIOUS
  <1>6. block \in BlockValues /\ Len(block.Header.Params) <= 6000 /\ Elected(block.Header)
    BY <1>1, <1>2, <1>4, <1>5, PackagedBlock
  <1>7. blocks' = Append(blocks, block)
    BY <1>3, <1>4, <1>5 DEF IsPacked
  <1>8. PICK n \in Nat : n = Len(blocks) /\ n >= 1
    BY <1>1 DEF BlocksInv
  <1>9. /\ blocks' \in Seq(BlockValues) /\ Len(blocks') = n + 1 /\ blocks'[n + 1] = block
        /\ \A i \in 1..n : blocks'[i] = blocks[i]
    BY <1>1, <1>6, <1>7, <1>8 DEF BlocksInv
  <1>10. \A i \in 1..(n + 1) : Len(blocks'[i].Header.Params) <= 6000
    <2> TAKE i \in 1..(n + 1)
    <2>1. CASE i = n + 1
      BY <1>6, <1>9, <2>1
    <2>2. CASE i \in 1..n
      <3>1. Len(blocks[i].Header.Params) <= 6000
        BY <1>1, <1>8, <2>2 DEF BlocksInv
      <3> QED
        BY <1>9, <2>2, <3>1
    <2> QED
      BY <2>1, <2>2
  <1>11. \A i \in 2..(n + 1) : Elected(blocks'[i].Header)
    <2> TAKE i \in 2..(n + 1)
    <2>1. CASE i = n + 1
      BY <1>6, <1>9, <2>1
    <2>2. CASE i \in 2..n
      <3>1. Elected(blocks[i].Header) /\ i \in 1..n
        BY <1>1, <1>8, <2>2 DEF BlocksInv
      <3> QED
        BY <1>9, <3>1
    <2> QED
      BY <2>1, <2>2
  <1>12. BlocksInv'
    <2>1. Len(blocks') >= 1
      BY <1>8, <1>9
    <2>2. \A i \in 2..Len(blocks') : Elected(blocks'[i].Header)
      BY <1>9, <1>11
    <2> QED
      BY <1>9, <1>10, <2>1, <2>2 DEF BlocksInv, Elected
  <1>13. PoolInv'
    <2>1. DOMAIN txPool' = {}
      BY <1>2
    <2> QED
      BY <2>1, FS_EmptySet DEF PoolInv
  <1> QED
    BY <1>1, <1>2, <1>12, <1>13 DEF WireInv

LEMMA WireStarts ==
  ASSUME WireInit
  PROVE  WireInv
  <1>1. made \in Seq(Bodies)
    BY DEF WireInit
  <1>2. PoolInv
    <2>1. DOMAIN txPool = {}
      BY DEF WireInit
    <2> QED
      BY <2>1, FS_EmptySet DEF PoolInv
  <1>3. BlocksInv
    <2>1. PICK g \in BlockValues : g = NewGenesisBlock /\ Len(g.Header.Params) <= 6000
      BY Given, GenesisType
    <2>2. blocks = <<g>>
      BY <2>1 DEF WireInit
    <2> QED
      BY <2>1, <2>2 DEF BlocksInv
  <1> QED
    BY <1>1, <1>2, <1>3 DEF WireInv

LEMMA WireSteps ==
  ASSUME WireInv, [WireNext]_wireVars
  PROVE  WireInv'
  <1>1. made \in Seq(Bodies) /\ PoolInv /\ BlocksInv
    BY DEF WireInv
  <1>2. ASSUME UNCHANGED txPool
        PROVE  PoolInv'
    BY <1>1, <1>2 DEF PoolInv
  <1>3. ASSUME UNCHANGED blocks
        PROVE  BlocksInv'
    BY <1>1, <1>3 DEF BlocksInv, Elected
  <1>4. PICK c \in Nat : c = Clock
    BY <1>1, ClockType
  <1>5. ASSUME NEW r \in Requests, NEW here \in BOOLEAN, SendTransactionWithData(r, here)
        PROVE  WireInv'
    <2>1. PICK tx \in Bodies :
            tx = CommandTransaction(r.Client, Contract, r.Type, r.Key, r.Value, Clock)
      BY <1>4, <1>5, CommandType DEF SendTransactionWithData
    <2>2. Make(r, tx) /\ (IF here THEN AddTransaction(tx) ELSE UNCHANGED <<txPool, known>>)
      BY <1>5, <2>1, Zenon DEF SendTransactionWithData
    <2>3. made' \in Seq(Bodies)
      BY <1>1, <2>2, MakeType
    <2>4. PoolInv'
      <3>1. CASE here
        BY <1>1, <2>2, <3>1, PoolGrows
      <3>2. CASE ~here
        BY <1>2, <2>2, <3>2
      <3> QED
        BY <3>1, <3>2
    <2>5. UNCHANGED blocks
      BY <2>2 DEF Make
    <2> QED
      BY <1>3, <2>3, <2>4, <2>5 DEF WireInv
  <1>6. ASSUME NEW r \in Requests, SenderBuilds(r)
        PROVE  WireInv'
    <2>1. PICK tx \in Bodies : tx = buildTransaction(r.Client, r.Value, Clock)
      BY <1>4, SenderType
    <2>2. Make(r, tx) /\ UNCHANGED txPool
      BY <1>6, <2>1, Zenon DEF SenderBuilds
    <2>3. made' \in Seq(Bodies)
      BY <1>1, <2>2, MakeType
    <2>4. UNCHANGED blocks
      BY <2>2 DEF Make
    <2> QED
      BY <1>2, <1>3, <2>2, <2>3, <2>4 DEF WireInv
  <1>7. ASSUME NEW i \in DOMAIN made, TransactionUDP(made[i])
        PROVE  WireInv'
    <2>1. PICK tx \in Bodies : tx = made[i]
      BY <1>1
    <2>2. Datagram(tx) \in Bodies
      BY Given, CutRead, Zenon DEF Datagram
    <2>3. AddTransaction(Datagram(tx)) /\ UNCHANGED made /\ UNCHANGED blocks
      BY <1>7, <2>1 DEF TransactionUDP
    <2>4. PoolInv'
      BY <1>1, <2>2, <2>3, PoolGrows
    <2> QED
      BY <1>1, <1>3, <2>3, <2>4 DEF WireInv
  <1>8. ASSUME NEW i \in DOMAIN made, SubmitTransaction(made[i])
        PROVE  WireInv'
    <2>1. PICK tx \in Bodies : tx = made[i]
      BY <1>1
    <2>2. PICK got : got = DeserializeTransaction(SerializeTransaction(tx))
      OBVIOUS
    <2>3. got \in Bodies
      BY <2>2, Given, CutRead, Zenon
    <2>4. AddTransaction(got) /\ UNCHANGED made /\ UNCHANGED blocks
      BY <1>8, <2>1, <2>2 DEF SubmitTransaction
    <2>5. PoolInv'
      BY <1>1, <2>3, <2>4, PoolGrows
    <2> QED
      BY <1>1, <1>3, <2>4, <2>5 DEF WireInv
  <1>9. ASSUME NEW seed \in Seeds, NEW local \in Randoms, NEW r \in Randoms,
               Package(seed, local, r)
        PROVE  WireInv'
    BY <1>9, PackageKeeps
  <1>10. ASSUME NEW i \in DOMAIN blocks, InsertBlock(i)
         PROVE  WireInv'
    <2>1. PICK S : txPool' = [h \in DOMAIN txPool \ S |-> txPool[h]]
      BY <1>10, Zenon DEF InsertBlock
    <2>2. UNCHANGED made /\ UNCHANGED blocks
      BY <1>10 DEF InsertBlock
    <2>3. PoolInv'
      BY <1>1, <2>1, PoolShrinks
    <2> QED
      BY <1>1, <1>3, <2>2, <2>3 DEF WireInv
  <1>11. CASE UNCHANGED wireVars
    BY <1>1, <1>2, <1>3, <1>11 DEF wireVars, WireInv
  <1> QED
    BY <1>5, <1>6, <1>7, <1>8, <1>9, <1>10, <1>11 DEF WireNext

(***************************************************************************)
(* buildTransaction, PackageNewBlock, InsertBlock: the clients' commands,  *)
(* the pool of the packaging node and its blocks keep their types, and     *)
(* every header but the first carries the proof of an election its         *)
(* packager has won, in parameters that their reader finds again.          *)
(***************************************************************************)
THEOREM WireTyped == WireSpec => []WireInv
  <1>1. WireInit => WireInv
    BY WireStarts
  <1>2. WireInv /\ [WireNext]_wireVars => WireInv'
    BY WireSteps
  <1> QED
    BY <1>1, <1>2, PTL DEF WireSpec

LEMMA InvElection ==
  ASSUME WireInv
  PROVE  ElectionAgreed
  <1>1. AllElectionsAgree
    <2>1. ASSUME NEW key \in Scalars, NEW r \in Scalars, NEW local \in Scalars, NEW seed \in Seeds
          PROVE  LET msg == BigBytes(seed)
                     vrf == VRFCalculate(key, msg, r)
                 IN VRFCheckRemoteConsensus(key, msg, vrf.s, vrf.t, vrf.value)
                      <=> VRFCheckLocalConsensus(key, msg, local)
      <3>1. PICK msg \in Seq(Nat) : msg = BigBytes(seed)
        <4>1. seed \in Nat
          BY Given
        <4> QED
          BY <4>1, NumberHas DEF HasAtMost
      <3>2. LET vrf == VRFCalculate(key, msg, r)
            IN VRFCheckRemoteConsensus(key, msg, vrf.s, vrf.t, vrf.value)
                 <=> VRFCheckLocalConsensus(key, msg, local)
        BY ElectionsAgree
      <3> QED
        BY <3>1, <3>2, Zenon
    <2> QED
      BY <2>1, Zenon DEF AllElectionsAgree
  <1>2. ASSUME NEW i \in 2..Len(blocks)
        PROVE  Accepted(Gossiped(i))
    <2>1. i \in 1..Len(blocks)
      OBVIOUS
    <2>2. PICK x \in BlockValues : /\ x = blocks[i] /\ Len(x.Header.Params) <= 6000
                                   /\ Elected(x.Header)
      BY <2>1 DEF WireInv, BlocksInv
    <2>3. PICK h \in Values(BlockHeaderViewer) : h = x.Header
      BY DEF BlockValues
    <2>4. PICK m : m = HeaderWriter(x.Header).len
      OBVIOUS
    <2>5. Small(m)
      BY <2>2, <2>3, <2>4, HeaderLen
    <2>6. Gossiped(i).Header = x.Header
      BY <2>2, <2>4, <2>5, BlockHeadRead DEF Gossiped
    <2>7. Elected(Gossiped(i).Header)
      BY <2>2, <2>6
    <2>8. PICK block : block = Gossiped(i)
      OBVIOUS
    <2>9. Accepted(block)
      BY <2>7, <2>8, Given, ElectedAccepted
    <2> QED
      BY <2>8, <2>9
  <1> QED
    BY <1>1, <1>2, Zenon DEF ElectionAgreed, Accepted

(***************************************************************************)
(* PackageNewBlock, VerifyBlock: for every genesis block, key, set of      *)
(* seeds and random numbers, and whatever clients ask for, a block that    *)
(* was packed and has gone through its bytes passes the check of every     *)
(* node, and local and remote checks agree on every draw.                  *)
(***************************************************************************)
THEOREM ElectedEverywhere == WireSpec => []ElectionAgreed
  <1>1. WireInv => ElectionAgreed
    BY InvElection
  <1> QED
    BY <1>1, WireTyped, PTL

-----------------------------------------------------------------------------
(* Samples of every layout.                                                *)

(* The samples have the sizes their views ask for.                         *)
Roomy(view) == \A name \in DOMAIN view : view[name].slot => 3 <= view[name].n

LEMMA FilledHas ==
  ASSUME NEW n \in Nat, NEW k \in Nat
  PROVE  Has(Filled(n, k), n)
  <1>1. \A i \in 1..n : (7 * i + k) % 256 \in Nat
    OBVIOUS
  <1>2. PICK f : f = Filled(n, k) /\ f = [i \in 1..n |-> (7 * i + k) % 256]
    BY DEF Filled
  <1>3. f \in [1..n -> Nat]
    BY <1>1, <1>2
  <1>4. f \in Seq(Nat) /\ Len(f) = n
    BY <1>3
  <1> QED
    BY <1>2, <1>4 DEF Has

LEMMA SampleType ==
  ASSUME NEW fields, NEW view, NEW size, Agree(fields, view, size), Roomy(view),
         NEW k \in 0..3
  PROVE  /\ Sample(view, k) \in Values(view)
         /\ \A name \in DOMAIN view : view[name].slot => Len(Sample(view, k)[name]) <= 3
  <1> DEFINE g(name) == Filled(IF view[name].slot THEN k ELSE view[name].n, view[name].at + k)
  <1>0. PICK x : x = [name \in DOMAIN view |-> g(name)]
    OBVIOUS
  <1>1. /\ x = Sample(view, k) /\ DOMAIN x = DOMAIN view
        /\ x = [name \in DOMAIN x |-> x[name]]
        /\ \A name \in DOMAIN view : x[name] = g(name)
    <2>1. x = Sample(view, k)
      BY <1>0, Zenon DEF Sample
    <2> HIDE DEF g
    <2>2. DOMAIN x = DOMAIN view /\ \A name \in DOMAIN view : x[name] = g(name)
      BY <1>0
    <2>3. x = [name \in DOMAIN x |-> x[name]]
      BY <1>0
    <2> QED
      BY <2>1, <2>2, <2>3
  <1>2. ASSUME NEW name \in DOMAIN view
        PROVE  /\ Suits(x[name], view[name])
               /\ view[name].slot => Len(x[name]) <= 3
    <2>1. PICK f : f = view[name]
      OBVIOUS
    <2>2. IsField(f) /\ f.n \in Nat
      BY <2>1, Zenon DEF Agree, Shows
    <2>3. PICK n \in Nat, at \in Nat : n = f.n /\ at = f.at + k
      BY <2>2 DEF IsField
    <2>4. CASE f.slot
      <3>1. x[name] = Filled(k, at)
        BY <1>1, <2>1, <2>3, <2>4, Zenon
      <3>2. Has(x[name], k)
        <4>1. k \in Nat
          OBVIOUS
        <4> QED
          BY <2>3, <3>1, <4>1, FilledHas
      <3>3. k <= 3 /\ 3 <= f.n
        BY <2>1, <2>4 DEF Roomy
      <3>4. Len(x[name]) <= f.n /\ Len(x[name]) <= 3
        BY <2>3, <3>2, <3>3 DEF Has
      <3> QED
        BY <2>1, <2>4, <3>2, <3>4 DEF Suits, Has, HasAtMost
    <2>5. CASE ~f.slot
      <3>1. x[name] = Filled(n, at)
        BY <1>1, <2>1, <2>3, <2>5, Zenon
      <3>2. Has(x[name], n)
        BY <2>3, <3>1, FilledHas
      <3> QED
        BY <2>1, <2>3, <2>5, <3>2 DEF Suits
    <2> QED
      BY <2>4, <2>5
  <1>3. x \in Values(view)
    BY <1>1, <1>2, ValueSuits
  <1> QED
    BY <1>1, <1>2, <1>3

(* A sample of a struct is read again.                                     *)
LEMMA SampleReads ==
  ASSUME NEW fields, NEW view, NEW size \in Nat, NEW alloc \in Nat, 8 <= size, size <= alloc,
         alloc <= 255, Agree(fields, view, size), Len(fields) <= 16, Roomy(view),
         NEW k \in 0..3, NEW x, x = Sample(view, k),
         NEW d, d = Bytes(Root(x, NewWriter, alloc, size, fields))
  PROVE  Read(d, 0, view) = x
  <1>1. PICK y \in Values(view) :
          /\ y = x /\ \A name \in DOMAIN view : view[name].slot => Len(y[name]) <= 3
    BY SampleType
  <1>2. PICK most \in Nat : most = 3
    OBVIOUS
  <1>3. d = Bytes(Root(y, NewWriter, alloc, size, fields))
    BY <1>1
  <1>4. d \in Seq(Nat) /\ Len(d) <= alloc + most * Len(fields)
    BY <1>1, <1>2, <1>3, RootSeq
  <1>5. Small(Len(d))
    <2>1. PICK n \in Nat : n = Len(fields) /\ n <= 16
      BY DEF Agree
    <2>2. PICK m \in Nat : m = Len(d)
      BY <1>4
    <2>3. m <= 303
      BY <1>2, <1>4, <2>1, <2>2
    <2> QED
      BY <2>2, <2>3 DEF Small, MaxWord
  <1>6. Read(d, 0, view) = y
    BY <1>3, <1>5, RootReads
  <1> QED
    BY <1>1, <1>6

LEMMA ViewsRoomy ==
  /\ Roomy(GenesisParamsViewer)
  /\ Roomy(GeneralParamsViewer)
  /\ Roomy(DataCommandViewer)
  /\ Roomy(SyncStatusMsgViewer)
  /\ Roomy(TimeSyncMsgViewer)
  /\ Roomy(MessageViewer)
  /\ Roomy(BroadcastMessageViewer)
  /\ Roomy(BlockHeaderViewer)
  /\ Roomy(TransactionBodyViewer)
  <1>1. Roomy(GenesisParamsViewer)
    BY DEF Roomy, GenesisParamsViewer, Int64, Array, Slice, SliceUpTo, MaxWord
  <1>2. Roomy(GeneralParamsViewer)
    BY DEF Roomy, GeneralParamsViewer, Int64, Array, Slice, SliceUpTo, MaxWord
  <1>3. Roomy(DataCommandViewer)
    BY DEF Roomy, DataCommandViewer, Int64, Array, Slice, SliceUpTo, MaxWord
  <1>4. Roomy(SyncStatusMsgViewer)
    BY DEF Roomy, SyncStatusMsgViewer, Int64, Array, Slice, SliceUpTo, MaxWord
  <1>5. Roomy(TimeSyncMsgViewer)
    BY DEF Roomy, TimeSyncMsgViewer, Int64, Array, Slice, SliceUpTo, MaxWord
  <1>6. Roomy(MessageViewer)
    BY DEF Roomy, MessageViewer, Int64, Array, Slice, SliceUpTo, MaxWord
  <1>7. Roomy(BroadcastMessageViewer)
    BY DEF Roomy, BroadcastMessageViewer, Int64, Array, Slice, SliceUpTo, MaxWord
  <1>8. Roomy(BlockHeaderViewer)
    BY DEF Roomy, BlockHeaderViewer, Int64, Array, Slice, SliceUpTo, MaxWord
  <1>9. Roomy(TransactionBodyViewer)
    BY DEF Roomy, TransactionBodyViewer, Int64, Array, Slice, SliceUpTo, MaxWord
  <1> QED
    BY <1>1, <1>2, <1>3, <1>4, <1>5, <1>6, <1>7, <1>8, <1>9

(* Every message is read as it was written.                                *)
LEMMA MessageSamples ==
  ASSUME NEW k \in 0..3
  PROVE  /\ LET x == Sample(GenesisParamsViewer, k)
            IN DeserializeGenesisParams(SerializeGenesisParams(x)) = x
         /\ LET x == Sample(GeneralParamsViewer, k)
            IN DeserializeGeneralParams(SerializeGeneralParams(x)) = x
         /\ LET x == Sample(DataCommandViewer, k)
            IN DeserializeDataCommand(SerializeDataCommand(x)) = x
         /\ LET x == Sample(SyncStatusMsgViewer, k)
            IN DeserializeStatusMsg(SerializeStatusMsg(x)) = x
         /\ LET x == Sample(TimeSyncMsgViewer, k)
            IN DeserializeTimeSyncMsg(SerializeTimeSyncMsg(x)) = x
         /\ LET x == Sample(MessageViewer, k)
            IN DeserializeMessage(SerializeMessage(x)) = x
         /\ LET x == Sample(BroadcastMessageViewer, k)
            IN DeserializeBroadcastMessage(SerializeBroadcastMessage(x)) = x
  <1>1. LET x == Sample(GenesisParamsViewer, k) IN DeserializeGenesisParams(SerializeGenesisParams(x)) = x
    <2>6. PICK F : /\ Agree(F, GenesisParamsViewer, 204) /\ Len(F) = 4
                   /\ \A y, w : GenesisParamsWrite(y, w) = Root(y, w, 208, 204, F)
      BY GenesisParamsAgree
    <2>7. Len(F) <= 16
      BY <2>6
    <2>1. PICK V : V = GenesisParamsViewer /\ Agree(F, V, 204) /\ Roomy(V)
      BY <2>6, ViewsRoomy
    <2>2. PICK size \in Nat, alloc \in Nat :
            size = 204 /\ alloc = 208 /\ 8 <= size /\ size <= alloc /\ alloc <= 255
      OBVIOUS
    <2>3. PICK x, d : x = Sample(V, k) /\ d = SerializeGenesisParams(x)
      OBVIOUS
    <2>4. Agree(F, V, size) /\ d = Bytes(Root(x, NewWriter, alloc, size, F))
      BY <2>1, <2>2, <2>3, <2>6, Zenon DEF SerializeGenesisParams
    <2>5. Read(d, 0, V) = x
      BY <2>1, <2>2, <2>3, <2>4, <2>7, SampleReads
    <2> QED
      BY <2>1, <2>3, <2>5, Zenon DEF DeserializeGenesisParams, GenesisParamsRead
  <1>2. LET x == Sample(GeneralParamsViewer, k) IN DeserializeGeneralParams(SerializeGeneralParams(x)) = x
    <2>6. PICK F : /\ Agree(F, GeneralParamsViewer, 85) /\ Len(F) = 5
                   /\ \A y, w : GeneralParamsWrite(y, w) = Root(y, w, 88, 85, F)
      BY GeneralParamsAgree
    <2>7. Len(F) <= 16
      BY <2>6
    <2>1. PICK V : V = GeneralParamsViewer /\ Agree(F, V, 85) /\ Roomy(V)
      BY <2>6, ViewsRoomy
    <2>2. PICK size \in Nat, alloc \in Nat :
            size = 85 /\ alloc = 88 /\ 8 <= size /\ size <= alloc /\ alloc <= 255
      OBVIOUS
    <2>3. PICK x, d : x = Sample(V, k) /\ d = SerializeGeneralParams(x)
      OBVIOUS
    <2>4. Agree(F, V, size) /\ d = Bytes(Root(x, NewWriter, alloc, size, F))
      BY <2>1, <2>2, <2>3, <2>6, Zenon DEF SerializeGeneralParams
    <2>5. Read(d, 0, V) = x
      BY <2>1, <2>2, <2>3, <2>4, <2>7, SampleReads
    <2> QED
      BY <2>1, <2>3, <2>5, Zenon DEF DeserializeGeneralParams, GeneralParamsRead
  <1>3. LET x == Sample(DataCommandViewer, k) IN DeserializeDataCommand(SerializeDataCommand(x)) = x
    <2>6. PICK F : /\ Agree(F, DataCommandViewer, 40) /\ Len(F) = 3
                   /\ \A y, w : DataCommandWrite(y, w) = Root(y, w, 48, 40, F)
      BY DataCommandAgree
    <2>7. Len(F) <= 16
      BY <2>6
    <2>1. PICK V : V = DataCommandViewer /\ Agree(F, V, 40) /\ Roomy(V)
      BY <2>6, ViewsRoomy
    <2>2. PICK size \in Nat, alloc \in Nat :
            size = 40 /\ alloc = 48 /\ 8 <= size /\ size <= alloc /\ alloc <= 255
      OBVIOUS
    <2>3. PICK x, d : x = Sample(V, k) /\ d = SerializeDataCommand(x)
      OBVIOUS
    <2>4. Agree(F, V, size) /\ d = Bytes(Root(x, NewWriter, alloc, size, F))
      BY <2>1, <2>2, <2>3, <2>6, Zenon DEF SerializeDataCommand
    <2>5. Read(d, 0, V) = x
      BY <2>1, <2>2, <2>3, <2>4, <2>7, SampleReads
    <2> QED
      BY <2>1, <2>3, <2>5, Zenon DEF DeserializeDataCommand, DataCommandRead
  <1>4. LET x == Sample(SyncStatusMsgViewer, k) IN DeserializeStatusMsg(SerializeStatusMsg(x)) = x
    <2>6. PICK F : /\ Agree(F, SyncStatusMsgViewer, 60) /\ Len(F) = 4
                   /\ \A y, w : SyncStatusMsgWrite(y, w) = Root(y, w, 64, 60, F)
      BY SyncStatusMsgAgree
    <2>7. Len(F) <= 16
      BY <2>6
    <2>1. PICK V : V = SyncStatusMsgViewer /\ Agree(F, V, 60) /\ Roomy(V)
      BY <2>6, ViewsRoomy
    <2>2. PICK size \in Nat, alloc \in Nat :
            size = 60 /\ alloc = 64 /\ 8 <= size /\ size <= alloc /\ alloc <= 255
      OBVIOUS
    <2>3. PICK x, d : x = Sample(V, k) /\ d = SerializeStatusMsg(x)
      OBVIOUS
    <2>4. Agree(F, V, size) /\ d = Bytes(Root(x, NewWriter, alloc, size, F))
      BY <2>1, <2>2, <2>3, <2>6, Zenon DEF SerializeStatusMsg
    <2>5. Read(d, 0, V) = x
      BY <2>1, <2>2, <2>3, <2>4, <2>7, SampleReads
    <2> QED
      BY <2>1, <2>3, <2>5, Zenon DEF DeserializeStatusMsg, SyncStatusMsgRead
  <1>5. LET x == Sample(TimeSyncMsgViewer, k) IN DeserializeTimeSyncMsg(SerializeTimeSyncMsg(x)) = x
    <2>6. PICK F : /\ Agree(F, TimeSyncMsgViewer, 37) /\ Len(F) = 5
                   /\ \A y, w : TimeSyncMsgWrite(y, w) = Root(y, w, 40, 37, F)
      BY TimeSyncMsgAgree
    <2>7. Len(F) <= 16
      BY <2>6
    <2>1. PICK V : V = TimeSyncMsgViewer /\ Agree(F, V, 37) /\ Roomy(V)
      BY <2>6, ViewsRoomy
    <2>2. PICK size \in Nat, alloc \in Nat :
            size = 37 /\ alloc = 40 /\ 8 <= size /\ size <= alloc /\ alloc <= 255
      OBVIOUS
    <2>3. PICK x, d : x = Sample(V, k) /\ d = SerializeTimeSyncMsg(x)
      OBVIOUS
    <2>4. Agree(F, V, size) /\ d = Bytes(Root(x, NewWriter, alloc, size, F))
      BY <2>1, <2>2, <2>3, <2>6, Zenon DEF SerializeTimeSyncMsg
    <2>5. Read(d, 0, V) = x
      BY <2>1, <2>2, <2>3, <2>4, <2>7, SampleReads
    <2> QED
      BY <2>1, <2>3, <2>5, Zenon DEF DeserializeTimeSyncMsg, TimeSyncMsgRead
  <1>6. LET x == Sample(MessageViewer, k) IN DeserializeMessage(SerializeMessage(x)) = x
    <2>6. PICK F : /\ Agree(F, MessageViewer, 29) /\ Len(F) = 4
                   /\ \A y, w : MessageWrite(y, w) = Root(y, w, 32, 29, F)
      BY MessageAgree
    <2>7. Len(F) <= 16
      BY <2>6
    <2>1. PICK V : V = MessageViewer /\ Agree(F, V, 29) /\ Roomy(V)
      BY <2>6, ViewsRoomy
    <2>2. PICK size \in Nat, alloc \in Nat :
            size = 29 /\ alloc = 32 /\ 8 <= size /\ size <= alloc /\ alloc <= 255
      OBVIOUS
    <2>3. PICK x, d : x = Sample(V, k) /\ d = SerializeMessage(x)
      OBVIOUS
    <2>4. Agree(F, V, size) /\ d = Bytes(Root(x, NewWriter, alloc, size, F))
      BY <2>1, <2>2, <2>3, <2>6, Zenon DEF SerializeMessage
    <2>5. Read(d, 0, V) = x
      BY <2>1, <2>2, <2>3, <2>4, <2>7, SampleReads
    <2> QED
      BY <2>1, <2>3, <2>5, Zenon DEF DeserializeMessage, MessageRead
  <1>7. LET x == Sample(BroadcastMessageViewer, k) IN DeserializeBroadcastMessage(SerializeBroadcastMessage(x)) = x
    <2>6. PICK F : /\ Agree(F, BroadcastMessageViewer, 28) /\ Len(F) = 2
                   /\ \A y, w : BroadcastMessageWrite(y, w) = Root(y, w, 32, 28, F)
      BY BroadcastMessageAgree
    <2>7. Len(F) <= 16
      BY <2>6
    <2>1. PICK V : V = BroadcastMessageViewer /\ Agree(F, V, 28) /\ Roomy(V)
      BY <2>6, ViewsRoomy
    <2>2. PICK size \in Nat, alloc \in Nat :
            size = 28 /\ alloc = 32 /\ 8 <= size /\ size <= alloc /\ alloc <= 255
      OBVIOUS
    <2>3. PICK x, d : x = Sample(V, k) /\ d = SerializeBroadcastMessage(x)
      OBVIOUS
    <2>4. Agree(F, V, size) /\ d = Bytes(Root(x, NewWriter, alloc, size, F))
      BY <2>1, <2>2, <2>3, <2>6, Zenon DEF SerializeBroadcastMessage
    <2>5. Read(d, 0, V) = x
      BY <2>1, <2>2, <2>3, <2>4, <2>7, SampleReads
    <2> QED
      BY <2>1, <2>3, <2>5, Zenon DEF DeserializeBroadcastMessage, BroadcastMessageRead
  <1> QED
    BY <1>1, <1>2, <1>3, <1>4, <1>5, <1>6, <1>7, Zenon

LEMMA TxSample ==
  ASSUME NEW k \in 0..3, NEW x, x = Sample(TransactionBodyViewer, k)
  PROVE  x \in Values(TransactionBodyViewer) /\ Short(x, 3)
  <1>1. PICK V : /\ V = TransactionBodyViewer /\ Roomy(V)
                 /\ Agree(TransactionBodyFields, V, 249)
    BY TransactionBodyAgree, ViewsRoomy
  <1>2. /\ Sample(V, k) \in Values(V)
        /\ \A name \in DOMAIN V : V[name].slot => Len(Sample(V, k)[name]) <= 3
    BY <1>1, SampleType
  <1> QED
    BY <1>1, <1>2 DEF Short

LEMMA HeaderSample ==
  ASSUME NEW k \in 0..3, NEW h, h = Sample(BlockHeaderViewer, k)
  PROVE  /\ h \in Values(BlockHeaderViewer) /\ Len(h.Params) <= 6000
         /\ BlockHeaderRead(SerializeBlockHeader(h), 0) = h
  <1>6. PICK F : F = BlockHeaderFields
    OBVIOUS
  <1>5. F = BlockHeaderFields /\ Len(F) <= 16
    <2>1. Len(F) = 8
      BY <1>6 DEF BlockHeaderFields
    <2> QED
      BY <1>6, <2>1
  <1>1. PICK V : V = BlockHeaderViewer /\ Agree(F, V, 169) /\ Roomy(V)
    BY <1>5, BlockHeaderAgree, ViewsRoomy
  <1>2. /\ h \in Values(V)
        /\ \A name \in DOMAIN V : V[name].slot => Len(h[name]) <= 3
    BY <1>1, SampleType
  <1>3. Len(h.Params) <= 6000
    <2>1. "Params" \in DOMAIN V /\ V["Params"].slot
      BY <1>1 DEF BlockHeaderViewer, Slice, SliceUpTo
    <2>2. Len(h["Params"]) <= 3
      BY <1>2, <2>1
    <2>3. h["Params"] \in Seq(Nat)
      BY <1>2, <2>1 DEF Values
    <2> QED
      BY <2>2, <2>3
  <1>4. BlockHeaderRead(SerializeBlockHeader(h), 0) = h
    <2>1. PICK size \in Nat, alloc \in Nat :
            size = 169 /\ alloc = 176 /\ 8 <= size /\ size <= alloc /\ alloc <= 255
      OBVIOUS
    <2>2. PICK d : d = SerializeBlockHeader(h)
      OBVIOUS
    <2>3. Area(NewWriter, 0, alloc) = Alloc(NewWriter, alloc) /\ Offset(NewWriter, 0) = NewWriter.len
      BY DEF Area, Offset
    <2>4. Agree(F, V, size) /\ d = Bytes(Root(h, NewWriter, alloc, size, F))
      BY <1>1, <1>5, <2>1, <2>2, <2>3, Zenon DEF SerializeBlockHeader, BlockHeaderWrite, Root
    <2>5. Read(d, 0, V) = h
      BY <1>1, <1>5, <2>1, <2>4, SampleReads
    <2> QED
      BY <1>1, <2>2, <2>5, Zenon DEF BlockHeaderRead
  <1> QED
    BY <1>1, <1>2, <1>3, <1>4

LEMMA BlockSample ==
  ASSUME NEW k \in 0..3, NEW x, x = SampleBlock(k)
  PROVE  DeserializeBlock(SerializeBlock(x)) = x
  <1>1. PICK h \in Values(BlockHeaderViewer) :
          h = Sample(BlockHeaderViewer, k) /\ Len(h.Params) <= 6000
    BY HeaderSample
  <1>2. PICK n \in Nat : n = k /\ n <= 3
    OBVIOUS
  <1>3. \A i \in 1..n : /\ Sample(TransactionBodyViewer, n - i) \in Values(TransactionBodyViewer)
                       /\ Short(Sample(TransactionBodyViewer, n - i), 3)
    <2> TAKE i \in 1..n
    <2>1. n - i \in 0..3
      BY <1>2
    <2> QED
      BY <2>1, TxSample
  <1>4. PICK txs : txs = [i \in 1..n |-> Sample(TransactionBodyViewer, n - i)]
    OBVIOUS
  <1>5. txs \in Seq(Values(TransactionBodyViewer)) /\ Len(txs) = n
    BY <1>3, <1>4
  <1>6. \A i \in DOMAIN txs : Short(txs[i], 3)
    BY <1>3, <1>4
  <1>7. x = [Header |-> h, Transactions |-> txs]
    <2>1. SampleBlock(k) =
            [Header |-> Sample(BlockHeaderViewer, k),
             Transactions |-> [i \in 1..k |-> Sample(TransactionBodyViewer, k - i)]]
      BY Zenon DEF SampleBlock
    <2> QED
      BY <1>1, <1>2, <1>4, <2>1
  <1>8. x \in BlockValues /\ x.Header = h /\ x.Transactions = txs
    BY <1>5, <1>7 DEF BlockValues
  <1>9. PICK m \in Nat : m = HeaderWriter(x.Header).len /\ m <= 48200
    BY <1>1, <1>8, HeaderLen
  <1>10. PICK d \in Seq(Nat) :
           /\ d = SerializeBlock(x)
           /\ \A most \in Nat :
                (\A i \in DOMAIN x.Transactions : Short(x.Transactions[i], most)) =>
                   Len(d) <= m + (264 + most * 16) * Len(x.Transactions)
    <2>3. PICK y \in BlockValues : y = x
      BY <1>8
    <2>1. PICK d \in Seq(Nat), p \in Nat :
            /\ d = SerializeBlock(y) /\ p = HeaderWriter(y.Header).len
            /\ 193 <= p /\ BlockHeld(d, y, p)
            /\ \A most \in Nat :
                 (\A i \in DOMAIN y.Transactions : Short(y.Transactions[i], most)) =>
                    Len(d) <= p + (264 + most * 16) * Len(y.Transactions)
      BY BlockWritten
    <2>2. p = m
      BY <1>9, <2>1, <2>3
    <2> QED
      BY <2>1, <2>2, <2>3
  <1>11. Len(d) <= m + (264 + 3 * 16) * n
    <2>1. 3 \in Nat
      OBVIOUS
    <2> QED
      BY <1>5, <1>6, <1>8, <1>10, <2>1
  <1>12. Small(Len(d))
    <2>1. PICK top \in Nat : top = Len(d)
      OBVIOUS
    <2>2. top <= 50000
      BY <1>2, <1>9, <1>11, <2>1
    <2> QED
      BY <2>1, <2>2 DEF Small, MaxWord
  <1> QED
    BY <1>8, <1>10, <1>12, BlocksReadAsWritten

(***************************************************************************)
(* The writers and viewers of common_km.go and p2p/message_km.go: for      *)
(* every kind of message, transaction, header and block, with empty slices *)
(* and with full ones, the reader finds the sample that was written.       *)
(***************************************************************************)
THEOREM LayoutsReadAsWritten == AllLayoutsAgree
  <1>1. ASSUME NEW k \in 0..3
        PROVE  LayoutsAgree(k)
    <2>1. LET x == Sample(TransactionBodyViewer, k)
          IN DeserializeTransaction(SerializeTransaction(x)) = x
      <3>1. PICK x \in Values(TransactionBodyViewer) :
              x = Sample(TransactionBodyViewer, k) /\ Short(x, 3)
        BY TxSample
      <3>2. Len(SerializeTransaction(x)) <= 264 + 3 * 16
        <4>1. 3 \in Nat
          OBVIOUS
        <4> QED
          BY <3>1, <4>1, TransactionLen
      <3>3. Small(Len(SerializeTransaction(x)))
        BY <3>2 DEF Small, MaxWord
      <3>4. DeserializeTransaction(SerializeTransaction(x)) = x
        BY <3>3, BlocksReadAsWritten
      <3> QED
        BY <3>1, <3>4, Zenon
    <2>2. LET x == SampleBlock(k) IN DeserializeBlock(SerializeBlock(x)) = x
      BY BlockSample, Zenon
    <2>3. LET x == Sample(BlockHeaderViewer, k)
          IN BlockHeaderRead(SerializeBlockHeader(x), 0) = x
      BY HeaderSample
    <2> QED
      BY <2>1, <2>2, <2>3, MessageSamples, Zenon DEF LayoutsAgree
  <1> QED
    BY <1>1, Zenon DEF AllLayoutsAgree

-----------------------------------------------------------------------------
(* The database and the blocks.                                            *)

LEMMA LittleEndianInjective ==
  ASSUME NEW m \in Nat, NEW n \in Nat, Small(m), Small(n), LittleEndian(m) = LittleEndian(n)
  PROVE  m = n
  <1>1. PICK u \in Seq(Nat), v \in Seq(Nat), z \in Seq(Nat) :
          /\ u = Word(m) /\ v = Word(n) /\ z = Zeros(4) /\ Len(u) = 4 /\ Len(v) = 4
    <2>1. Zeros(4) \in Seq(Nat)
      BY BytesHave DEF Has
    <2> QED
      BY <2>1, WordFacts
  <1>2. u \o z = v \o z
    BY <1>1, Zenon DEF LittleEndian
  <1>3. ASSUME NEW i \in 1..4
        PROVE  u[i] = v[i]
    <2>1. i \in 1..Len(u) /\ i \in 1..Len(v)
      BY <1>1
    <2>2. (u \o z)[i] = u[i] /\ (v \o z)[i] = v[i]
      BY <2>1
    <2> QED
      BY <1>2, <2>2
  <1>4. /\ u[1] + 256 * u[2] + 65536 * u[3] = m
        /\ v[1] + 256 * v[2] + 65536 * v[3] = n
    BY <1>1, WordFacts
  <1>5. u[1] = v[1] /\ u[2] = v[2] /\ u[3] = v[3]
    BY <1>3
  <1> QED
    BY <1>4, <1>5

(* r is f with what g has put over it.                                     *)
IsOverlay(r, f, g) ==
  /\ DOMAIN r = DOMAIN f \cup DOMAIN g
  /\ \A k \in DOMAIN g : r[k] = g[k]
  /\ \A k \in DOMAIN f : k \notin DOMAIN g => r[k] = f[k]

LEMMA OverlaidFacts ==
  ASSUME NEW f, NEW g
  PROVE  IsOverlay(Overlay(f, g), f, g)
  <1>1. PICK r : r = Overlay(f, g)
    OBVIOUS
  <1>2. DOMAIN r = DOMAIN f \cup DOMAIN g
    BY <1>1 DEF Overlay
  <1>3. \A k \in DOMAIN g : r[k] = g[k]
    BY <1>1 DEF Overlay
  <1>4. \A k \in DOMAIN f : k \notin DOMAIN g => r[k] = f[k]
    BY <1>1 DEF Overlay
  <1>5. IsOverlay(r, f, g)
    BY <1>2, <1>3, <1>4, Zenon DEF IsOverlay
  <1> QED
    BY <1>1, <1>5, Zenon

(* What a batch writes beside the transactions.                            *)
Writes(b, block) ==
  LET hash == block.Header.BlockHash
      height == block.Header.Height
  IN /\ <<"block", hash>> \in DOMAIN b /\ b[<<"block", hash>>] = SerializeBlock(block)
     /\ <<"height", height>> \in DOMAIN b /\ b[<<"height", height>>] = hash
     /\ \A h : <<"block", h>> \in DOMAIN b => h = hash
     /\ \A h : <<"height", h>> \in DOMAIN b => h = height

LEMMA BatchFacts ==
  ASSUME NEW block
  PROVE  Writes(Batch(block), block)
  <1>8. PICK b, hash, height :
          b = Batch(block) /\ hash = block.Header.BlockHash /\ height = block.Header.Height
    OBVIOUS
  <1> DEFINE txs == block.Transactions
             Key(i) == <<"tx", txs[i].Hash>>
             keys == {<<"block", block.Header.BlockHash>>, <<"latest">>,
                      <<"height", block.Header.Height>>}
             all == keys \cup {Key(i) : i \in DOMAIN txs}
             Val(k) == CASE k[1] = "block" -> SerializeBlock(block)
                         [] k[1] = "tx" ->
                              LET i == CHOOSE n \in DOMAIN txs : Key(n) = k
                              IN SerializeTransaction(Stamped(txs[i], block.Header, i))
                         [] OTHER -> block.Header.BlockHash
  <1>1. b = [k \in all |-> Val(k)]
    BY <1>8 DEF Batch
  <1>2. \A k : k[1] = "block" => Val(k) = SerializeBlock(block)
    BY Zenon
  <1>3. \A k : k[1] = "height" => Val(k) = hash
    BY <1>8
  <1>4. <<"block", hash>> \in all /\ <<"height", height>> \in all
    BY <1>8
  <1>5. \A h : /\ <<"block", h>> \in all => h = hash
               /\ <<"height", h>> \in all => h = height
    BY <1>8
  <1> HIDE DEF Val, all
  <1>6. DOMAIN b = all /\ \A k \in all : b[k] = Val(k)
    BY <1>1
  <1>7. <<"block", hash>>[1] = "block" /\ <<"height", height>>[1] = "height"
    OBVIOUS
  <1>9. /\ <<"block", hash>> \in DOMAIN b /\ b[<<"block", hash>>] = SerializeBlock(block)
        /\ <<"height", height>> \in DOMAIN b /\ b[<<"height", height>>] = hash
        /\ \A h : <<"block", h>> \in DOMAIN b => h = hash
        /\ \A h : <<"height", h>> \in DOMAIN b => h = height
    BY <1>2, <1>3, <1>4, <1>5, <1>6, <1>7
  <1>10. Writes(b, block)
    BY <1>8, <1>9, Zenon DEF Writes
  <1> QED
    BY <1>8, <1>10, Zenon

(* The bytes of a block fit into the words of the model.                   *)
BlocksFit == \A i \in DOMAIN blocks : Small(Len(SerializeBlock(blocks[i])))

(* No two blocks that were packaged have the same digest.                  *)
HashOf(i) == blocks[i].Header.BlockHash
HashesDiffer == \A i, j \in DOMAIN blocks : HashOf(i) = HashOf(j) => i = j

(* Once the database knows a hash, it has the block under it and the hash  *)
(* under the block's height, and it knows no hash of another block.        *)
BlockKey(i) == <<"block", HashOf(i)>>
HeightKey(i) == <<"height", LittleEndian(i - 1)>>

KeptUnder(i) ==
  BlockKey(i) \in DOMAIN db =>
    /\ db[BlockKey(i)] = SerializeBlock(blocks[i])
    /\ HeightKey(i) \in DOMAIN db /\ db[HeightKey(i)] = HashOf(i)

StoreInv ==
  /\ Len(blocks) <= MaxBlocks + 1
  /\ blocks[1] = NewGenesisBlock /\ BlockKey(1) \in DOMAIN db
  /\ \A i \in 1..Len(blocks) : blocks[i].Header.Height = LittleEndian(i - 1) /\ KeptUnder(i)
  /\ \A h : <<"block", h>> \in DOMAIN db => \E i \in 1..Len(blocks) : h = HashOf(i)

LEMMA StoreStarts ==
  ASSUME WireInit
  PROVE  StoreInv
  <1>1. PICK g : g = NewGenesisBlock
    OBVIOUS
  <1>2. blocks = <<g>> /\ db = Batch(g)
    BY <1>1, Zenon DEF WireInit
  <1>3. Len(blocks) = 1 /\ blocks[1] = g
    BY <1>2
  <1>4. PICK hash, height : hash = g.Header.BlockHash /\ height = g.Header.Height
    OBVIOUS
  <1>5. height = LittleEndian(0)
    <2>1. PICK h : h = Header(NoHash, 0, NoHash, SerializeGenesisParams(Genesis), 1)
      OBVIOUS
    <2>2. g.Header = Hashed(h)
      BY <1>1, <2>1 DEF NewGenesisBlock
    <2>3. h.Height = LittleEndian(0)
      BY <2>1 DEF Header
    <2>4. DOMAIN h = {"Timestamp", "PrevBlockHash", "BlockHash", "MerkleRoot", "Height",
                      "PublicKey", "Params", "GasLimit"}
      BY <2>1 DEF Header
    <2>5. Hashed(h).Height = h.Height
      BY <2>4 DEF Hashed
    <2> QED
      BY <1>4, <2>2, <2>3, <2>5
  <1>6. /\ <<"block", hash>> \in DOMAIN db /\ db[<<"block", hash>>] = SerializeBlock(g)
        /\ <<"height", height>> \in DOMAIN db /\ db[<<"height", height>>] = hash
        /\ \A h : <<"block", h>> \in DOMAIN db => h = hash
    <2>1. Writes(db, g)
      BY <1>2, BatchFacts, Zenon
    <2> QED
      BY <1>4, <2>1, Zenon DEF Writes
  <1>7. HashOf(1) = hash /\ BlockKey(1) = <<"block", hash>>
    BY <1>3, <1>4 DEF HashOf, BlockKey
  <1>8. HeightKey(1) = <<"height", height>>
    <2>1. 1 - 1 = 0
      OBVIOUS
    <2> QED
      BY <1>5, <2>1 DEF HeightKey
  <1>9. KeptUnder(1)
    BY <1>3, <1>6, <1>7, <1>8 DEF KeptUnder
  <1>10. blocks[1].Header.Height = LittleEndian(1 - 1)
    <2>1. 1 - 1 = 0
      OBVIOUS
    <2> QED
      BY <1>3, <1>4, <1>5, <2>1
  <1>11. \A i \in 1..Len(blocks) : i = 1
    BY <1>3
  <1>12. Len(blocks) <= MaxBlocks + 1 /\ 1 \in 1..Len(blocks)
    <2>1. MaxBlocks \in Nat /\ 1 <= MaxBlocks + 1 /\ 1 \in 1..1
      BY BoundAssumption
    <2> QED
      BY <1>3, <2>1
  <1> QED
    BY <1>1, <1>3, <1>6, <1>7, <1>9, <1>10, <1>11, <1>12, Zenon DEF StoreInv

LEMMA StorePackages ==
  ASSUME WireInv, StoreInv, HashesDiffer', NEW seed \in Seeds, NEW local \in Randoms,
         NEW r \in Randoms, Package(seed, local, r), WireInv'
  PROVE  StoreInv'
  <1>1. PICK hashes \in Packaged :
          LET txs == [i \in DOMAIN hashes |-> txPool[hashes[i]]]
          IN blocks' = Append(blocks, PackageNewBlock(txs, Clock, Params(seed, r)))
    BY Zenon DEF Package
  <1>2. PICK block : /\ block = PackageNewBlock([i \in DOMAIN hashes |-> txPool[hashes[i]]],
                                               Clock, Params(seed, r))
                     /\ blocks' = Append(blocks, block)
    BY <1>1
  <1>3. PICK n \in Nat : n = Len(blocks) /\ n >= 1 /\ n <= MaxBlocks
    <2>1. PICK n \in Nat : n = Len(blocks) /\ n >= 1
      BY DEF WireInv, BlocksInv
    <2> QED
      BY <2>1 DEF Package
  <1>4. /\ Len(blocks') = n + 1 /\ blocks'[n + 1] = block
        /\ \A i \in 1..n : blocks'[i] = blocks[i]
    BY <1>2, <1>3 DEF WireInv, BlocksInv
  <1>5. db' = db
    BY DEF Package
  <1>6. \A i \in 1..n : HashOf(i)' = HashOf(i) /\ BlockKey(i)' = BlockKey(i)
    BY <1>4 DEF HashOf, BlockKey
  <1>7. \A i \in 1..n : KeptUnder(i)'
    <2> TAKE i \in 1..n
    <2>1. KeptUnder(i)
      BY <1>3 DEF StoreInv
    <2>2. blocks'[i] = blocks[i] /\ HashOf(i)' = HashOf(i) /\ BlockKey(i)' = BlockKey(i)
      BY <1>4, <1>6
    <2> QED
      BY <1>5, <2>1, <2>2 DEF KeptUnder, HeightKey
  <1>8. BlockKey(n + 1)' \notin DOMAIN db
    <2>1. SUFFICES ASSUME BlockKey(n + 1)' \in DOMAIN db
                   PROVE  FALSE
      OBVIOUS
    <2>2. PICK h : h = HashOf(n + 1)' /\ <<"block", h>> \in DOMAIN db
      BY <2>1 DEF BlockKey
    <2>3. PICK i \in 1..n : h = HashOf(i)
      BY <1>3, <2>2 DEF StoreInv
    <2>4. HashOf(i)' = HashOf(n + 1)'
      BY <1>6, <2>2, <2>3
    <2>5. DOMAIN blocks' = 1..(n + 1)
      BY <1>4 DEF WireInv, BlocksInv
    <2>6. i \in DOMAIN blocks' /\ n + 1 \in DOMAIN blocks' /\ i # n + 1
      BY <2>5
    <2> QED
      BY <2>4, <2>6, Zenon DEF HashesDiffer
  <1>9. KeptUnder(n + 1)'
    BY <1>5, <1>8 DEF KeptUnder
  <1>10. block.Header.Height = LittleEndian(n)
    <2>1. PICK h : /\ block.Header = Hashed(h) /\ h.Height = LittleEndian(n)
                   /\ DOMAIN h = {"Timestamp", "PrevBlockHash", "BlockHash", "MerkleRoot",
                                  "Height", "PublicKey", "Params", "GasLimit"}
      <3>1. PICK prev, root, params, clock :
              block.Header = Hashed(Header(prev, n, root, params, clock))
        BY <1>2, <1>3 DEF PackageNewBlock
      <3>2. PICK h : h = Header(prev, n, root, params, clock)
        OBVIOUS
      <3> QED
        BY <3>1, <3>2 DEF Header
    <2>2. Hashed(h).Height = h.Height
      BY <2>1 DEF Hashed
    <2> QED
      BY <2>1, <2>2
  <1>11. \A i \in 1..n : blocks'[i].Header.Height = LittleEndian(i - 1)
    <2>1. \A i \in 1..n : blocks[i].Header.Height = LittleEndian(i - 1)
      BY <1>3 DEF StoreInv
    <2> QED
      BY <1>4, <2>1
  <1>12. blocks'[n + 1].Header.Height = LittleEndian((n + 1) - 1)
    <2>1. (n + 1) - 1 = n
      OBVIOUS
    <2> QED
      BY <1>4, <1>10, <2>1
  <1>13. \A i \in 1..(n + 1) : blocks'[i].Header.Height = LittleEndian(i - 1) /\ KeptUnder(i)'
    <2> TAKE i \in 1..(n + 1)
    <2>1. CASE i = n + 1
      BY <1>9, <1>12, <2>1
    <2>2. CASE i \in 1..n
      BY <1>7, <1>11, <2>2
    <2> QED
      BY <2>1, <2>2
  <1>14. \A h : <<"block", h>> \in DOMAIN db' => \E i \in 1..(n + 1) : h = HashOf(i)'
    <2> TAKE h
    <2> HAVE <<"block", h>> \in DOMAIN db'
    <2>1. PICK i \in 1..n : h = HashOf(i)
      BY <1>3, <1>5 DEF StoreInv
    <2>2. i \in 1..(n + 1) /\ h = HashOf(i)'
      BY <1>6, <2>1
    <2> QED
      BY <2>2
  <1>15. blocks'[1] = NewGenesisBlock /\ BlockKey(1)' \in DOMAIN db'
    <2>1. 1 \in 1..n
      BY <1>3
    <2> QED
      BY <1>4, <1>5, <1>6, <2>1 DEF StoreInv
  <1>16. n + 1 <= MaxBlocks + 1
    BY <1>3, BoundAssumption
  <1> QED
    BY <1>4, <1>13, <1>14, <1>15, <1>16 DEF StoreInv

(* A block that is inserted is written under its hash and its height only. *)
LEMMA StoreInserts ==
  ASSUME WireInv, StoreInv, BlocksFit, HashesDiffer, NEW i \in DOMAIN blocks, InsertBlock(i)
  PROVE  StoreInv'
  <1>1. PICK n \in Nat : n = Len(blocks) /\ n >= 1 /\ n <= 65536
    <2>1. PICK n \in Nat : n = Len(blocks) /\ n >= 1
      BY DEF WireInv, BlocksInv
    <2>2. PICK mx \in Nat : mx = MaxBlocks /\ mx <= 65535
      BY BoundAssumption
    <2>3. n <= mx + 1
      BY <2>1, <2>2 DEF StoreInv
    <2> QED
      BY <2>1, <2>2, <2>3
  <1>2. i \in 1..n /\ DOMAIN blocks = 1..n
    BY <1>1 DEF WireInv, BlocksInv
  <1>3. PICK x \in BlockValues : x = blocks[i]
    BY <1>1, <1>2 DEF WireInv, BlocksInv
  <1>4. Gossiped(i) = x
    <2>1. Small(Len(SerializeBlock(x)))
      BY <1>2, <1>3 DEF BlocksFit
    <2> QED
      BY <1>3, <2>1, BlocksReadAsWritten DEF Gossiped
  <1>17. PICK b : b = Batch(x)
    OBVIOUS
  <1>5. db' = Overlay(db, b)
    BY <1>4, <1>17, Zenon DEF InsertBlock
  <1>6. blocks' = blocks
    BY DEF InsertBlock
  <1>7. PICK hash, height : /\ hash = x.Header.BlockHash /\ height = x.Header.Height
                            /\ hash = HashOf(i) /\ height = LittleEndian(i - 1)
    <2>1. x.Header.BlockHash = HashOf(i)
      BY <1>3 DEF HashOf
    <2>2. x.Header.Height = LittleEndian(i - 1)
      BY <1>1, <1>2, <1>3 DEF StoreInv
    <2> QED
      BY <2>1, <2>2
  <1>8. /\ <<"block", hash>> \in DOMAIN b /\ b[<<"block", hash>>] = SerializeBlock(x)
        /\ <<"height", height>> \in DOMAIN b /\ b[<<"height", height>>] = hash
        /\ \A h : <<"block", h>> \in DOMAIN b => h = hash
        /\ \A h : <<"height", h>> \in DOMAIN b => h = height
    <2>1. Writes(b, x)
      BY <1>17, BatchFacts, Zenon
    <2> QED
      BY <1>7, <2>1, Zenon DEF Writes
  <1>9. /\ DOMAIN db' = DOMAIN db \cup DOMAIN b
        /\ \A k \in DOMAIN b : db'[k] = b[k]
        /\ \A k \in DOMAIN db : k \notin DOMAIN b => db'[k] = db[k]
    <2>1. IsOverlay(db', db, b)
      BY <1>5, OverlaidFacts, Zenon
    <2> QED
      BY <2>1, Zenon DEF IsOverlay
  <1>10. \A j \in 1..n : HashOf(j)' = HashOf(j) /\ BlockKey(j)' = BlockKey(j)
    BY <1>6 DEF HashOf, BlockKey
  <1>11. KeptUnder(i)'
    <2>1. BlockKey(i)' = <<"block", hash>> /\ HeightKey(i) = <<"height", height>>
      BY <1>2, <1>7, <1>10 DEF BlockKey, HeightKey
    <2>2. db'[<<"block", hash>>] = SerializeBlock(x) /\ db'[<<"height", height>>] = hash
      BY <1>8, <1>9
    <2>3. <<"height", height>> \in DOMAIN db'
      BY <1>8, <1>9
    <2>4. HashOf(i)' = hash /\ blocks'[i] = x
      BY <1>2, <1>3, <1>6, <1>7, <1>10
    <2> QED
      BY <2>1, <2>2, <2>3, <2>4 DEF KeptUnder, HeightKey
  <1>12. ASSUME NEW j \in 1..n, j # i
         PROVE  KeptUnder(j)'
    <2>1. <<"block", HashOf(j)>> \notin DOMAIN b
      <3>1. HashOf(j) # HashOf(i)
        BY <1>2, <1>12 DEF HashesDiffer
      <3> QED
        BY <1>7, <1>8, <3>1
    <2>2. <<"height", LittleEndian(j - 1)>> \notin DOMAIN b
      <3>1. PICK p \in Nat, q \in Nat : p = i - 1 /\ q = j - 1 /\ p # q /\ Small(p) /\ Small(q)
        BY <1>1, <1>2, <1>12 DEF Small, MaxWord
      <3>2. LittleEndian(p) # LittleEndian(q)
        BY <3>1, LittleEndianInjective
      <3> QED
        BY <1>7, <1>8, <3>1, <3>2
    <2>3. KeptUnder(j) /\ BlockKey(j)' = BlockKey(j) /\ HashOf(j)' = HashOf(j)
      BY <1>1, <1>10 DEF StoreInv
    <2>4. SUFFICES ASSUME BlockKey(j) \in DOMAIN db'
                   PROVE  /\ db'[BlockKey(j)] = SerializeBlock(blocks[j])
                          /\ HeightKey(j) \in DOMAIN db' /\ db'[HeightKey(j)] = HashOf(j)
      BY <1>6, <2>3 DEF KeptUnder, HeightKey
    <2>5. BlockKey(j) \in DOMAIN db /\ BlockKey(j) \notin DOMAIN b
      BY <1>9, <2>1, <2>4 DEF BlockKey
    <2>6. /\ db[BlockKey(j)] = SerializeBlock(blocks[j])
          /\ HeightKey(j) \in DOMAIN db /\ db[HeightKey(j)] = HashOf(j)
      BY <2>3, <2>5 DEF KeptUnder
    <2>7. HeightKey(j) \notin DOMAIN b
      BY <2>2 DEF HeightKey
    <2> QED
      BY <1>9, <2>5, <2>6, <2>7
  <1>13. \A j \in 1..n : blocks'[j].Header.Height = LittleEndian(j - 1) /\ KeptUnder(j)'
    <2> TAKE j \in 1..n
    <2>1. blocks'[j].Header.Height = LittleEndian(j - 1)
      BY <1>1, <1>6 DEF StoreInv
    <2> QED
      BY <1>11, <1>12, <2>1
  <1>14. \A h : <<"block", h>> \in DOMAIN db' => \E j \in 1..n : h = HashOf(j)'
    <2> TAKE h
    <2> HAVE <<"block", h>> \in DOMAIN db'
    <2>1. CASE <<"block", h>> \in DOMAIN b
      BY <1>2, <1>7, <1>8, <1>10, <2>1
    <2>2. CASE <<"block", h>> \in DOMAIN db
      <3>1. PICK j \in 1..n : h = HashOf(j)
        BY <1>1, <2>2 DEF StoreInv
      <3> QED
        BY <1>10, <3>1
    <2> QED
      BY <1>9, <2>1, <2>2
  <1>15. BlockKey(1)' \in DOMAIN db' /\ blocks'[1] = NewGenesisBlock
    <2>1. 1 \in 1..n
      BY <1>1
    <2> QED
      BY <1>6, <1>9, <1>10, <2>1 DEF StoreInv
  <1>16. Len(blocks') <= MaxBlocks + 1 /\ Len(blocks') = n
    BY <1>1, <1>6 DEF StoreInv
  <1> QED
    BY <1>13, <1>14, <1>15, <1>16 DEF StoreInv

LEMMA StoreSteps ==
  ASSUME WireInv, WireInv', StoreInv, BlocksFit, HashesDiffer, HashesDiffer',
         [WireNext]_wireVars
  PROVE  StoreInv'
  <1>1. ASSUME UNCHANGED <<blocks, db>>
        PROVE  StoreInv'
    BY <1>1 DEF StoreInv, KeptUnder, BlockKey, HeightKey, HashOf
  <1>2. ASSUME NEW r \in Requests, NEW here \in BOOLEAN, SendTransactionWithData(r, here)
        PROVE  UNCHANGED <<blocks, db>>
    <2>1. PICK tx : Make(r, tx)
      BY <1>2, Zenon DEF SendTransactionWithData
    <2> QED
      BY <2>1 DEF Make
  <1>3. ASSUME NEW r \in Requests, SenderBuilds(r)
        PROVE  UNCHANGED <<blocks, db>>
    <2>1. PICK tx : Make(r, tx)
      BY <1>3, Zenon DEF SenderBuilds
    <2> QED
      BY <2>1 DEF Make
  <1>4. ASSUME NEW i \in DOMAIN made, TransactionUDP(made[i]) \/ SubmitTransaction(made[i])
        PROVE  UNCHANGED <<blocks, db>>
    BY <1>4 DEF TransactionUDP, SubmitTransaction
  <1>5. ASSUME NEW seed \in Seeds, NEW local \in Randoms, NEW r \in Randoms,
               Package(seed, local, r)
        PROVE  StoreInv'
    BY <1>5, StorePackages
  <1>6. ASSUME NEW i \in DOMAIN blocks, InsertBlock(i)
        PROVE  StoreInv'
    BY <1>6, StoreInserts
  <1>7. CASE UNCHANGED wireVars
    BY <1>1, <1>7 DEF wireVars
  <1> QED
    BY <1>1, <1>2, <1>3, <1>4, <1>5, <1>6, <1>7 DEF WireNext

LEMMA GenesisParamsKept ==
  /\ NewGenesisBlock.Header.Params = SerializeGenesisParams(Genesis)
  /\ Small(Len(SerializeGenesisParams(Genesis)))
  <1>1. PICK d, h : d = SerializeGenesisParams(Genesis) /\ h = Header(NoHash, 0, NoHash, d, 1)
    OBVIOUS
  <1>2. NewGenesisBlock.Header = Hashed(h)
    BY <1>1 DEF NewGenesisBlock
  <1>3. h.Params = d /\ DOMAIN h = {"Timestamp", "PrevBlockHash", "BlockHash", "MerkleRoot",
                                   "Height", "PublicKey", "Params", "GasLimit"}
    BY <1>1 DEF Header
  <1>4. Hashed(h).Params = d
    BY <1>3 DEF Hashed
  <1>5. Len(NewGenesisBlock.Header.Params) <= 6000
    BY Given, GenesisType
  <1>6. Small(Len(d))
    <2>1. Len(d) <= 6000
      BY <1>2, <1>4, <1>5
    <2> QED
      BY <2>1 DEF Small, MaxWord
  <1> QED
    BY <1>1, <1>2, <1>4, <1>6

LEMMA InvRoundTrip ==
  ASSUME WireInv, StoreInv, BlocksFit
  PROVE  RoundTrip
  <1>1. PICK n \in Nat : n = Len(blocks) /\ n >= 1 /\ DOMAIN blocks = 1..n
    BY DEF WireInv, BlocksInv
  <1>2. ASSUME NEW i \in 1..n, <<"block", HashOf(i)>> \in DOMAIN db
        PROVE  GetBlockByHeight(LittleEndian(i - 1)) = blocks[i]
    <2>1. PICK x \in BlockValues : x = blocks[i]
      BY <1>1 DEF WireInv, BlocksInv
    <2>2. /\ db[<<"block", HashOf(i)>>] = SerializeBlock(x)
          /\ db[<<"height", LittleEndian(i - 1)>>] = HashOf(i)
      BY <1>1, <1>2, <2>1 DEF StoreInv, KeptUnder, BlockKey, HeightKey
    <2>3. GetBlockByHeight(LittleEndian(i - 1)) = DeserializeBlock(SerializeBlock(x))
      BY <2>2, Zenon DEF GetBlockByHeight, GetBlockByHash
    <2>4. Small(Len(SerializeBlock(x)))
      BY <1>1, <2>1 DEF BlocksFit
    <2> QED
      BY <2>1, <2>3, <2>4, BlocksReadAsWritten
  <1>3. \A i \in DOMAIN blocks :
          <<"block", blocks[i].Header.BlockHash>> \in DOMAIN db =>
            GetBlockByHeight(LittleEndian(i - 1)) = blocks[i]
    BY <1>1, <1>2 DEF HashOf
  <1>4. genesisInitialization = Genesis
    <2>1. 1 \in 1..n /\ 1 - 1 = 0
      BY <1>1
    <2>2. <<"block", HashOf(1)>> \in DOMAIN db /\ blocks[1] = NewGenesisBlock
      BY DEF StoreInv, BlockKey
    <2>3. GetBlockByHeight(LittleEndian(0)) = NewGenesisBlock
      BY <1>2, <2>1, <2>2
    <2>4. NewGenesisBlock.Header.Params = SerializeGenesisParams(Genesis)
      BY GenesisParamsKept
    <2>5. Small(Len(SerializeGenesisParams(Genesis)))
      BY GenesisParamsKept
    <2>6. DeserializeGenesisParams(SerializeGenesisParams(Genesis)) = Genesis
      BY <2>5, Given, MessagesReadAsWritten
    <2> QED
      BY <2>3, <2>4, <2>6, Zenon DEF genesisInitialization
  <1> QED
    BY <1>3, <1>4, LayoutsReadAsWritten, Zenon DEF RoundTrip

(***************************************************************************)
(* Batch, InsertBlock, GetBlockByHeight, genesisInitialization: as long as *)
(* no two packaged blocks have one digest and the bytes of each fit into   *)
(* the words of the model, every block that was inserted is read under its *)
(* height as it was packaged, in whatever order clients, elections and     *)
(* deliveries interleave, and a start finds the genesis parameters.        *)
(***************************************************************************)
THEOREM ReadAsPackaged ==
  WireSpec /\ []BlocksFit /\ []HashesDiffer => []RoundTrip
  <1>1. WireInit => StoreInv
    BY StoreStarts
  <1>2. /\ WireInv /\ WireInv' /\ StoreInv /\ BlocksFit /\ HashesDiffer /\ HashesDiffer'
        /\ [WireNext]_wireVars
        => StoreInv'
    BY StoreSteps
  <1>3. WireInv /\ StoreInv /\ BlocksFit => RoundTrip
    BY InvRoundTrip
  <1> QED
    BY <1>1, <1>2, <1>3, WireTyped, PTL DEF WireSpec

(* Another hash, as CoversFirstHalf puts it into the first half, is another *)
(* one, and the two trees hash no two nodes to one digest.                 *)
Other == Filled(32, 200)
TreeSafe(hashes) ==
  \A i \in 1..Half(Len(hashes)) :
    /\ Other # hashes[i]
    /\ NoCollision(Merged(hashes) \cup Merged(Replaced(hashes, i, Other)))

SampleHashes(n) == [i \in 1..n |-> Filled(32, i)]
SamplesSafe == \A n \in 1..9 : TreeSafe(SampleHashes(n))

LEMMA FirstHalfCovered ==
  ASSUME NEW hashes, Digests(hashes), TreeSafe(hashes)
  PROVE  CoversFirstHalf(hashes)
  <1>1. PICK n \in Nat : n = Len(hashes) /\ DOMAIN hashes = 1..n
    BY DEF Digests
  <1>2. PICK o \in Seq(Nat) : o = Other /\ Len(o) = 32
    <2>1. Has(Filled(32, 200), 32)
      BY FilledHas
    <2> QED
      BY <2>1 DEF Has, Other
  <1>3. ASSUME NEW i \in 1..n
        PROVE  BuildMerkleTree([hashes EXCEPT ![i] = Filled(32, 200)]) # BuildMerkleTree(hashes)
                 <=> i <= Half(n)
    <2>1. PICK r : /\ r = Replaced(hashes, i, o) /\ r = Replaced(hashes, i, Other)
                   /\ r = [hashes EXCEPT ![i] = Filled(32, 200)]
      BY <1>2, Zenon DEF Replaced, Other
    <2>2. PICK h \in Nat : h = Half(n)
      BY <1>1, HalfFacts
    <2>3. i <= h <=> i \in 1..h
      BY <2>2
    <2>4. CASE i \in 1..h
      <3>1. o # hashes[i] /\ NoCollision(Merged(hashes) \cup Merged(r))
        BY <1>1, <1>2, <2>1, <2>2, <2>4, Zenon DEF TreeSafe
      <3>2. /\ i \in 1..Len(hashes) /\ i \in 1..Half(Len(hashes))
            /\ NoCollision(Merged(hashes) \cup Merged(Replaced(hashes, i, o)))
        BY <1>1, <2>1, <2>2, <2>4, <3>1, Zenon
      <3>3. BuildMerkleTree(Replaced(hashes, i, o)) # BuildMerkleTree(hashes)
        BY <1>2, <3>1, <3>2, RootCoversFirstHalf
      <3> QED
        BY <2>1, <2>2, <2>3, <2>4, <3>3, Zenon
    <2>5. CASE ~(i \in 1..h)
      <3>1. i \in 1..Len(hashes) /\ ~(i \in 1..Half(Len(hashes)))
        BY <1>1, <2>2, <2>5, Zenon
      <3>2. BuildMerkleTree(Replaced(hashes, i, o)) = BuildMerkleTree(hashes)
        BY <1>2, <3>1, RootCoversFirstHalf, Zenon
      <3> QED
        BY <2>1, <2>2, <2>3, <2>5, <3>2, Zenon
    <2> QED
      BY <2>4, <2>5
  <1> QED
    BY <1>1, <1>3, Zenon DEF CoversFirstHalf

LEMMA SamplesCovered ==
  ASSUME SamplesSafe
  PROVE  TreesCoverFirstHalf
  <1>1. ASSUME NEW n \in 1..9
        PROVE  CoversFirstHalf([i \in 1..n |-> Filled(32, i)])
    <2>1. PICK s : s = SampleHashes(n) /\ s = [i \in 1..n |-> Filled(32, i)]
      BY DEF SampleHashes
    <2>2. ASSUME NEW i \in 1..n
          PROVE  Filled(32, i) \in Seq(Nat) /\ Len(Filled(32, i)) = 32
      <3>1. i \in Nat /\ 32 \in Nat
        OBVIOUS
      <3>2. Has(Filled(32, i), 32)
        BY <3>1, FilledHas
      <3> QED
        BY <3>2 DEF Has
    <2>3. s \in Seq(Seq(Nat)) /\ Len(s) = n
      BY <2>1, <2>2
    <2>4. \A i \in 1..n : Len(s[i]) = 32
      BY <2>1, <2>2
    <2>5. Digests(s)
      BY <2>3, <2>4 DEF Digests
    <2>6. TreeSafe(s)
      BY <2>1 DEF SamplesSafe
    <2> QED
      BY <2>1, <2>5, <2>6, FirstHalfCovered
  <1> QED
    BY <1>1, Zenon DEF TreesCoverFirstHalf

(* What the root in the header of a block is made of.                      *)
TxHashes(block) == [n \in DOMAIN block.Transactions |-> block.Transactions[n].Hash]

RootInv ==
  \A i \in 2..Len(blocks) : blocks[i].Header.MerkleRoot = BuildMerkleTree(TxHashes(blocks[i]))

TreesSafe == \A i \in 2..Len(blocks) : TreeSafe(TxHashes(blocks[i]))

LEMMA TxHashesType ==
  ASSUME NEW block \in BlockValues
  PROVE  Digests(TxHashes(block))
  <1>1. PICK txs \in Seq(Values(TransactionBodyViewer)) : txs = block.Transactions
    BY DEF BlockValues
  <1>2. PICK n \in Nat : n = Len(txs) /\ DOMAIN txs = 1..n
    OBVIOUS
  <1>3. ASSUME NEW x \in Values(TransactionBodyViewer)
        PROVE  x.Hash \in Seq(Nat) /\ Len(x.Hash) = 32
    <2>1. PICK V : V = TransactionBodyViewer /\ x \in Values(V)
      OBVIOUS
    <2>2. "Hash" \in DOMAIN V /\ ~V["Hash"].slot /\ V["Hash"].n = 32
      BY <2>1 DEF TransactionBodyViewer, Array
    <2> QED
      BY <2>1, <2>2 DEF Values
  <1>4. PICK hs : hs = TxHashes(block) /\ hs = [i \in 1..n |-> txs[i].Hash]
    BY <1>1, <1>2 DEF TxHashes
  <1>5. \A i \in 1..n : txs[i].Hash \in Seq(Nat) /\ Len(txs[i].Hash) = 32
    BY <1>2, <1>3
  <1>6. hs \in Seq(Seq(Nat)) /\ Len(hs) = n
    BY <1>4, <1>5
  <1>7. \A i \in 1..n : Len(hs[i]) = 32
    BY <1>4, <1>5
  <1> QED
    BY <1>4, <1>6, <1>7 DEF Digests

LEMMA RootPackaged ==
  ASSUME NEW txs, NEW clock, NEW params
  PROVE  PackageNewBlock(txs, clock, params).Header.MerkleRoot =
           BuildMerkleTree(TxHashes(PackageNewBlock(txs, clock, params)))
  <1>1. PICK prev, n, p, root :
          /\ PackageNewBlock(txs, clock, params) =
               [Header |-> Hashed(Header(prev, n, root, p, clock)), Transactions |-> txs]
          /\ root = BuildMerkleTree([i \in DOMAIN txs |-> txs[i].Hash])
    BY Zenon DEF PackageNewBlock
  <1>2. PICK h : h = Header(prev, n, root, p, clock)
    OBVIOUS
  <1>3. h.MerkleRoot = root /\ Hashed(h).MerkleRoot = h.MerkleRoot
    BY <1>2 DEF Header, Hashed
  <1>4. PICK b : b = PackageNewBlock(txs, clock, params)
    OBVIOUS
  <1>5. b.Header = Hashed(h) /\ b.Transactions = txs
    BY <1>1, <1>2, <1>4
  <1>6. TxHashes(b) = [i \in DOMAIN txs |-> txs[i].Hash]
    BY <1>5, Zenon DEF TxHashes
  <1> QED
    BY <1>1, <1>3, <1>4, <1>5, <1>6, Zenon

LEMMA RootStarts ==
  ASSUME WireInit
  PROVE  RootInv
  <1>1. Len(blocks) = 1
    BY DEF WireInit
  <1> QED
    BY <1>1 DEF RootInv

LEMMA RootSteps ==
  ASSUME WireInv, WireInv', RootInv, [WireNext]_wireVars
  PROVE  RootInv'
  <1>1. ASSUME UNCHANGED blocks
        PROVE  RootInv'
    BY <1>1 DEF RootInv
  <1>2. ASSUME NEW r \in Requests, NEW here \in BOOLEAN, SendTransactionWithData(r, here)
        PROVE  UNCHANGED blocks
    <2>1. PICK tx : Make(r, tx)
      BY <1>2, Zenon DEF SendTransactionWithData
    <2> QED
      BY <2>1 DEF Make
  <1>3. ASSUME NEW r \in Requests, SenderBuilds(r)
        PROVE  UNCHANGED blocks
    <2>1. PICK tx : Make(r, tx)
      BY <1>3, Zenon DEF SenderBuilds
    <2> QED
      BY <2>1 DEF Make
  <1>4. ASSUME NEW i \in DOMAIN made, TransactionUDP(made[i]) \/ SubmitTransaction(made[i])
        PROVE  UNCHANGED blocks
    BY <1>4 DEF TransactionUDP, SubmitTransaction
  <1>5. ASSUME NEW seed \in Seeds, NEW local \in Randoms, NEW r \in Randoms,
               Package(seed, local, r)
        PROVE  RootInv'
    <2>1. PICK block :
            /\ block.Header.MerkleRoot = BuildMerkleTree(TxHashes(block))
            /\ blocks' = Append(blocks, block)
      <3>1. PICK hashes \in Packaged :
              LET txs == [i \in DOMAIN hashes |-> txPool[hashes[i]]]
              IN blocks' = Append(blocks, PackageNewBlock(txs, Clock, Params(seed, r)))
        BY <1>5, Zenon DEF Package
      <3> QED
        BY <3>1, RootPackaged
    <2>2. PICK n \in Nat : n = Len(blocks) /\ n >= 1
      BY DEF WireInv, BlocksInv
    <2>3. /\ Len(blocks') = n + 1 /\ blocks'[n + 1] = block
          /\ \A i \in 1..n : blocks'[i] = blocks[i]
      BY <2>1, <2>2 DEF WireInv, BlocksInv
    <2>4. ASSUME NEW i \in 2..(n + 1)
          PROVE  blocks'[i].Header.MerkleRoot = BuildMerkleTree(TxHashes(blocks'[i]))
      <3>1. CASE i = n + 1
        BY <2>1, <2>3, <3>1
      <3>2. CASE i \in 2..n
        <4>1. blocks'[i] = blocks[i]
          BY <2>3, <3>2
        <4> QED
          BY <2>2, <3>2, <4>1 DEF RootInv
      <3> QED
        BY <3>1, <3>2
    <2> QED
      BY <2>3, <2>4 DEF RootInv, TxHashes
  <1>6. ASSUME NEW i \in DOMAIN blocks, InsertBlock(i)
        PROVE  UNCHANGED blocks
    BY <1>6 DEF InsertBlock
  <1>7. CASE UNCHANGED wireVars
    BY <1>1, <1>7 DEF wireVars
  <1> QED
    BY <1>1, <1>2, <1>3, <1>4, <1>5, <1>6, <1>7 DEF WireNext

LEMMA InvFirstHalf ==
  ASSUME WireInv, RootInv, TreesSafe, SamplesSafe
  PROVE  MerkleFirstHalf
  <1>1. PICK n \in Nat : n = Len(blocks) /\ DOMAIN blocks = 1..n
    BY DEF WireInv, BlocksInv
  <1>2. ASSUME NEW i \in DOMAIN blocks
        PROVE  LET txs == blocks[i].Transactions
                   hashes == [k \in DOMAIN txs |-> txs[k].Hash]
               IN i > 1 => /\ blocks[i].Header.MerkleRoot = BuildMerkleTree(hashes)
                           /\ CoversFirstHalf(hashes)
    <2>1. CASE i > 1
      <3>1. i \in 2..Len(blocks) /\ blocks[i] \in BlockValues
        BY <1>1, <2>1 DEF WireInv, BlocksInv
      <3>2. Digests(TxHashes(blocks[i])) /\ TreeSafe(TxHashes(blocks[i]))
        BY <3>1, TxHashesType DEF TreesSafe
      <3>3. CoversFirstHalf(TxHashes(blocks[i]))
        BY <3>2, FirstHalfCovered
      <3>4. blocks[i].Header.MerkleRoot = BuildMerkleTree(TxHashes(blocks[i]))
        BY <3>1 DEF RootInv
      <3> QED
        BY <3>3, <3>4, Zenon DEF TxHashes
    <2>2. CASE ~(i > 1)
      BY <2>2, Zenon
    <2> QED
      BY <2>1, <2>2
  <1> QED
    BY <1>2, SamplesCovered, Zenon DEF MerkleFirstHalf

(***************************************************************************)
(* PackageNewBlock and BuildMerkleTree: whatever is pooled and packaged,   *)
(* the header of a block has the root of its transactions' hashes, and the *)
(* root tells a replaced transaction exactly when it is in the first half, *)
(* rounded up, as long as the nodes of these trees have different digests. *)
(***************************************************************************)
THEOREM RootsCoverFirstHalf ==
  SamplesSafe /\ WireSpec /\ []TreesSafe => []MerkleFirstHalf
  <1>1. WireInit => RootInv
    BY RootStarts
  <1>2. WireInv /\ WireInv' /\ RootInv /\ [WireNext]_wireVars => RootInv'
    BY RootSteps
  <1>3. SamplesSafe => (WireInv /\ RootInv /\ TreesSafe => MerkleFirstHalf)
    BY InvFirstHalf
  <1>4. SUFFICES ASSUME SamplesSafe
                 PROVE  WireSpec /\ []TreesSafe => []MerkleFirstHalf
    OBVIOUS
  <1>5. WireInv /\ RootInv /\ TreesSafe => MerkleFirstHalf
    BY <1>3, <1>4
  <1> QED
    BY <1>1, <1>2, <1>5, WireTyped, PTL DEF WireSpec

-----------------------------------------------------------------------------
(* What Verify accepts, and what a datagram leaves of a transaction.       *)

(* Two writers have written n bytes, the same ones but for the places P.   *)
Alike(v, u, last, n, P) ==
  /\ v \in Writer(last) /\ u \in Writer(last) /\ v.len = n /\ u.len = n
  /\ \A p \in 1..n : p \notin P => Bytes(v)[p] = Bytes(u)[p]

LEMMA AlikeMore ==
  ASSUME NEW v, NEW u, NEW last, NEW n, NEW P, NEW Q, Alike(v, u, last, n, P), P \subseteq Q
  PROVE  Alike(v, u, last, n, Q)
  BY DEF Alike

LEMMA AlikeAt ==
  ASSUME NEW last \in Nat, NEW n \in Nat, NEW v, NEW u, NEW P, Alike(v, u, last, n, P),
         NEW at \in Nat, NEW bs \in Seq(Nat), NEW end \in Nat, end = at + Len(bs), end <= n
  PROVE  Alike(WriteAt(v, at, bs), WriteAt(u, at, bs), last, n, P \ ((at + 1)..end))
  <1>1. PICK k \in Nat : k = Len(bs) /\ at + k <= n /\ v.len = n /\ u.len = n
    BY DEF Alike
  <1>2. at + Len(bs) <= v.len /\ at + Len(bs) <= u.len
    BY <1>1
  <1>3. PICK a \in Writer(last) : a = WriteAt(v, at, bs) /\ a.len = v.len
                                  /\ Overwrites(Bytes(a), Bytes(v), at, bs)
    BY <1>2, WriteAtFacts DEF Alike
  <1>4. PICK b \in Writer(last) : b = WriteAt(u, at, bs) /\ b.len = u.len
                                  /\ Overwrites(Bytes(b), Bytes(u), at, bs)
    BY <1>2, WriteAtFacts DEF Alike
  <1>5. PICK A \in Seq(Nat), B \in Seq(Nat), V \in Seq(Nat), U \in Seq(Nat) :
          /\ A = Bytes(a) /\ B = Bytes(b) /\ V = Bytes(v) /\ U = Bytes(u)
          /\ Len(V) = n /\ Len(U) = n
    BY <1>1, <1>3, <1>4, BytesFacts DEF Alike
  <1>6. ASSUME NEW p \in 1..n, p \notin P \ ((at + 1)..end)
        PROVE  A[p] = B[p]
    <2>1. CASE at < p /\ p <= at + k
      BY <1>1, <1>3, <1>4, <1>5, <2>1 DEF Overwrites
    <2>2. CASE ~(at < p /\ p <= at + k)
      <3>1. p \notin P
        BY <1>1, <1>6, <2>2
      <3>2. V[p] = U[p]
        BY <1>1, <1>5, <3>1 DEF Alike
      <3> QED
        BY <1>1, <1>3, <1>4, <1>5, <2>2, <3>2 DEF Overwrites
    <2> QED
      BY <2>1, <2>2
  <1> QED
    BY <1>1, <1>3, <1>4, <1>5, <1>6 DEF Alike

LEMMA AlikeAlloc ==
  ASSUME NEW last \in Nat, NEW n \in Nat, NEW v, NEW u, NEW P, Alike(v, u, last, n, P),
         NEW k \in Nat, NEW end \in Nat, end = n + k
  PROVE  Alike(Alloc(v, k), Alloc(u, k), last, end, P \cup ((n + 1)..end))
  <1>1. v \in Writer(last) /\ u \in Writer(last) /\ v.len = n /\ u.len = n
    BY DEF Alike
  <1>2. PICK a \in Writer(last) : a = Alloc(v, k) /\ a.len = end /\ Extends(Bytes(a), Bytes(v), k)
    BY <1>1, AllocFacts
  <1>3. PICK b \in Writer(last) : b = Alloc(u, k) /\ b.len = end /\ Extends(Bytes(b), Bytes(u), k)
    BY <1>1, AllocFacts
  <1>4. PICK A \in Seq(Nat), B \in Seq(Nat), V \in Seq(Nat), U \in Seq(Nat) :
          /\ A = Bytes(a) /\ B = Bytes(b) /\ V = Bytes(v) /\ U = Bytes(u)
          /\ Len(V) = n /\ Len(U) = n
    BY <1>1, <1>2, <1>3, BytesFacts
  <1>5. ASSUME NEW p \in 1..end, p \notin P \cup ((n + 1)..end)
        PROVE  A[p] = B[p]
    <2>1. p \in 1..n /\ p \notin P
      BY <1>5
    <2>2. V[p] = U[p]
      BY <1>4, <2>1 DEF Alike
    <2> QED
      BY <1>2, <1>3, <1>4, <2>1, <2>2 DEF Extends
  <1> QED
    BY <1>2, <1>3, <1>4, <1>5 DEF Alike

LEMMA AlikeSlot ==
  ASSUME NEW last \in Nat, NEW n \in Nat, NEW v, NEW u, NEW P, Alike(v, u, last, n, P),
         last <= n, NEW at \in Nat, NEW bs \in Seq(Nat),
         NEW end \in Nat, end = at + 12, end <= last, NEW top \in Nat, top = n + Len(bs)
  PROVE  Alike(WriteSlot(v, at, bs), WriteSlot(u, at, bs), last, top, P \ ((at + 1)..end))
  <1>1. PICK k \in Nat : k = Len(bs) /\ top = n + k /\ v.len = n /\ u.len = n
    BY DEF Alike
  <1>2. PICK s \in Seq(Nat) : s = Word(n) \o Word(k) \o Word(1) /\ Len(s) = 12
    <2>1. PICK x \in Seq(Nat) : x = Word(n) /\ Len(x) = 4
      BY WordSeq
    <2>2. PICK y \in Seq(Nat) : y = Word(k) /\ Len(y) = 4
      BY WordSeq
    <2>3. PICK z \in Seq(Nat) : z = Word(1) /\ Len(z) = 4
      BY WordSeq
    <2>4. PICK j \in Seq(Nat) : IsJoin(j, x, y) /\ Len(j) = 8
      <3>1. PICK j \in Seq(Nat) : IsJoin(j, x, y) /\ Len(j) = Len(x) + Len(y)
        BY Join
      <3> QED
        BY <2>1, <2>2, <3>1
    <2>5. PICK s \in Seq(Nat) : IsJoin(s, j, z) /\ Len(s) = 12
      <3>1. PICK s \in Seq(Nat) : IsJoin(s, j, z) /\ Len(s) = Len(j) + Len(z)
        BY Join
      <3>2. Len(s) = 12
        BY <2>3, <2>4, <3>1
      <3> QED
        BY <3>1, <3>2
    <2> QED
      BY <2>1, <2>2, <2>3, <2>4, <2>5, Zenon DEF IsJoin
  <1> DEFINE P1 == P \cup ((n + 1)..top)
             P2 == P1 \ ((at + 1)..end)
             P3 == P2 \ ((n + 1)..top)
  <1>3. Alike(Alloc(v, k), Alloc(u, k), last, top, P1)
    BY <1>1, AlikeAlloc
  <1>4. PICK c, d : /\ c = WriteAt(Alloc(v, k), at, s) /\ d = WriteAt(Alloc(u, k), at, s)
                    /\ Alike(c, d, last, top, P2)
    <2>1. end = at + Len(s) /\ end <= top
      BY <1>1, <1>2
    <2> HIDE DEF P1
    <2>2. Alike(WriteAt(Alloc(v, k), at, s), WriteAt(Alloc(u, k), at, s), last, top, P2)
      BY <1>2, <1>3, <2>1, AlikeAt
    <2> QED
      BY <2>2, Zenon
  <1>5. Alike(WriteAt(c, n, bs), WriteAt(d, n, bs), last, top, P3)
    <2>1. top = n + Len(bs) /\ top <= top
      BY <1>1
    <2> HIDE DEF P2
    <2> QED
      BY <1>4, <2>1, AlikeAt
  <1>6. Alike(WriteAt(c, n, bs), WriteAt(d, n, bs), last, top, P \ ((at + 1)..end))
    <2>1. P3 \subseteq P \ ((at + 1)..end)
      OBVIOUS
    <2> HIDE DEF P3
    <2> QED
      BY <1>5, <2>1, AlikeMore
  <1>7. WriteAt(c, n, bs) = WriteSlot(v, at, bs) /\ WriteAt(d, n, bs) = WriteSlot(u, at, bs)
    BY <1>1, <1>2, <1>4, Zenon DEF WriteSlot
  <1> QED
    BY <1>6, <1>7, Zenon

(* A field put into both.                                                  *)
AnyLen(v, u, last, P) == \E n \in Nat : last <= n /\ Alike(v, u, last, n, P)

LEMMA AlikeField ==
  ASSUME NEW last \in Nat, NEW v, NEW u, NEW P, AnyLen(v, u, last, P),
         NEW at \in Nat, NEW f, IsField(f), NEW bs \in Seq(Nat),
         NEW from \in Nat, from = at + f.at, NEW end \in Nat, end = from + Width(f, bs),
         end <= last
  PROVE  AnyLen(PutField(v, at, f, bs), PutField(u, at, f, bs), last, P \ ((from + 1)..end))
  <1>1. PICK n \in Nat : last <= n /\ Alike(v, u, last, n, P)
    BY DEF AnyLen
  <1>2. CASE f.slot
    <2>1. end = from + 12
      BY <1>2 DEF Width
    <2>2. PICK top \in Nat : top = n + Len(bs) /\ last <= top
      BY <1>1
    <2>3. Alike(WriteSlot(v, from, bs), WriteSlot(u, from, bs), last, top, P \ ((from + 1)..end))
      BY <1>1, <2>1, <2>2, AlikeSlot
    <2> QED
      BY <1>2, <2>2, <2>3, Zenon DEF PutField, AnyLen
  <1>3. CASE ~f.slot
    <2>1. end = from + Len(bs) /\ end <= n
      BY <1>1, <1>3 DEF Width
    <2>2. Alike(WriteAt(v, from, bs), WriteAt(u, from, bs), last, n, P \ ((from + 1)..end))
      BY <1>1, <2>1, AlikeAt
    <2> QED
      BY <1>1, <1>3, <2>2, Zenon DEF PutField, AnyLen
  <1> QED
    BY <1>2, <1>3

(* The fields of a struct follow each other from its size word to its end. *)
Edge(x, fields, i) == IF i = 0 THEN 4 ELSE End(x, fields[i])

NoGaps(x, fields, size) ==
  /\ \A i \in 1..Len(fields) : fields[i].at = Edge(x, fields, i - 1)
  /\ Edge(x, fields, Len(fields)) = size

LEMMA AlikePut ==
  ASSUME NEW size \in Nat, NEW at \in Nat, 4 <= size, NEW x, NEW fields,
         Laid(x, fields, size), NoGaps(x, fields, size),
         NEW last, last = at + size, NEW v \in Writer(last), NEW u \in Writer(last),
         AnyLen(v, u, last, (at + 1)..last)
  PROVE  AnyLen(Put(x, v, at, size, fields), Put(x, u, at, size, fields), last, {})
  <1>1. last \in Nat
    OBVIOUS
  <1>2. PICK n \in Nat : n = Len(fields)
    BY DEF Laid
  <1>3. PICK a : /\ Puts(a, x, v, at, size, fields)
                 /\ Put(x, v, at, size, fields) = a[n]
    BY <1>2, PutSteps
  <1>4. PICK b : /\ Puts(b, x, u, at, size, fields)
                 /\ Put(x, u, at, size, fields) = b[n]
    BY <1>2, PutSteps
  <1> DEFINE Left(i) == (at + Edge(x, fields, i) + 1)..last
             S == {i \in 0..n : AnyLen(a[i], b[i], last, Left(i))}
  <1>5. 0 \in S
    <2>1. PICK s \in Seq(Nat) : s = Word(size) /\ Len(s) = 4
      BY WordSeq
    <2>2. PICK end \in Nat : end = at + 4 /\ end = at + Len(s) /\ end <= last
      BY <1>1, <2>1
    <2>3. PICK k \in Nat : last <= k /\ Alike(v, u, last, k, (at + 1)..last)
      BY DEF AnyLen
    <2>4. end <= k
      BY <1>1, <2>2, <2>3
    <2>5. Alike(WriteAt(v, at, s), WriteAt(u, at, s), last, k, ((at + 1)..last) \ ((at + 1)..end))
      BY <1>1, <2>2, <2>3, <2>4, AlikeAt
    <2>6. ((at + 1)..last) \ ((at + 1)..end) \subseteq Left(0)
      BY <1>1, <2>2 DEF Edge
    <2>7. Alike(WriteAt(v, at, s), WriteAt(u, at, s), last, k, Left(0))
      <3> HIDE DEF Left
      <3> QED
        BY <2>5, <2>6, AlikeMore
    <2>8. a[0] = WriteAt(v, at, s) /\ b[0] = WriteAt(u, at, s)
      BY <1>3, <1>4, <2>1 DEF Puts
    <2>9. AnyLen(a[0], b[0], last, Left(0))
      <3> HIDE DEF Left
      <3> QED
        BY <2>3, <2>7, <2>8 DEF AnyLen
    <2> QED
      BY <1>2, <2>9
  <1>6. ASSUME NEW i \in 1..n, i - 1 \in S
        PROVE  i \in S
    <2>1. i \in 1..Len(fields)
      BY <1>2
    <2>2. PICK f : f = fields[i] /\ IsField(f)
      BY <2>1, LaidField
    <2>3. PICK bs \in Seq(Nat), p \in Nat, q \in Nat :
            /\ bs = x[f.name] /\ p = f.at /\ q = Width(f, bs)
            /\ End(x, f) = p + q /\ p + q <= size
      <3>1. Sits(x, f, size)
        BY <2>1, <2>2, LaidField
      <3> QED
        BY <3>1 DEF Sits
    <2>4. PICK from \in Nat, end \in Nat : from = at + p /\ end = from + q /\ end <= last
      <3>1. at + p \in Nat /\ at + p + q \in Nat /\ at + p + q <= last
        BY <1>1, <2>3
      <3> QED
        BY <3>1
    <2>5. Edge(x, fields, i - 1) = p /\ Edge(x, fields, i) = p + q
      <3>1. i # 0
        OBVIOUS
      <3>2. Edge(x, fields, i) = p + q
        BY <2>2, <2>3, <3>1 DEF Edge
      <3> QED
        BY <2>1, <2>2, <2>3, <3>2 DEF NoGaps
    <2>6. AnyLen(a[i - 1], b[i - 1], last, Left(i - 1))
      BY <1>6
    <2>7. AnyLen(PutField(a[i - 1], at, f, bs), PutField(b[i - 1], at, f, bs), last,
                 Left(i - 1) \ ((from + 1)..end))
      <3>1. from = at + f.at /\ end = from + Width(f, bs)
        BY <2>3, <2>4
      <3> HIDE DEF Left
      <3> QED
        BY <1>1, <2>2, <2>4, <2>6, <3>1, AlikeField
    <2>8. Left(i - 1) \ ((from + 1)..end) \subseteq Left(i)
      BY <1>1, <2>4, <2>5
    <2>9. AnyLen(PutField(a[i - 1], at, f, bs), PutField(b[i - 1], at, f, bs), last, Left(i))
      <3> HIDE DEF Left
      <3> QED
        BY <2>7, <2>8, AlikeMore DEF AnyLen
    <2>10. /\ a[i] = PutField(a[i - 1], at, f, bs)
           /\ b[i] = PutField(b[i - 1], at, f, bs)
      BY <1>3, <1>4, <2>1, <2>2, <2>3 DEF Puts
    <2>11. AnyLen(a[i], b[i], last, Left(i))
      <3> HIDE DEF Left
      <3> QED
        BY <2>9, <2>10
    <2> QED
      BY <2>11
  <1>7. n \in S
    <2>1. \A i \in 0..n : i \in S
      <3> HIDE DEF S
      <3> QED
        BY <1>5, <1>6, Upward
    <2>2. n \in 0..n
      OBVIOUS
    <2> HIDE DEF S
    <2> QED
      BY <2>1, <2>2
  <1>8. Left(n) \subseteq {}
    BY <1>1, <1>2 DEF NoGaps
  <1>9. AnyLen(a[n], b[n], last, Left(n))
    BY <1>7
  <1>10. AnyLen(a[n], b[n], last, {})
    <2> HIDE DEF Left
    <2> QED
      BY <1>8, <1>9, AlikeMore DEF AnyLen
  <1> QED
    BY <1>3, <1>4, <1>10

LEMMA InlineEnd ==
  ASSUME NEW x \in Bodies, NEW name \in DOMAIN TransactionBodyViewer, NEW n \in Nat,
         NEW at \in Nat, ~TransactionBodyViewer[name].slot, TransactionBodyViewer[name].n = n,
         NEW f, f = Inline(name, at)
  PROVE  f.at = at /\ End(x, f) = at + n
  <1>1. Len(x[name]) = n
    BY DEF Bodies, Values
  <1> QED
    BY <1>1 DEF End, Width, Inline

LEMMA SlotEnd ==
  ASSUME NEW x, NEW name, NEW at \in Nat, NEW f, f = Slot(name, at)
  PROVE  f.at = at /\ End(x, f) = at + 12
  BY DEF End, Width, Slot

LEMMA BodyHasNoGaps ==
  ASSUME NEW x \in Bodies
  PROVE  /\ Laid(x, TransactionBodyFields, 249) /\ NoGaps(x, TransactionBodyFields, 249)
  <1>1. PICK F : F = TransactionBodyFields
    OBVIOUS
  <1>2. PICK V : V = TransactionBodyViewer
    OBVIOUS
  <1>3. /\ F[1].at = 4 /\ End(x, F[1]) = 36
        /\ F[2].at = 36 /\ End(x, F[2]) = 56
    <2>1. /\ F[1] = Inline("Hash", 4)
          /\ F[2] = Inline("Address", 36)
          /\ {"Hash", "Address"} \subseteq DOMAIN V
          /\ ~V["Hash"].slot /\ V["Hash"].n = 32
          /\ ~V["Address"].slot /\ V["Address"].n = 20
      BY <1>1, <1>2 DEF TransactionBodyFields, TransactionBodyViewer, Array, Int64
    <2> QED
      BY <1>2, <2>1, InlineEnd
  <1>4. /\ F[3].at = 56 /\ End(x, F[3]) = 76
        /\ F[4].at = 76 /\ End(x, F[4]) = 84
    <2>1. /\ F[3] = Inline("Receiver", 56)
          /\ F[4] = Inline("Gas", 76)
          /\ {"Receiver", "Gas"} \subseteq DOMAIN V
          /\ ~V["Receiver"].slot /\ V["Receiver"].n = 20
          /\ ~V["Gas"].slot /\ V["Gas"].n = 8
      BY <1>1, <1>2 DEF TransactionBodyFields, TransactionBodyViewer, Array, Int64
    <2> QED
      BY <1>2, <2>1, InlineEnd
  <1>5. /\ F[5].at = 84 /\ End(x, F[5]) = 92
        /\ F[10].at = 140 /\ End(x, F[10]) = 148
    <2>1. /\ F[5] = Inline("Nonce", 84)
          /\ F[10] = Inline("Expire", 140)
          /\ {"Nonce", "Expire"} \subseteq DOMAIN V
          /\ ~V["Nonce"].slot /\ V["Nonce"].n = 8
          /\ ~V["Expire"].slot /\ V["Expire"].n = 8
      BY <1>1, <1>2 DEF TransactionBodyFields, TransactionBodyViewer, Array, Int64
    <2> QED
      BY <1>2, <2>1, InlineEnd
  <1>6. /\ F[11].at = 148 /\ End(x, F[11]) = 156
        /\ F[12].at = 156 /\ End(x, F[12]) = 164
    <2>1. /\ F[11] = Inline("Height", 148)
          /\ F[12] = Inline("Index", 156)
          /\ {"Height", "Index"} \subseteq DOMAIN V
          /\ ~V["Height"].slot /\ V["Height"].n = 8
          /\ ~V["Index"].slot /\ V["Index"].n = 8
      BY <1>1, <1>2 DEF TransactionBodyFields, TransactionBodyViewer, Array, Int64
    <2> QED
      BY <1>2, <2>1, InlineEnd
  <1>7. /\ F[13].at = 164 /\ End(x, F[13]) = 196
        /\ F[14].at = 196 /\ End(x, F[14]) = 204
    <2>1. /\ F[13] = Inline("BlockHash", 164)
          /\ F[14] = Inline("Timestamp", 196)
          /\ {"BlockHash", "Timestamp"} \subseteq DOMAIN V
          /\ ~V["BlockHash"].slot /\ V["BlockHash"].n = 32
          /\ ~V["Timestamp"].slot /\ V["Timestamp"].n = 8
      BY <1>1, <1>2 DEF TransactionBodyFields, TransactionBodyViewer, Array, Int64
    <2> QED
      BY <1>2, <2>1, InlineEnd
  <1>8. /\ F[15].at = 204 /\ End(x, F[15]) = 237
    <2>1. /\ F[15] = Inline("Public", 204)
          /\ {"Public"} \subseteq DOMAIN V
          /\ ~V["Public"].slot /\ V["Public"].n = 33
      BY <1>1, <1>2 DEF TransactionBodyFields, TransactionBodyViewer, Array, Int64
    <2> QED
      BY <1>2, <2>1, InlineEnd
  <1>9. /\ F[6].at = 92 /\ End(x, F[6]) = 104
        /\ F[7].at = 104 /\ End(x, F[7]) = 116
        /\ F[8].at = 116 /\ End(x, F[8]) = 128
    <2>1. /\ F[6] = Slot("Event", 92)
          /\ F[7] = Slot("Opt", 104)
          /\ F[8] = Slot("State", 116)
      BY <1>1 DEF TransactionBodyFields
    <2> QED
      BY <2>1, SlotEnd
  <1>10. /\ F[9].at = 128 /\ End(x, F[9]) = 140
         /\ F[16].at = 237 /\ End(x, F[16]) = 249
    <2>1. /\ F[9] = Slot("Data", 128)
          /\ F[16] = Slot("Signature", 237)
      BY <1>1 DEF TransactionBodyFields
    <2> QED
      BY <2>1, SlotEnd
  <1>11. ASSUME NEW i \in 1..16
         PROVE  F[i].at = Edge(x, F, i - 1)
    <2>1. CASE i = 1
      BY <1>3, <2>1 DEF Edge
    <2>2. CASE i # 1
      <3>1. F[i].at = End(x, F[i - 1])
        BY <1>3, <1>4, <1>5, <1>6, <1>7, <1>8, <1>9, <1>10, <2>2
      <3> QED
        BY <2>2, <3>1 DEF Edge
    <2> QED
      BY <2>1, <2>2
  <1>12. NoGaps(x, F, 249)
    <2>1. Edge(x, F, 16) = 249
      BY <1>10 DEF Edge
    <2>2. Len(F) = 16
      BY <1>1 DEF TransactionBodyFields
    <2> QED
      BY <1>11, <2>1, <2>2 DEF NoGaps
  <1>13. Laid(x, F, 249)
    BY <1>1, TransactionBodyAgree, AgreeFits DEF Bodies
  <1> QED
    BY <1>1, <1>12, <1>13

LEMMA FreshFacts ==
  ASSUME NEW n \in Nat
  PROVE  \A p \in 1..n : Bytes(Alloc(NewWriter, n))[p] = 0
  <1>1. NewWriter \in Writer(0) /\ NewWriter.mem = <<>>
    BY NewWriterFacts DEF NewWriter
  <1>2. PICK a \in Writer(n) : a = Alloc(NewWriter, n) /\ a.len = n
    BY NewWriterFacts
  <1>3. \A p \in 1..Len(a.mem) : a.mem[p] = 0
    <2>1. \A p \in (Len(NewWriter.mem) + 1)..Len(a.mem) : a.mem[p] = 0
      BY <1>1, <1>2, AllocFacts
    <2> QED
      BY <1>1, <2>1
  <1>4. n <= Len(a.mem) /\ Len(a.mem) \in Nat
    BY <1>2, WriterFacts
  <1> QED
    BY <1>2, <1>3, <1>4, BytesFacts

LEMMA SetLen ==
  ASSUME NEW w, NEW m, NEW n, w = [mem |-> m, len |-> n]
  PROVE  Reset(w) = [mem |-> m, len |-> 0]
  BY DEF Reset

(***************************************************************************)
(* Alloc does not clear the memory a writer kept when it was reset, and a  *)
(* body does not fill its area: a body written over another one has the    *)
(* bytes it has in a new writer nevertheless.                              *)
(***************************************************************************)
LEMMA WrittenOver ==
  ASSUME NEW x \in Bodies, NEW y \in Bodies
  PROVE  LET first == TransactionBodyWrite(x, NewWriter, 0)
         IN Bytes(TransactionBodyWrite(y, Reset(first), 0)) =
              Bytes(TransactionBodyWrite(y, NewWriter, 0))
  <1>1. PICK size \in Nat, area \in Nat, zero \in Nat :
          size = 249 /\ area = 256 /\ zero = 0 /\ size <= area
    OBVIOUS
  <1>2. PICK F : F = TransactionBodyFields
    OBVIOUS
  <1>3. /\ Laid(x, F, size) /\ Laid(y, F, size) /\ NoGaps(y, F, size)
    BY <1>1, <1>2, BodyHasNoGaps
  <1>4. PICK a \in Writer(area) : /\ a = Alloc(NewWriter, area) /\ a.len = area
                                  /\ \A p \in 1..area : Bytes(a)[p] = 0
    BY NewWriterFacts, FreshFacts
  <1>5. a \in Writer(size)
    BY <1>1, <1>4 DEF Writer
  <1>6. PICK first \in Writer(size) :
          /\ first = Put(x, a, zero, size, F) /\ first = TransactionBodyWrite(x, NewWriter, 0)
          /\ Kept(Bytes(first), Bytes(a), zero, size)
    <2>1. PutInv(Put(x, a, zero, size, F), Len(F), x, a, zero, size, F)
      <3>1. 4 <= size /\ a \in Writer(zero + size)
        BY <1>1, <1>5
      <3> QED
        BY <1>3, <3>1, PutFacts
    <2>2. zero + size = size
      BY <1>1
    <2>3. Put(x, a, zero, size, F) \in Writer(size)
          /\ Kept(Bytes(Put(x, a, zero, size, F)), Bytes(a), zero, size)
      BY <2>1, <2>2, Zenon DEF PutInv
    <2>4. Put(x, a, zero, size, F) = TransactionBodyWrite(x, NewWriter, 0)
      BY <1>1, <1>2, <1>4, NewWriterFacts, Zenon DEF TransactionBodyWrite, Area, Offset
    <2> QED
      BY <2>3, <2>4
  <1>7. PICK r \in Writer(zero) : r = Reset(first) /\ r.mem = first.mem /\ r.len = 0
    <2>1. PICK m \in Seq(Nat), n \in Nat : /\ m = first.mem /\ n = first.len /\ n <= Len(m)
                                            /\ first = [mem |-> m, len |-> n]
      BY <1>6, WriterFacts
    <2>2. PICK r : r = Reset(first) /\ r = [mem |-> m, len |-> 0]
      BY <2>1, SetLen
    <2>3. r.mem = m /\ r.len = 0
      BY <2>2
    <2>4. r \in Writer(zero)
      BY <1>1, <2>1, <2>2 DEF Writer
    <2> QED
      BY <2>1, <2>2, <2>3, <2>4
  <1>8. PICK b \in Writer(area) : b = Alloc(r, area) /\ b.len = area
                                  /\ \A p \in 1..Len(r.mem) : b.mem[p] = r.mem[p]
    <2>1. PICK c : c = Alloc(r, area)
      OBVIOUS
    <2>2. /\ c \in Writer(zero + area) /\ c.len = r.len + area
          /\ \A p \in 1..Len(r.mem) : c.mem[p] = r.mem[p]
      BY <1>7, <2>1, AllocFacts
    <2>3. zero + area = area /\ r.len + area = area
      BY <1>1, <1>7
    <2> QED
      BY <2>1, <2>2, <2>3
  <1>9. b \in Writer(size)
    BY <1>1, <1>8 DEF Writer
  <1>10. ASSUME NEW p \in 1..area, size < p
         PROVE  Bytes(a)[p] = Bytes(b)[p]
    <2>1. PICK A \in Seq(Nat), V \in Seq(Nat) :
            /\ A = Bytes(a) /\ V = Bytes(first) /\ Len(A) = area /\ Len(V) = first.len
            /\ first.len \in Nat /\ first.len <= Len(first.mem)
      BY <1>4, <1>6, BytesFacts, WriterFacts
    <2>2. area <= Len(V) /\ V[p] = A[p]
      <3>1. ~(zero < p /\ p <= size) /\ p \in 1..Len(A)
        BY <1>1, <1>10, <2>1
      <3>2. Kept(V, A, zero, size)
        BY <1>6, <2>1
      <3> QED
        BY <2>1, <3>1, <3>2 DEF Kept
    <2>3. p \in 1..first.len /\ p \in 1..Len(r.mem)
      BY <1>1, <1>7, <1>10, <2>1, <2>2
    <2>4. V[p] = first.mem[p]
      BY <1>6, <2>1, <2>3, BytesFacts
    <2>5. Bytes(b)[p] = b.mem[p]
      BY <1>8, BytesFacts
    <2> QED
      BY <1>7, <1>8, <2>1, <2>2, <2>3, <2>4, <2>5
  <1>11. AnyLen(a, b, size, (zero + 1)..size)
    <2>1. ASSUME NEW p \in 1..area, p \notin (zero + 1)..size
          PROVE  Bytes(a)[p] = Bytes(b)[p]
      BY <1>1, <1>10, <2>1
    <2> QED
      BY <1>1, <1>4, <1>5, <1>8, <1>9, <2>1 DEF Alike, AnyLen
  <1>12. PICK v, u : /\ v = Put(y, a, zero, size, F) /\ u = Put(y, b, zero, size, F)
                     /\ AnyLen(v, u, size, {})
    <2>1. size = zero + size /\ 4 <= size
      BY <1>1
    <2> QED
      BY <1>3, <1>5, <1>9, <1>11, <2>1, AlikePut
  <1>13. Bytes(v) = Bytes(u)
    <2>1. PICK n \in Nat : Alike(v, u, size, n, {})
      BY <1>12 DEF AnyLen
    <2>2. PICK V \in Seq(Nat), U \in Seq(Nat) :
            V = Bytes(v) /\ U = Bytes(u) /\ Len(V) = n /\ Len(U) = n
      BY <2>1, BytesFacts DEF Alike
    <2>3. \A p \in 1..n : V[p] = U[p]
      BY <2>1, <2>2 DEF Alike
    <2> QED
      BY <2>2, <2>3
  <1>14. v = TransactionBodyWrite(y, NewWriter, 0) /\ u = TransactionBodyWrite(y, r, 0)
    <2>1. v = TransactionBodyWrite(y, NewWriter, 0)
      BY <1>1, <1>2, <1>4, <1>12, NewWriterFacts, Zenon DEF TransactionBodyWrite, Area, Offset
    <2>2. u = TransactionBodyWrite(y, r, 0)
      <3>1. Area(r, 0, 256) = b /\ Offset(r, 0) = zero
        BY <1>1, <1>7, <1>8 DEF Area, Offset
      <3> QED
        BY <1>1, <1>2, <1>12, <3>1, Zenon DEF TransactionBodyWrite
    <2> QED
      BY <2>1, <2>2
  <1> QED
    BY <1>6, <1>7, <1>13, <1>14, Zenon

(* What the slices of a body take behind its area; a transaction with them *)
(* fits into the words of the model.                                       *)
Weight(x) == Len(x.Event) + Len(x.Opt) + Len(x.State) + Len(x.Data) + Len(x.Signature)
Fit(x) == Small(264 + Weight(x))

LEMMA BodyFields ==
  ASSUME NEW x \in Bodies
  PROVE  /\ DOMAIN x = DOMAIN TransactionBodyViewer
         /\ \A name \in DOMAIN x : x[name] \in Seq(Nat)
         /\ \E e \in Nat, o \in Nat, s \in Nat, d \in Nat, g \in Nat :
              /\ e = Len(x.Event) /\ o = Len(x.Opt) /\ s = Len(x.State) /\ d = Len(x.Data)
              /\ g = Len(x.Signature)
         /\ Weight(x) \in Nat
  <1>1. /\ DOMAIN x = DOMAIN TransactionBodyViewer
        /\ \A name \in DOMAIN x : x[name] \in Seq(Nat)
    BY DEF Bodies, Values
  <1>2. /\ x.Event \in Seq(Nat) /\ x.Opt \in Seq(Nat) /\ x.State \in Seq(Nat)
        /\ x.Data \in Seq(Nat) /\ x.Signature \in Seq(Nat)
    BY <1>1 DEF TransactionBodyViewer
  <1>3. PICK e \in Nat, o \in Nat, s \in Nat, d \in Nat, g \in Nat :
          /\ e = Len(x.Event) /\ o = Len(x.Opt) /\ s = Len(x.State) /\ d = Len(x.Data)
          /\ g = Len(x.Signature)
    BY <1>2
  <1>4. Weight(x) = e + o + s + d + g
    BY <1>3, Zenon DEF Weight
  <1>5. Weight(x) \in Nat
    BY <1>4
  <1> QED
    BY <1>1, <1>3, <1>5

LEMMA BodyWeight ==
  ASSUME NEW at \in Nat, NEW size \in Nat, size = 249, NEW w \in Writer(at + size),
         NEW x \in Bodies
  PROVE  Put(x, w, at, size, TransactionBodyFields).len = w.len + Weight(x)
  <1>1. PICK last \in Nat : last = at + size /\ 4 <= size
    OBVIOUS
  <1>2. PICK F, m : F = TransactionBodyFields /\ m = Len(F)
    OBVIOUS
  <1>3. Laid(x, F, size)
    BY <1>2, BodyHasNoGaps
  <1>4. PICK a : /\ Puts(a, x, w, at, size, F) /\ Put(x, w, at, size, F) = a[m]
                  /\ \A i \in 0..m : a[i] \in Writer(last)
    BY <1>1, <1>2, <1>3, PutSteps
  <1>5. m = 16 /\ Len(F) = 16
    BY <1>2 DEF TransactionBodyFields
  <1>6. /\ Puts(a, x, w, at, size, F) /\ Put(x, w, at, size, F) = a[16]
        /\ \A i \in 0..16 : a[i] \in Writer(last)
    BY <1>5, <1>4
  <1>7. a[0].len = w.len /\ w.len \in Nat
    <2>1. PICK s \in Seq(Nat) : s = Word(size) /\ Len(s) = 4
      BY WordSeq
    <2>2. w.len \in Nat /\ last <= w.len
      BY <1>1, WriterFacts
    <2>3. at + Len(s) <= w.len
      <3>1. PICK n \in Nat : n = w.len /\ last <= n
        BY <2>2
      <3>2. at + 4 <= n
        BY <1>1, <3>1
      <3> QED
        BY <2>1, <3>1, <3>2, Zenon
    <2>4. WriteAt(w, at, s).len = w.len
      BY <1>1, <2>3, WriteAtFacts
    <2> QED
      BY <1>6, <2>1, <2>2, <2>4 DEF Puts
  <1>8. ASSUME NEW i \in 1..16, NEW j \in 0..15, i = j + 1
        PROVE  a[i].len = a[j].len + (IF F[i].slot THEN Len(x[F[i].name]) ELSE 0)
    <2>1. PICK f : f = F[i] /\ IsField(f) /\ x[f.name] \in Seq(Nat)
      BY <1>5, <1>3, Zenon DEF Laid
    <2>2. a[j] \in Writer(last) /\ i - 1 = j
      BY <1>6, <1>8
    <2>3. a[i] = PutField(a[j], at, f, x[f.name])
      BY <1>5, <1>6, <2>1, <2>2 DEF Puts
    <2>4. PutField(a[j], at, f, x[f.name]).len
            = a[j].len + (IF f.slot THEN Len(x[f.name]) ELSE 0)
      BY <2>1, <2>2, FieldLen
    <2> QED
      BY <2>1, <2>3, <2>4, Zenon
  <1>9. /\ ~F[1].slot /\ ~F[2].slot /\ ~F[3].slot /\ ~F[4].slot /\ ~F[5].slot
        /\ F[6].slot /\ F[6].name = "Event" /\ F[7].slot /\ F[7].name = "Opt"
        /\ F[8].slot /\ F[8].name = "State" /\ F[9].slot /\ F[9].name = "Data"
        /\ ~F[10].slot /\ ~F[11].slot /\ ~F[12].slot /\ ~F[13].slot /\ ~F[14].slot
        /\ ~F[15].slot /\ F[16].slot /\ F[16].name = "Signature"
    BY <1>2 DEF TransactionBodyFields, Inline, Slot
  <1>10. PICK e \in Nat, o \in Nat, s \in Nat, d \in Nat, g \in Nat :
          /\ e = Len(x.Event) /\ o = Len(x.Opt) /\ s = Len(x.State) /\ d = Len(x.Data)
          /\ g = Len(x.Signature)
    BY BodyFields
  <1>11. ASSUME NEW i \in 1..16, NEW j \in 0..15, i = j + 1, ~F[i].slot
        PROVE  a[i].len = a[j].len + 0
    BY <1>8, <1>11, Zenon
  <1>12. ASSUME NEW i \in 1..16, NEW j \in 0..15, i = j + 1, NEW name, F[i].slot, F[i].name = name
        PROVE  a[i].len = a[j].len + Len(x[name])
    BY <1>8, <1>12, Zenon
  <1>13. a[5].len = w.len
    <2>1. /\ a[1].len = a[0].len + 0 /\ a[2].len = a[1].len + 0 /\ a[3].len = a[2].len + 0
          /\ a[4].len = a[3].len + 0 /\ a[5].len = a[4].len + 0
      BY <1>9, <1>11
    <2> QED
      BY <1>7, <2>1
  <1>14. a[9].len = w.len + e + o + s + d
    <2>1. /\ a[6].len = a[5].len + e /\ a[7].len = a[6].len + o /\ a[8].len = a[7].len + s
          /\ a[9].len = a[8].len + d
      <3>1. /\ a[6].len = a[5].len + Len(x["Event"]) /\ a[7].len = a[6].len + Len(x["Opt"])
        BY <1>9, <1>12, SMTT(40)
      <3>2. a[8].len = a[7].len + Len(x["State"])
        BY <1>9, <1>12, SMTT(40)
      <3>3. a[9].len = a[8].len + Len(x["Data"])
        BY <1>9, <1>12, SMTT(40)
      <3> QED
        BY <1>10, <3>1, <3>2, <3>3, Zenon
    <2> QED
      BY <1>7, <1>13, <2>1
  <1>15. a[15].len = w.len + e + o + s + d
    <2>1. /\ a[10].len = a[9].len + 0 /\ a[11].len = a[10].len + 0 /\ a[12].len = a[11].len + 0
          /\ a[13].len = a[12].len + 0 /\ a[14].len = a[13].len + 0 /\ a[15].len = a[14].len + 0
      BY <1>9, <1>11
    <2> QED
      BY <1>7, <1>14, <2>1
  <1>16. a[16].len = w.len + (e + o + s + d + g)
    <2>1. a[16].len = a[15].len + g
      BY <1>9, <1>10, <1>12
    <2> QED
      BY <1>7, <1>15, <2>1
  <1> QED
    BY <1>6, <1>10, <1>16, <1>2, Zenon DEF Weight

(* The body that Verify writes first is read as it is.                     *)
LEMMA BodyReads ==
  ASSUME NEW x \in Bodies, Fit(x)
  PROVE  TransactionBodyRead(Bytes(TransactionBodyWrite(x, NewWriter, 0)), 0) = x
  <1>1. PICK size \in Nat, area \in Nat, zero \in Nat :
          size = 249 /\ area = 256 /\ zero = 0 /\ 8 <= size /\ size <= area
    OBVIOUS
  <1>2. PICK F : F = TransactionBodyFields
    OBVIOUS
  <1>3. PICK w \in Writer(area) : w = Alloc(NewWriter, area) /\ w.len = area
    BY NewWriterFacts
  <1>4. w \in Writer(zero + size)
    <2>1. zero + size <= area
      BY <1>1
    <2> QED
      BY <1>3, <2>1 DEF Writer
  <1>5. PICK v : v = Put(x, w, zero, size, F)
    OBVIOUS
  <1>6. v = TransactionBodyWrite(x, NewWriter, 0)
    BY <1>1, <1>2, <1>3, <1>5, NewWriterFacts, Zenon DEF TransactionBodyWrite, Area, Offset
  <1>7. Fits(TransactionBodyViewer, F, size) /\ Laid(x, F, size)
    BY <1>1, <1>2, TransactionBodyAgree, AgreeFits DEF Bodies
  <1>8. Small(Len(Bytes(v)))
    <2>1. v.len = area + Weight(x)
      BY <1>1, <1>2, <1>3, <1>4, <1>5, BodyWeight
    <2>2. PutInv(v, Len(F), x, w, zero, size, F)
      BY <1>1, <1>4, <1>5, <1>7, PutFacts
    <2>3. PICK last \in Nat : last = zero + size /\ v \in Writer(last)
      BY <1>1, <2>2 DEF PutInv
    <2>4. Len(Bytes(v)) = v.len
      BY <2>3, BytesFacts
    <2>5. area + Weight(x) <= MaxWord
      BY <1>1, BodyFields DEF Fit, Small, MaxWord
    <2> QED
      BY <2>1, <2>4, <2>5 DEF Small
  <1>9. Read(Bytes(v), zero, TransactionBodyViewer) = x
    <2>1. Small(size)
      BY <1>1 DEF Small, MaxWord
    <2> QED
      BY <1>1, <1>3, <1>5, <1>7, <1>8, <2>1, RootRead DEF Bodies
  <1> QED
    BY <1>1, <1>6, <1>9, Zenon DEF TransactionBodyRead

-----------------------------------------------------------------------------
(* What is signed of a transaction, and the digest of that.                *)
Stripped(tx) == [tx EXCEPT !.Hash = NoHash, !.Signature = <<>>]
DigestOf(tx) == Sha256(Bytes(TransactionBodyWrite(Stripped(tx), NewWriter, 0)))

LEMMA StrippedFacts ==
  ASSUME NEW x \in Bodies
  PROVE  Stripped(x) \in Bodies /\ DigestOf(x) \in Seq(Nat) /\ Len(DigestOf(x)) = 32
  <1>1. PICK V : V = TransactionBodyViewer
    OBVIOUS
  <1>2. /\ "Hash" \in DOMAIN V /\ ~V["Hash"].slot /\ V["Hash"].n = 32
        /\ "Signature" \in DOMAIN V /\ V["Signature"].slot /\ V["Signature"].n = 73
    BY <1>1 DEF TransactionBodyViewer, Array, SliceUpTo
  <1>3. PICK none \in Seq(Nat), e \in Seq(Nat) :
          none = NoHash /\ e = <<>> /\ Len(none) = 32 /\ Len(e) = 0
    BY BytesHave DEF Has
  <1>4. PICK y \in Values(V) : y = [x EXCEPT !["Hash"] = none]
    <2>1. IF V["Hash"].slot THEN Len(none) <= V["Hash"].n ELSE Len(none) = V["Hash"].n
      BY <1>2, <1>3
    <2> QED
      BY <1>1, <1>2, <2>1, ValueExcept DEF Bodies
  <1>5. [y EXCEPT !["Signature"] = e] \in Values(V)
    <2>1. IF V["Signature"].slot THEN Len(e) <= V["Signature"].n ELSE Len(e) = V["Signature"].n
      BY <1>2, <1>3
    <2> QED
      BY <1>2, <1>4, <2>1, ValueExcept
  <1>6. Stripped(x) = [y EXCEPT !["Signature"] = e]
    BY <1>3, <1>4 DEF Stripped
  <1>7. Stripped(x) \in Bodies
    BY <1>1, <1>5, <1>6 DEF Bodies
  <1> QED
    BY <1>7, BodyBytes, DigestSeq DEF DigestOf

(***************************************************************************)
(* Transaction.Verify takes its copy by writing and reading a body, strips *)
(* it and writes it over the first with the same writer.  Whatever the     *)
(* transaction, what remains of that detour is this: it accepts the hash   *)
(* of the stripped body and the signature over it, and nothing else.       *)
(***************************************************************************)
THEOREM VerifyExact ==
  ASSUME NEW tx \in Bodies, Fit(tx)
  PROVE  Verify(tx) <=> /\ tx.Hash = DigestOf(tx)
                        /\ tx.Signature = SignASN1(Unmarshal(tx.Public), DigestOf(tx))
  <1>1. PICK w : w = TransactionBodyWrite(tx, NewWriter, 0)
    OBVIOUS
  <1>2. Unsigned(w) = Stripped(tx)
    BY <1>1, BodyReads, Zenon DEF Unsigned, Stripped
  <1>3. Bytes(Rewritten(w)) = Bytes(TransactionBodyWrite(Stripped(tx), NewWriter, 0))
    <2>1. Rewritten(w) = TransactionBodyWrite(Stripped(tx), Reset(w), 0)
      BY <1>2, Zenon DEF Rewritten
    <2> QED
      BY <1>1, <2>1, StrippedFacts, WrittenOver, Zenon
  <1>4. Sha256(Bytes(Rewritten(w))) = DigestOf(tx)
    BY <1>3, Zenon DEF DigestOf
  <1> QED
    BY <1>1, <1>4 DEF Verify, VerifyASN1

(* A transaction that is sent: an area of 8 bytes, its body behind it.     *)
Sent(d, x) ==
  /\ d \in Seq(Nat) /\ Len(d) = 264 + Weight(x) /\ Small(Len(d))
  /\ Holds(d, 0, Word(8)) /\ BodyHeld(d, 8, x)

LEMMA SentFacts ==
  ASSUME NEW x \in Bodies, Fit(x)
  PROVE  /\ Sent(SerializeTransaction(x), x)
         /\ DeserializeTransaction(SerializeTransaction(x)) = x
  <1>1. PICK eight \in Nat, zero \in Nat, size \in Nat, last \in Nat :
          eight = 8 /\ zero = 0 /\ size = 249 /\ last = eight + size
    OBVIOUS
  <1>2. PICK w \in Writer(eight) : w = Alloc(NewWriter, 8) /\ w.len = eight
    BY <1>1, NewWriterFacts
  <1>3. PICK b : b = WriteAt(Alloc(w, 256), zero, Word(eight))
    OBVIOUS
  <1>4. PICK v : v = TransactionBodyWrite(x, b, eight)
    OBVIOUS
  <1>5. v = TransactionWrite(x, NewWriter, 0)
    <2>1. Area(NewWriter, 0, 8) = w /\ Offset(NewWriter, 0) = zero
      BY <1>1, <1>2, NewWriterFacts DEF Area, Offset
    <2> QED
      BY <1>2, <1>3, <1>4, <2>1, Zenon DEF TransactionWrite
  <1>6. v \in Writer(eight) /\ TxHeld(Bytes(v), zero, x, eight) /\ Holds(Bytes(v), zero, Word(eight))
    <2>1. zero + 8 <= eight /\ x \in Values(TransactionBodyViewer)
      BY <1>1 DEF Bodies
    <2> QED
      <3>1. b = WriteAt(Alloc(w, 256), zero, Word(w.len)) /\ v = TransactionBodyWrite(x, b, w.len)
        BY <1>2, <1>3, <1>4, Zenon
      <3>2. v \in Writer(eight) /\ TxHeld(Bytes(v), zero, x, eight) /\ Holds(Bytes(v), zero, Word(w.len))
        BY <2>1, <3>1, BodyBehind
      <3> QED
        BY <1>2, <3>2, Zenon
  <1>7. b \in Writer(last) /\ b.len = 264
    <2>1. PICK k \in Nat : k = 256
      OBVIOUS
    <2>2. PICK a \in Writer(eight) : a = Alloc(w, 256) /\ a.len = 264
      <3>1. Alloc(w, k) \in Writer(eight) /\ Alloc(w, k).len = w.len + k
        BY AllocFacts
      <3> QED
        BY <1>1, <1>2, <2>1, <3>1
    <2>3. a \in Writer(last)
      BY <1>1, <2>2 DEF Writer
    <2>4. PICK s \in Seq(Nat) : s = Word(eight) /\ Len(s) = 4
      BY WordSeq
    <2>5. zero + Len(s) <= a.len
      <3>1. zero + 4 <= 264
        BY <1>1
      <3> QED
        BY <2>2, <2>4, <3>1, Zenon
    <2>6. WriteAt(a, zero, s) \in Writer(last) /\ WriteAt(a, zero, s).len = a.len
      BY <2>3, <2>5, WriteAtFacts
    <2> QED
      BY <1>3, <2>2, <2>4, <2>6
  <1>8. v.len = 264 + Weight(x)
    <2>1. v = Put(x, b, eight, size, TransactionBodyFields)
      BY <1>1, <1>4 DEF TransactionBodyWrite, Area, Offset
    <2> QED
      BY <1>1, <1>7, <2>1, BodyWeight
  <1>9. PICK d \in Seq(Nat), n \in Nat :
          /\ d = SerializeTransaction(x) /\ d = Bytes(v) /\ n = Len(d) /\ n = 264 + Weight(x)
          /\ Small(n)
    <2>1. Bytes(v) \in Seq(Nat) /\ Len(Bytes(v)) = v.len
      BY <1>6, BytesFacts
    <2> QED
      BY <1>5, <1>8, <2>1 DEF SerializeTransaction, Fit
  <1>10. PICK off \in Nat : off + 249 <= n /\ Holds(d, zero, Word(off)) /\ BodyHeld(d, off, x)
    BY <1>6, <1>9 DEF TxHeld
  <1>11. off = eight
    <2>1. Small(off) /\ Small(eight)
      BY <1>1, <1>9, <1>10 DEF Small, MaxWord
    <2>2. Holds(d, zero, Word(eight))
      BY <1>6, <1>9
    <2> QED
      BY <1>10, <2>1, <2>2, WordRead
  <1>12. Sent(d, x)
    BY <1>1, <1>6, <1>9, <1>10, <1>11, Zenon DEF Sent
  <1>13. DeserializeTransaction(d) = x
    <2>1. zero + 8 <= Len(d) /\ Small(Len(d))
      BY <1>1, <1>9, BodyFields
    <2>2. TxHeld(d, zero, x, eight) /\ x \in Values(TransactionBodyViewer)
      BY <1>6, <1>9 DEF Bodies
    <2>3. TransactionRead(d, zero) = x
      BY <2>1, <2>2, TxRead
    <2> QED
      BY <1>1, <2>3, Zenon DEF DeserializeTransaction
  <1> QED
    BY <1>9, <1>12, <1>13

(* What a datagram leaves: the fields of the area, and of the slices those *)
(* that are within the buffer.                                             *)
Part(y, x) ==
  \A name \in DOMAIN TransactionBodyViewer :
    \/ y[name] = x[name]
    \/ TransactionBodyViewer[name].slot /\ y[name] = <<>>

Starts(c, d, l) ==
  /\ c \in Seq(Nat) /\ Len(c) = l /\ l <= Len(d)
  /\ \A i \in 1..l : c[i] = d[i]

LEMMA StartHolds ==
  ASSUME NEW d \in Seq(Nat), NEW l \in Nat, NEW c, Starts(c, d, l), NEW at \in Nat,
         NEW bs \in Seq(Nat), Holds(d, at, bs), at + Len(bs) <= l
  PROVE  Holds(c, at, bs)
  BY HoldsInCut DEF Starts

LEMMA StartHoldsWord ==
  ASSUME NEW d \in Seq(Nat), NEW l \in Nat, NEW c, Starts(c, d, l), NEW at \in Nat,
         NEW n \in Nat, Holds(d, at, Word(n)), at + 4 <= l
  PROVE  Holds(c, at, Word(n))
  <1>1. PICK s \in Seq(Nat) : s = Word(n) /\ Len(s) = 4
    BY WordSeq
  <1>2. Holds(d, at, s) /\ at + Len(s) <= l
    BY <1>1
  <1>3. Holds(c, at, s)
    BY <1>2, StartHolds
  <1> QED
    BY <1>1, <1>3

LEMMA FieldInPart ==
  ASSUME NEW d \in Seq(Nat), NEW l \in Nat, 257 <= l, Small(Len(d)),
         NEW c \in Seq(Nat), Starts(c, d, l),
         NEW at \in Nat, at = 8, WordAt(c, at) = 249,
         NEW f, IsField(f), f.n \in Nat, f.at + (IF f.slot THEN 12 ELSE f.n) <= 249,
         NEW bs \in Seq(Nat), f.slot => Len(bs) <= f.n, ~f.slot => Len(bs) = f.n,
         NEW base \in Nat, NEW top \in Nat, top = Len(d), FieldHolds(d, at, f, bs, base, top)
  PROVE  Get(c, at, f) = bs \/ (f.slot /\ Get(c, at, f) = <<>>)
  <1>1. PICK p \in Nat, n \in Nat, k \in Nat : p = at + f.at /\ n = f.n /\ k = Len(bs)
    BY DEF IsField
  <1>2. l <= top
    BY DEF Starts
  <1>3. Small(l)
    BY <1>2 DEF Small, MaxWord
  <1>4. PICK size \in Nat : /\ size = 249 /\ WordAt(c, at) = size
                            /\ f.at + (IF f.slot THEN 12 ELSE f.n) <= size
    OBVIOUS
  <1>5. CASE ~f.slot
    <2>1. Holds(d, p, bs)
      BY <1>1, <1>5, Zenon DEF FieldHolds
    <2>2. p + Len(bs) <= l
      <3>1. PICK m \in Nat : m = f.at /\ m + n <= 249 /\ p = 8 + m /\ Len(bs) = n
        BY <1>1, <1>5 DEF IsField
      <3> QED
        BY <3>1
    <2>3. Holds(c, p, bs)
      BY <2>1, <2>2, StartHolds
    <2>4. FieldHolds(c, at, f, bs, base, l)
      BY <1>1, <1>5, <2>3, Zenon DEF FieldHolds
    <2> QED
      BY <1>4, <1>3, <2>4, FieldRead
  <1>6. CASE f.slot
    <2>1. PICK off \in Nat :
            /\ base <= off /\ off + k <= top /\ Holds(d, p, Word(off))
            /\ Holds(d, p + 4, Word(k)) /\ Holds(d, off, bs)
      BY <1>1, <1>6, Zenon DEF FieldHolds
    <2>2. p + 12 <= l
      <3>1. PICK m \in Nat : m = f.at /\ m + 12 <= 249 /\ p = 8 + m
        BY <1>1, <1>6 DEF IsField
      <3> QED
        BY <3>1
    <2>5. PICK q \in Nat : q = p + 4
      OBVIOUS
    <2>6. Holds(c, p, Word(off)) /\ Holds(c, q, Word(k))
      <3>1. p + 4 <= l /\ q + 4 <= l
        BY <2>2, <2>5
      <3> QED
        BY <2>1, <2>5, <3>1, StartHoldsWord
    <2>8. CASE off + k <= l
      <3>1. off + Len(bs) <= l
        BY <1>1, <2>8
      <3>2. Holds(c, off, bs)
        BY <2>1, <3>1, StartHolds
      <3>3. FieldHolds(c, at, f, bs, base, l)
        BY <1>1, <1>6, <2>1, <2>5, <2>6, <2>8, <3>2, Zenon DEF FieldHolds
      <3> QED
        BY <1>4, <1>3, <3>3, FieldRead
    <2>9. CASE ~(off + k <= l)
      <3>1. Small(off) /\ Small(k)
        <4>1. top <= MaxWord /\ off <= top /\ k <= top
          BY <2>1 DEF Small
        <4> QED
          BY <4>1 DEF Small, MaxWord
      <3>2. WordAt(c, p) = off /\ WordAt(c, q) = k
        BY <2>6, <3>1, WordRead
      <3>3. SliceAt(c, p, f.n) = <<>>
        <4>1. ~IsValidOffset(c, off, k)
          BY <2>9 DEF IsValidOffset, Starts
        <4> QED
          BY <2>5, <3>2, <4>1, Zenon DEF SliceAt
      <3>4. f.at + (IF f.slot THEN 12 ELSE f.n) <= WordAt(c, at)
        OBVIOUS
      <3> QED
        BY <1>1, <1>6, <3>3, <3>4, Zenon DEF Get
    <2> QED
      BY <2>8, <2>9
  <1> QED
    BY <1>5, <1>6

LEMMA DatagramFacts ==
  ASSUME NEW x \in Bodies, Fit(x)
  PROVE  Datagram(x) \in Bodies /\ Part(Datagram(x), x)
  <1>1. Datagram(x) \in Bodies
    BY Given, CutRead, Zenon DEF Datagram
  <1>2. PICK d \in Seq(Nat), n \in Nat :
          d = SerializeTransaction(x) /\ Sent(d, x) /\ n = Len(d) /\ 264 <= n /\ Small(n)
    <2>1. Sent(SerializeTransaction(x), x)
      BY SentFacts
    <2> QED
      BY <2>1, BodyFields DEF Sent
  <1>3. PICK l \in Nat : l = AtMost(n, udpBufferSize) /\ l <= n /\ 264 <= l
    BY <1>2, Given DEF AtMost
  <1>4. PICK c \in Seq(Nat) : IsPart(c, d, 1, l) /\ Len(c) = l /\ Starts(c, d, l)
    BY <1>2, <1>3, CutFirst DEF Starts
  <1>5. Datagram(x) = TransactionRead(c, 0)
    BY <1>2, <1>3, <1>4, Zenon DEF Datagram, DeserializeTransaction, IsPart
  <1>6. PICK eight \in Nat, zero \in Nat, size \in Nat :
          /\ eight = 8 /\ zero = 0 /\ size = 249 /\ Small(eight) /\ Small(size)
    BY DEF Small, MaxWord
  <1>7. WordAt(c, zero) = eight /\ WordAt(c, eight) = size
    <2>1. Holds(d, zero, Word(eight)) /\ Holds(d, eight, Word(size))
      BY <1>2, <1>6 DEF Sent, BodyHeld
    <2>2. zero + 4 <= l /\ eight + 4 <= l
      BY <1>3, <1>6
    <2>3. Holds(c, zero, Word(eight)) /\ Holds(c, eight, Word(size))
      BY <1>4, <2>1, <2>2, StartHoldsWord
    <2> QED
      BY <1>6, <2>3, WordRead
  <1>8. Datagram(x) = Read(c, eight, TransactionBodyViewer)
    <2>1. TransactionViewer(c, 0) = eight
      <3>1. 0 + 8 <= Len(c)
        BY <1>3, <1>4
      <3> QED
        BY <1>6, <1>7, <3>1 DEF TransactionViewer, IsValidOffset
    <2> QED
      BY <1>5, <2>1, Zenon DEF TransactionRead, TransactionBodyRead
  <1>9. Valid(c, eight)
    <2>1. eight + 8 <= Len(c) /\ eight + size <= Len(c)
      BY <1>3, <1>4, <1>6
    <2> QED
      BY <1>7, <2>1 DEF Valid, IsValidOffset
  <1>10. ASSUME NEW name \in DOMAIN TransactionBodyViewer
         PROVE  LET f == TransactionBodyViewer[name]
                IN \/ Get(c, eight, f) = x[name]
                   \/ f.slot /\ Get(c, eight, f) = <<>>
    <2>1. PICK f, bs : f = TransactionBodyViewer[name] /\ bs = x[name]
      OBVIOUS
    <2>2. bs \in Seq(Nat) /\ (f.slot => Len(bs) <= f.n) /\ (~f.slot => Len(bs) = f.n)
      BY <2>1 DEF Bodies, Values
    <2>3. PICK g : /\ g.name = name /\ Shows(f, g, size)
                   /\ FieldHolds(d, eight, g, bs, eight + 249, n)
      <3>1. Fits(TransactionBodyViewer, TransactionBodyFields, size)
        BY <1>6, TransactionBodyAgree, AgreeFits DEF Bodies
      <3>2. PICK j \in 1..Len(TransactionBodyFields) :
              /\ TransactionBodyFields[j].name = name
              /\ Shows(f, TransactionBodyFields[j], size)
        BY <2>1, <3>1, Zenon DEF Fits
      <3>3. AllHold(d, eight, x, TransactionBodyFields, eight + 249, n)
        BY <1>2, <1>6, Zenon DEF Sent, BodyHeld
      <3> QED
        BY <2>1, <3>2, <3>3, Zenon DEF AllHold
    <2>4. FieldHolds(d, eight, f, bs, eight + 249, n)
      BY <2>3, Zenon DEF FieldHolds, Shows
    <2>5. IsField(f) /\ f.n \in Nat /\ f.at + (IF f.slot THEN 12 ELSE f.n) <= size
      BY <2>3, Zenon DEF Shows
    <2>6. Get(c, eight, f) = bs \/ (f.slot /\ Get(c, eight, f) = <<>>)
      <3>1. PICK base \in Nat : base = eight + 249
        BY <1>6
      <3>2. 257 <= l /\ Small(Len(d))
        BY <1>2, <1>3
      <3>3. FieldHolds(d, eight, f, bs, base, n) /\ n = Len(d) /\ WordAt(c, eight) = 249
            /\ f.at + (IF f.slot THEN 12 ELSE f.n) <= 249
        BY <1>2, <1>6, <1>7, <2>4, <2>5, <3>1
      <3> QED
        BY <1>4, <1>6, <2>2, <2>5, <3>2, <3>3, FieldInPart
    <2> QED
      BY <2>1, <2>6
  <1>11. \A name \in DOMAIN TransactionBodyViewer :
           Datagram(x)[name] = Get(c, eight, TransactionBodyViewer[name])
    BY <1>8, <1>9 DEF Read
  <1>12. Part(Datagram(x), x)
    BY <1>10, <1>11, Zenon DEF Part
  <1> QED
    BY <1>1, <1>12

=============================================================================
