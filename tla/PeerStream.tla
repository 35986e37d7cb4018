----------------------------- MODULE PeerStream ------------------------------
(***************************************************************************)
(* Two connected nodes and the goroutines of their peer instances: readLoop*)
(* and writeLoop (p2p/peer.go), Handle and sendStatus (node/peer.go), the  *)
(* handlers Handle starts, one goroutine each (node/handler_funcs.go), and *)
(* the time syncer's routine (node/time_syncer.go).  All of them wait on   *)
(* channels of fixed size.                                                 *)
(*                                                                         *)
(* Messages are those of the status and the time requests; module          *)
(* BlockSyncer has the block requests, and no goroutine sends pings.       *)
(* readLoop only moves messages from the transport to msgQueue, so the two *)
(* are one queue here.                                                     *)
(***************************************************************************)
EXTENDS TimeSyncer, Sequences, FiniteSets, Functions, Bags

CONSTANTS
  Node,            \* the two ends of the stream
  GenesisNode,     \* those started with the genesis flag
  Skew,            \* each node's physical clock, and InitialDelta
  SendCap,         \* messageQueueCap of p2p
  RecvCap,         \* what the transport and msgQueue hold
  StatusTicks,     \* bound: each node's ticks of sendStatus until its block
                   \* syncer is synced
  MaxOpen          \* bound: time requests of one node under way

ASSUME PeerAssumption ==
  /\ IsFiniteSet(Node) /\ Cardinality(Node) = 2
  /\ GenesisNode \subseteq Node
  /\ Skew \in [Node -> Int]
  /\ {SendCap, RecvCap, MaxOpen} \subseteq Nat \ {0}
  /\ StatusTicks \in [Node -> Nat]

Other(n) == CHOOSE o \in Node : o # n

VARIABLES
  connected,          \* the transport works
  sendQueue,
  msgQueue,           \* written to the transport and not handled
  broken,             \* the writer keeps an error of an earlier flush
  stopped,
  handling,           \* Handle has not returned
  handlers,           \* bag of the running handlers, by their message
  ticks,              \* ticks of sendStatus left
  ts,                 \* the time syncers
  open                \* time requests under way

queues == <<sendQueue, msgQueue>>
timeVars == <<ts, open>>
vars == <<connected, queues, broken, stopped, handling, handlers, ticks,
          timeVars>>

Code == {"statusReq", "statusMsg", "timeReq", "timeRsp"}
Msg(c) == [code |-> c, out |-> 0, back |-> 0]

IsMsg(m) == m.code \in Code /\ m.out \in Int /\ m.back \in Int
AllMsgs(q, cap) == Len(q) <= cap /\ \A i \in 1..Len(q) : IsMsg(q[i])

TypeOK ==
  /\ connected \in BOOLEAN
  /\ \A n \in Node :
       /\ AllMsgs(sendQueue[n], SendCap) /\ AllMsgs(msgQueue[n], RecvCap)
       /\ IsABag(handlers[n]) /\ \A m \in BagToSet(handlers[n]) : IsMsg(m)
       /\ ticks[n] \in 0..StatusTicks[n]
       /\ ts[n].status \in {"INITIAL", "CONFIRMING", "SYNCED"}
       /\ ts[n].confirmTimes \in 0..confirmThreshold
       /\ open[n] \in 0..MaxOpen
  /\ {broken, stopped, handling} \subseteq [Node -> BOOLEAN]

(* NewPeer at both ends *)
Init ==
  /\ connected = TRUE
  /\ sendQueue = [n \in Node |-> <<>>] /\ msgQueue = sendQueue
  /\ broken = [n \in Node |-> FALSE] /\ stopped = broken
  /\ handling = [n \in Node |-> TRUE]
  /\ handlers = [n \in Node |-> EmptyBag]
  /\ ticks = StatusTicks
  /\ ts = [n \in Node |-> NewTimeSyncer(n \in GenesisNode)]
  /\ open = [n \in Node |-> 0]

-----------------------------------------------------------------------------
(* Mutant: a full queue is not noticed.                                    *)
SendOver(n, m) ==
  /\ Len(sendQueue[n]) <= SendCap
  /\ sendQueue' = [sendQueue EXCEPT ![n] = Append(@, m)]

(* Send: a channel operation that waits for room.                          *)
Send(n, m) ==
  /\ Len(sendQueue[n]) < SendCap
  /\ sendQueue' = [sendQueue EXCEPT ![n] = Append(@, m)]

(* sendStatus; Stopped is looked at before the next tick.                  *)
sendStatus(n) ==
  /\ ticks[n] > 0
  /\ Send(n, Msg("statusReq"))
  /\ ticks' = [ticks EXCEPT ![n] = IF stopped[n] THEN 0 ELSE @ - 1]
  /\ UNCHANGED <<connected, msgQueue, broken, stopped, handling, handlers,
                 timeVars>>

GetLogicClock(n) == Skew[n] + ts[n].delta

(* syncRoutine, which asks stopped peers too.  A request whose stamp waits *)
(* for room is like one that waits in the queue.                           *)
requestTimeSync(n) ==
  /\ n \notin GenesisNode /\ open[n] < MaxOpen
  /\ Send(n, [Msg("timeReq") EXCEPT !.out = -GetLogicClock(n)])
  /\ open' = [open EXCEPT ![n] = @ + 1]
  /\ UNCHANGED <<connected, msgQueue, broken, stopped, handling, handlers,
                 ticks, ts>>

-----------------------------------------------------------------------------
(* writeLoop, which runs until it has set stopped itself.                  *)
Take(n) ==
  /\ ~stopped[n] /\ sendQueue[n] # <<>>
  /\ sendQueue' = [sendQueue EXCEPT ![n] = Tail(@)]
  /\ UNCHANGED <<connected, handling, handlers, ticks, timeVars>>

(* ... and the readLoop of the other end.                                  *)
Write(n) ==
  LET o == Other(n)
  IN /\ Take(n) /\ connected /\ Len(msgQueue[o]) < RecvCap
     /\ msgQueue' = [msgQueue EXCEPT ![o] = Append(@, Head(sendQueue[n]))]
     /\ UNCHANGED <<broken, stopped>>

(* A short message only fills the buffer; the error of Flush is dropped    *)
(* and the next Write returns it.                                          *)
WriteLost(n) ==
  /\ Take(n) /\ ~connected /\ ~broken[n]
  /\ broken' = [broken EXCEPT ![n] = TRUE]
  /\ UNCHANGED <<msgQueue, stopped>>

(* Mutant: the error of Write is dropped like that of Flush.               *)
WriteIgnored(n) ==
  /\ Take(n) /\ ~connected
  /\ UNCHANGED <<msgQueue, broken, stopped>>

WriteFails(n) ==
  /\ Take(n) /\ ~connected
  /\ stopped' = [stopped EXCEPT ![n] = TRUE]
  /\ UNCHANGED <<msgQueue, broken>>

writeLoop(n) == Write(n) \/ WriteLost(n) \/ WriteFails(n)

(* The transport fails and loses what it holds; readLoop returns and tells *)
(* nobody.  What msgQueue holds then is handled before or not at all.      *)
Disconnect ==
  /\ connected
  /\ connected' = FALSE
  /\ msgQueue' = [n \in Node |-> <<>>]
  /\ UNCHANGED <<sendQueue, broken, stopped, handling, handlers, ticks,
                 timeVars>>

-----------------------------------------------------------------------------
(* A handler first reads the clock: RecReqTime and RspTime of a request,   *)
(* RecRspTime of a response, before syncerLock is taken.                   *)
Stamped(n, m) ==
  CASE m.code = "timeReq" -> [m EXCEPT !.out = @ + GetLogicClock(n),
                                       !.back = GetLogicClock(n)]
    [] m.code = "timeRsp" -> [m EXCEPT !.back = @ - GetLogicClock(n)]
    [] OTHER -> m

(* The block syncer takes a status message or its handler waits, and       *)
(* nobody waits for that handler.                                          *)
Start(n, m) ==
  IF m.code = "statusMsg" THEN handlers[n]
  ELSE handlers[n] (+) SetToBag({Stamped(n, m)})

(* Mutant: Handle calls the handler itself.                                *)
HandlesInline(n) == handling[n] /\ handlers[n] = EmptyBag
Handles(n) == handling[n]

(* Handle starts a handler and looks at Stopped.                           *)
Handle(n) ==
  /\ Handles(n) /\ msgQueue[n] # <<>>
  /\ handlers' = [handlers EXCEPT ![n] = Start(n, Head(msgQueue[n]))]
  /\ msgQueue' = [msgQueue EXCEPT ![n] = Tail(@)]
  /\ handling' = [handling EXCEPT ![n] = ~stopped[n]]
  /\ UNCHANGED <<connected, sendQueue, broken, stopped, ticks, timeVars>>

Running(n, m, c) == m \in BagToSet(handlers[n]) /\ m.code = c
Done(n, m) == handlers' = [handlers EXCEPT ![n] = @ (-) SetToBag({m})]

handleSyncStatusReq(n, m) ==
  /\ Running(n, m, "statusReq")
  /\ Send(n, Msg("statusMsg")) /\ Done(n, m)
  /\ UNCHANGED <<connected, msgQueue, broken, stopped, handling, ticks,
                 timeVars>>

handleTimeSyncReq(n, m) ==
  /\ Running(n, m, "timeReq")
  /\ Send(n, [m EXCEPT !.code = "timeRsp"]) /\ Done(n, m)
  /\ UNCHANGED <<connected, msgQueue, broken, stopped, handling, ticks,
                 timeVars>>

handleTimeSyncRsp(n, m) ==
  /\ Running(n, m, "timeRsp") /\ Done(n, m)
  /\ ts' = [ts EXCEPT ![n] = ProcessSyncRespond(@, m)]
  /\ open' = [open EXCEPT ![n] = @ - 1]
  /\ UNCHANGED <<connected, queues, broken, stopped, handling, ticks>>

Handler(n, m) ==
  \/ handleSyncStatusReq(n, m) \/ handleTimeSyncReq(n, m)
  \/ handleTimeSyncRsp(n, m)

Next ==
  \/ \E n \in Node :
       \/ sendStatus(n) \/ requestTimeSync(n)
       \/ writeLoop(n) \/ Handle(n)
       \/ \E m \in BagToSet(handlers[n]) : Handler(n, m)
  \/ Disconnect

(***************************************************************************)
(* The loops and tickers run on, and a goroutine that waits to send gets   *)
(* its turn: Go serves the senders of a channel in their order.  Nothing   *)
(* makes the transport fail.                                               *)
(***************************************************************************)
HandlerOf(n, c) == \E m \in BagToSet(handlers[n]) : m.code = c /\ Handler(n, m)

Fairness ==
  /\ \A n \in Node :
       /\ SF_vars(sendStatus(n)) /\ WF_vars(writeLoop(n)) /\ WF_vars(Handle(n))
       /\ SF_vars(HandlerOf(n, "statusReq"))
  /\ \A n \in Node \ GenesisNode :
       /\ SF_vars(requestTimeSync(n))
       /\ SF_vars(HandlerOf(Other(n), "timeReq"))
       /\ WF_vars(HandlerOf(n, "timeRsp"))

Spec == Init /\ [][Next]_vars
FairSpec == Spec /\ Fairness

-----------------------------------------------------------------------------
(* A node's clock is adjusted by the offset to the genesis node once,      *)
(* however many requests were stamped before and are answered after the    *)
(* adjustment; what stays is the rounding of the two halves.               *)
ClockAgrees ==
  \A n \in Node \ GenesisNode :
    ts[n].status # "INITIAL" =>
      \A g \in GenesisNode : abs(GetLogicClock(n) - Skew[g]) <= 1

(* What it takes: an offset of which already half is no near answer.  A    *)
(* request stamped before the adjustment and answered after it says half.  *)
OffsetClear ==
  \A n \in Node \ GenesisNode, g \in GenesisNode :
    LET half == Half(Skew[g] - Skew[n])
    IN  half = 0 \/ abs(half) >= availableThreshold

StatusWork(n) ==
  \/ ticks[n] > 0
  \/ \E m \in Range(sendQueue[n]) \cup Range(msgQueue[n])
              \cup BagToSet(handlers[n]) :
       m.code \in {"statusReq", "statusMsg"}

(* While the transport works no goroutine waits forever on the channels,   *)
(* full as they are in both directions: every status request is sent and   *)
(* answered.                                                               *)
StatusAnswered ==
  (\E n \in Node : StatusWork(n))
    ~> ((\A n \in Node : ~StatusWork(n)) \/ ~connected)

(* node/time_syncer.go:144: a node whose peer stays becomes synced.        *)
TimeSynced ==
  \A n \in Node \ GenesisNode : connected ~> (ts[n].status = "SYNCED" \/ ~connected)

(* Both kinds of request get through while the stream stands.              *)
RequestsServed == StatusAnswered /\ TimeSynced

(* A writer that lost a message to a dropped error of Flush learns with    *)
(* the next message that the transport failed.                             *)
StopNoticed ==
  \A n \in Node : (broken[n] /\ sendQueue[n] # <<>>) ~> stopped[n]
=============================================================================
