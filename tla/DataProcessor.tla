---------------------------- MODULE DataProcessor ----------------------------
(***************************************************************************)
(* The key/value store that transactions write to (core/data.go), and the  *)
(* publication of its changes (pubsub).  insertBlock sends a task for each *)
(* transaction of a block and then commits the block; the data processor   *)
(* applies the tasks to the database and appends an event for each; the    *)
(* event router writes every event to the websocket connections of its     *)
(* topic, one after the other.  All of them wait when the channel behind   *)
(* them is full.  A crash keeps the blocks and the entries only.           *)
(*                                                                         *)
(* An address has one key here, so that it names an entry and a topic.  A  *)
(* value is a text, a JSON map or a JSON array of maps.                    *)
(***************************************************************************)
EXTENDS Integers, Sequences, FiniteSets, FiniteSetsExt

CONSTANTS
  Addr, Conn, None,
  Topic,          \* the address each connection subscribes to
  Tasks,          \* the data commands of the chain, in order:
                  \* [opt, addr, value]
  BlockEnd,       \* BlockEnd[n] tasks are in the first n blocks
  TaskCap,        \* taskChannelSize (10240)
  PublishCap,     \* capacity of publishChan (256)
  ConnPoolSize,   \* connPoolSize (128)
  MaxCrashes      \* bound of the scenario

Text == [kind |-> "text"]
Missing == [kind |-> "missing"]
MapOf(m) == [kind |-> "map", map |-> m]
ArrayOf(s) == [kind |-> "array", maps |-> s]
IsMap(v) == v.kind = "map"
IsArray(v) ==
  /\ v = ArrayOf(v.maps) /\ Len(v.maps) \in Nat
  /\ v.maps = [i \in 1..Len(v.maps) |-> v.maps[i]]

ASSUME DataAssumption ==
  /\ Topic \in [Conn -> Addr] /\ None \notin Conn
  /\ Len(Tasks) \in Nat
  /\ \A i \in 1..Len(Tasks) :
       /\ Tasks[i].opt \in {"set", "append"} /\ Tasks[i].addr \in Addr
       /\ Tasks[i].value.kind \in {"text", "map", "array"}
       /\ Tasks[i].value.kind = "array" => IsArray(Tasks[i].value)
  /\ BlockEnd \in Seq(0..Len(Tasks)) /\ BlockEnd # <<>>
  /\ BlockEnd[Len(BlockEnd)] = Len(Tasks)
  /\ \A i, j \in 1..Len(BlockEnd) : i <= j => BlockEnd[i] <= BlockEnd[j]
  /\ TaskCap \in Nat \ {0} /\ PublishCap \in Nat \ {0}
  /\ ConnPoolSize \in Nat \ {0} /\ MaxCrashes \in Nat

VARIABLES
  stored, sent,             \* insertBlock: blocks committed, tasks sent
  taskChannel,              \* numbers of tasks
  entries,                  \* durable: address -> value
  dpPc, dpTask, dpValue,    \* data processor: step, task, value to publish
  publishChan,
  pos, event,               \* router: next slot, the event being written
  conns, count,             \* topic -> slots, topic -> number in use
  state, inbox,             \* connection: state, events received
  events,                   \* history: events appended since the start
  crashes

chainVars == <<stored, sent, taskChannel>>
dpVars == <<dpPc, dpTask, dpValue>>
routerVars == <<pos, event>>
poolVars == <<conns, count>>
clientVars == <<state, inbox>>
vars == <<chainVars, entries, dpVars, publishChan, routerVars, poolVars,
          clientVars, events, crashes>>

Slot == 1..ConnPoolSize
NoEvent == [addr |-> None, task |-> 0, value |-> Missing]

TypeOK ==
  /\ stored \in 0..Len(BlockEnd) /\ sent \in 0..Len(Tasks)
  /\ taskChannel \in Seq(1..Len(Tasks)) /\ Len(taskChannel) <= TaskCap
  /\ \A a \in Addr : entries[a].kind \in {"missing", "text", "map", "array"}
  /\ dpPc \in {"idle", "write", "event"} /\ dpTask \in 0..Len(Tasks)
  /\ Len(publishChan) <= PublishCap
  /\ pos \in 0..(ConnPoolSize + 1)
  /\ conns \in [Addr -> [Slot -> Conn \cup {None}]]
  /\ count \in [Addr -> 0..ConnPoolSize]
  /\ state \in [Conn -> {"new", "open", "stalled", "gone"}]

Init ==
  /\ stored = 0 /\ sent = 0 /\ taskChannel = <<>>
  /\ entries = [a \in Addr |-> Missing]
  /\ dpPc = "idle" /\ dpTask = 0 /\ dpValue = Missing
  /\ publishChan = <<>> /\ pos = 0 /\ event = NoEvent
  /\ conns = [a \in Addr |-> [i \in Slot |-> None]]
  /\ count = [a \in Addr |-> 0]
  /\ state = [c \in Conn |-> "new"] /\ inbox = [c \in Conn |-> <<>>]
  /\ events = <<>> /\ crashes = 0

-----------------------------------------------------------------------------
(* insertBlock                                                             *)

SendTask ==
  /\ stored < Len(BlockEnd) /\ sent < BlockEnd[stored + 1]
  /\ Len(taskChannel) < TaskCap
  /\ sent' = sent + 1
  /\ taskChannel' = Append(taskChannel, sent + 1)
  /\ UNCHANGED <<stored, entries, dpVars, publishChan, routerVars, poolVars,
                 clientVars, events, crashes>>

BatchInsert ==
  /\ stored < Len(BlockEnd) /\ sent = BlockEnd[stored + 1]
  /\ stored' = stored + 1
  /\ UNCHANGED <<sent, taskChannel, entries, dpVars, publishChan, routerVars,
                 poolVars, clientVars, events, crashes>>

-----------------------------------------------------------------------------
(* The data processor                                                      *)

Task == Tasks[dpTask]

Run ==
  /\ dpPc = "idle" /\ taskChannel # <<>>
  /\ dpTask' = Head(taskChannel)
  /\ taskChannel' = Tail(taskChannel)
  /\ dpPc' = "write"
  /\ UNCHANGED <<stored, sent, entries, dpValue, publishChan, routerVars,
                 poolVars, clientVars, events, crashes>>

(* A map is published as an array of one, and stored as it came.           *)
setData ==
  /\ dpPc = "write" /\ Task.opt = "set"
  /\ entries' = [entries EXCEPT ![Task.addr] = Task.value]
  /\ dpValue' = IF IsMap(Task.value) THEN ArrayOf(<<Task.value.map>>)
                ELSE Task.value
  /\ dpPc' = "event"
  /\ UNCHANGED <<chainVars, dpTask, publishChan, routerVars, poolVars,
                 clientVars, events, crashes>>

(* Mutant: the entry is replaced.                                          *)
ExtendedFresh(v, w) == ArrayOf(<<w.map>>)

(* An append needs a map, and an entry that is missing or an array.        *)
Appends(v, w) == IsMap(w) /\ v.kind \in {"missing", "array"}
Extended(v, w) ==
  ArrayOf(IF v.kind = "array" THEN Append(v.maps, w.map) ELSE <<w.map>>)

appendData ==
  /\ dpPc = "write" /\ Task.opt = "append"
  /\ LET new == Extended(entries[Task.addr], Task.value)
     IN /\ Appends(entries[Task.addr], Task.value)
        /\ entries' = [entries EXCEPT ![Task.addr] = new]
        /\ dpValue' = new
  /\ dpPc' = "event"
  /\ UNCHANGED <<chainVars, dpTask, publishChan, routerVars, poolVars,
                 clientVars, events, crashes>>

AppendError ==
  /\ dpPc = "write" /\ Task.opt = "append"
  /\ ~Appends(entries[Task.addr], Task.value)
  /\ dpPc' = "idle"
  /\ UNCHANGED <<chainVars, entries, dpTask, dpValue, publishChan, routerVars,
                 poolVars, clientVars, events, crashes>>

AppendEvent ==
  /\ dpPc = "event" /\ Len(publishChan) < PublishCap
  /\ LET e == [addr |-> Task.addr, task |-> dpTask, value |-> dpValue]
     IN publishChan' = Append(publishChan, e) /\ events' = Append(events, e)
  /\ dpPc' = "idle" /\ dpValue' = Missing
  /\ UNCHANGED <<chainVars, entries, dpTask, routerVars, poolVars, clientVars,
                 crashes>>

-----------------------------------------------------------------------------
(* The event router.  It holds its lock for reading while it publishes,    *)
(* HandleConnect takes it for writing.                                     *)

InUse(a) == {i \in Slot : conns[a][i] # None}

(* Mutant: the router waits until somebody subscribes.                     *)
HasEventWaits ==
  publishChan # <<>> /\ InUse(Head(publishChan).addr) # {}
HasEvent == publishChan # <<>>

(* An event without a subscriber is dropped.                               *)
Process ==
  /\ pos = 0 /\ HasEvent
  /\ publishChan' = Tail(publishChan)
  /\ IF InUse(Head(publishChan).addr) = {} THEN UNCHANGED routerVars
     ELSE event' = Head(publishChan) /\ pos' = 1
  /\ UNCHANGED <<chainVars, entries, dpVars, poolVars, clientVars, events,
                 crashes>>

Receiver == conns[event.addr][pos]

(* A write to a peer that went away may still succeed.                     *)
Publish ==
  /\ pos \in Slot
  /\ IF Receiver = None THEN UNCHANGED inbox
     ELSE /\ state[Receiver] # "stalled"
          /\ inbox' = IF state[Receiver] = "gone" THEN inbox
                      ELSE [inbox EXCEPT ![Receiver] = Append(@, event)]
  /\ pos' = pos + 1
  /\ UNCHANGED <<chainVars, entries, dpVars, publishChan, event, poolVars,
                 state, events, crashes>>

(* Mutants: the connection stays in its slot; the failure ends the loop    *)
(* over the connections.                                                   *)
FreedNot(a, i) == conns
NextPosBreak == ConnPoolSize + 1

Freed(a, i) == [conns EXCEPT ![a][i] = None]
CountedBack(a) == [count EXCEPT ![a] = @ - 1]
NextPos == pos + 1

(* A failed write gives the slot back.                                     *)
PublishFails ==
  /\ pos \in Slot /\ Receiver # None
  /\ state[Receiver] = "gone"
  /\ conns' = Freed(event.addr, pos)
  /\ count' = CountedBack(event.addr)
  /\ pos' = NextPos
  /\ UNCHANGED <<chainVars, entries, dpVars, publishChan, event, clientVars,
                 events, crashes>>

PublishEnd ==
  /\ pos = ConnPoolSize + 1
  /\ pos' = 0 /\ event' = NoEvent
  /\ UNCHANGED <<chainVars, entries, dpVars, publishChan, poolVars,
                 clientVars, events, crashes>>

SelectPosition(a) == Min(Slot \ InUse(a))

Full(a) == count[a] >= ConnPoolSize

HandleConnect(c) ==
  /\ state[c] = "new" /\ pos = 0
  /\ IF Full(Topic[c])
       THEN state' = [state EXCEPT ![c] = "gone"] /\ UNCHANGED poolVars
       ELSE /\ state' = [state EXCEPT ![c] = "open"]
            /\ IF InUse(Topic[c]) = Slot THEN UNCHANGED poolVars
               ELSE /\ conns' = [conns EXCEPT
                                  ![Topic[c]][SelectPosition(Topic[c])] = c]
                    /\ count' = [count EXCEPT ![Topic[c]] = @ + 1]
  /\ UNCHANGED <<chainVars, entries, dpVars, publishChan, routerVars, inbox,
                 events, crashes>>

(* The client goes away, or stops to read while its connection stays.      *)
ClientLeaves(c) ==
  /\ state[c] \in {"open", "stalled"}
  /\ state' = [state EXCEPT ![c] = "gone"]
  /\ UNCHANGED <<chainVars, entries, dpVars, publishChan, routerVars,
                 poolVars, inbox, events, crashes>>

ClientStalls(c) ==
  /\ state[c] = "open"
  /\ state' = [state EXCEPT ![c] = "stalled"]
  /\ UNCHANGED <<chainVars, entries, dpVars, publishChan, routerVars,
                 poolVars, inbox, events, crashes>>

-----------------------------------------------------------------------------
(* The process dies; the tasks of the next block will be sent (again).     *)
Crash ==
  /\ crashes < MaxCrashes
  /\ crashes' = crashes + 1
  /\ sent' = IF stored = 0 THEN 0 ELSE BlockEnd[stored]
  /\ taskChannel' = <<>> /\ publishChan' = <<>> /\ events' = <<>>
  /\ dpPc' = "idle" /\ dpTask' = 0 /\ dpValue' = Missing
  /\ pos' = 0 /\ event' = NoEvent
  /\ conns' = [a \in Addr |-> [i \in Slot |-> None]]
  /\ count' = [a \in Addr |-> 0]
  /\ state' = [c \in Conn |-> IF state[c] = "new" THEN "new" ELSE "gone"]
  /\ inbox' = [c \in Conn |-> <<>>]
  /\ UNCHANGED <<stored, entries>>

insertBlock == SendTask \/ BatchInsert
Processor == Run \/ setData \/ appendData \/ AppendError \/ AppendEvent
Router == Process \/ Publish \/ PublishFails \/ PublishEnd

Next ==
  \/ insertBlock \/ Processor \/ Router
  \/ \E c \in Conn : HandleConnect(c) \/ ClientLeaves(c) \/ ClientStalls(c)
  \/ Crash

Fairness ==
  /\ WF_vars(insertBlock) /\ WF_vars(Processor) /\ WF_vars(Router)

Spec == Init /\ [][Next]_vars
FairSpec == Spec /\ Fairness

-----------------------------------------------------------------------------
(* What the first n commands of the chain make of an address: the last     *)
(* set, and the maps appended since, if they can be appended to it.        *)
Sets(a, n) == {i \in 1..n : Tasks[i].opt = "set" /\ Tasks[i].addr = a}
LastSet(a, n) == IF Sets(a, n) = {} THEN 0 ELSE Max(Sets(a, n))
Appended(a, n) ==
  {i \in 1..n : /\ i > LastSet(a, n) /\ Tasks[i].addr = a
                /\ Tasks[i].opt = "append" /\ IsMap(Tasks[i].value)}

(* The k-th of a set of commands, in chain order, and their maps.          *)
Nth(S, k) == CHOOSE i \in S : Cardinality({j \in S : j <= i}) = k
MapsOf(S) == [k \in 1..Cardinality(S) |-> Tasks[Nth(S, k)].value.map]

Reference(a, n) ==
  LET base == IF LastSet(a, n) = 0 THEN Missing ELSE Tasks[LastSet(a, n)].value
      maps == MapsOf(Appended(a, n))
  IN CASE base.kind \in {"text", "map"} -> base
       [] base.kind = "array" -> ArrayOf(base.maps \o maps)
       [] base.kind = "missing" ->
            IF maps = <<>> THEN Missing ELSE ArrayOf(maps)

(* Commands the data processor is done with.                               *)
Applied == sent - Len(taskChannel) - IF dpPc = "write" THEN 1 ELSE 0

(* While the process lives, the entries are what the commands of the chain *)
(* make of them in chain order, up to the point the data processor has     *)
(* reached, however the channels fill up.                                  *)
EntriesFollowChain ==
  crashes = 0 => \A a \in Addr : entries[a] = Reference(a, Applied)

(* Commands are published at most once each and in chain order.            *)
EventsInTurn ==
  \A i, j \in 1..Len(events) : i < j => events[i].task < events[j].task

(* A subscriber receives the events of its topic in order and once each,   *)
(* and none is missing between two that it received, whatever happens to   *)
(* the connections beside its own.                                         *)
InboxContiguous ==
  \A c \in Conn :
    LET box == inbox[c]
    IN /\ \A i, j \in 1..Len(box) : i < j => box[i].task < box[j].task
       /\ \A i \in 1..Len(box) : \E n \in 1..Len(events) :
            box[i] = events[n] /\ events[n].addr = Topic[c]
       /\ \A i, j \in 1..Len(box), n \in 1..Len(events) :
            /\ events[n].addr = Topic[c]
            /\ box[i].task < events[n].task /\ events[n].task < box[j].task
            => \E k \in 1..Len(box) : box[k] = events[n]

(* A topic's counter is the number of its slots in use, and a connection   *)
(* has one slot: connections are refused only if the slots are taken, and  *)
(* an open connection is one that events are written to.                   *)
SlotsCounted ==
  /\ \A a \in Addr : count[a] = Cardinality(InUse(a))
  /\ \A c \in Conn : state[c] \in {"open", "stalled"} =>
       Cardinality({i \in Slot : conns[Topic[c]][i] = c}) = 1

(* Clients may come, leave and fail in any order: the slots are those of   *)
(* the open connections, and each of them gets every event of its topic.   *)
SubscribersServed == EventsInTurn /\ InboxContiguous /\ SlotsCounted

(* The chain is stored to its end, although insertBlock waits for the data *)
(* processor and that for the router: unless a subscriber stops to read,   *)
(* on which all of them wait.                                              *)
ChainStored ==
  <>(stored = Len(BlockEnd) \/ \E c \in Conn : state[c] = "stalled")

(* core/data.go:98: a map is wrapped into an array so that it can be       *)
(* appended to; no entry holds a bare map.                                 *)
MapsWrapped == \A a \in Addr : ~IsMap(entries[a])
=============================================================================
