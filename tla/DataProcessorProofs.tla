------------------------- MODULE DataProcessorProofs -------------------------
(***************************************************************************)
(* The data processor and the event router, for every chain of commands,   *)
(* any connections and topics and every capacity: commands are applied in  *)
(* turn, the entries are what they make of them, and a topic's slots are   *)
(* those of its open connections.                                          *)
(***************************************************************************)
EXTENDS DataProcessor, FiniteSetTheorems, SequenceTheorems,
        WellFoundedInduction, TLAPS

LEMMA MinFacts ==
  ASSUME NEW S \in SUBSET Nat, S # {}
  PROVE  Min(S) \in S /\ \A y \in S : Min(S) =< y
  <1>1. \E x \in S : \A y \in S : <<y, x>> \notin OpToRel(<, Nat)
    BY NatLessThanWellFounded, WFMin
  <1>2. ASSUME NEW x \in Nat, NEW y \in Nat, y < x
        PROVE  <<y, x>> \in OpToRel(<, Nat)
    <2>1. <<y, x>> \in Nat \X Nat /\ <<y, x>>[1] < <<y, x>>[2]
      BY <1>2
    <2> QED
      BY <2>1, Zenon DEF OpToRel
  <1>3. PICK x \in S : \A y \in S : <<y, x>> \notin OpToRel(<, Nat)
    BY <1>1
  <1>4. ASSUME NEW y \in S
        PROVE  x =< y
    <2>1. ~(y < x)
      BY <1>2, <1>3, Zenon
    <2> QED
      BY <2>1
  <1> QED
    BY <1>4 DEF Min

LEMMA SlotFacts ==
  /\ ConnPoolSize \in Nat \ {0} /\ Slot \subseteq Nat
  /\ IsFiniteSet(Slot) /\ Cardinality(Slot) = ConnPoolSize
  <1>1. ConnPoolSize \in Nat \ {0} /\ 1 \in Int /\ ConnPoolSize \in Int
    BY DataAssumption
  <1>2. IsFiniteSet(1..ConnPoolSize)
    BY <1>1, FS_Interval, Zenon
  <1>3. Cardinality(1..ConnPoolSize) = ConnPoolSize
    <2>1. Cardinality(1..ConnPoolSize)
            = IF 1 > ConnPoolSize THEN 0 ELSE ConnPoolSize - 1 + 1
      BY <1>1, FS_Interval, Zenon
    <2> QED
      BY <1>1, <2>1
  <1> QED
    BY <1>1, <1>2, <1>3 DEF Slot

(* A value is a sequence; what its elements are does not matter.           *)
IsSeq(s) == \E S : s \in Seq(S)

LEMMA IsSeqFacts ==
  ASSUME NEW s, IsSeq(s), NEW e
  PROVE  /\ IsSeq(Append(s, e)) /\ Len(s) \in Nat
         /\ Len(Append(s, e)) = Len(s) + 1
         /\ Append(s, e)[Len(s) + 1] = e
         /\ \A i \in 1..Len(s) : Append(s, e)[i] = s[i]
         /\ s # <<>> => /\ IsSeq(Tail(s)) /\ Len(Tail(s)) = Len(s) - 1
                        /\ Len(s) > 0 /\ Head(s) = s[1]
                        /\ \A i \in 1..(Len(s) - 1) : Tail(s)[i] = s[i + 1]
  <1>1. PICK S : s \in Seq(S)
    BY DEF IsSeq
  <1> DEFINE T == S \cup {e}
  <1>2. s \in Seq(T) /\ e \in T
    BY <1>1
  <1>3. Append(s, e) \in Seq(T)
    BY <1>2
  <1>4. s # <<>> => Tail(s) \in Seq(S)
    BY <1>1
  <1>5. IsSeq(Append(s, e)) /\ (s # <<>> => IsSeq(Tail(s)))
    BY <1>3, <1>4 DEF IsSeq
  <1> HIDE DEF T
  <1> QED
    BY <1>1, <1>2, <1>5

-----------------------------------------------------------------------------
ChainInv ==
  /\ stored \in 0..Len(BlockEnd) /\ sent \in 0..Len(Tasks)
  /\ stored < Len(BlockEnd) => sent <= BlockEnd[stored + 1]
  /\ taskChannel \in Seq(1..Len(Tasks)) /\ Len(taskChannel) <= TaskCap
  /\ entries = [a \in Addr |-> entries[a]]
  /\ \A a \in Addr : entries[a].kind \in {"missing", "text", "map", "array"}

(* The tasks in the channel are the last ones sent, and the processor has  *)
(* the one before them.                                                    *)
Taken == sent - Len(taskChannel)

TurnInv ==
  /\ dpPc \in {"idle", "write", "event"} /\ dpTask \in 0..Len(Tasks)
  /\ \A i \in 1..Len(taskChannel) : taskChannel[i] = Taken + i
  /\ dpPc # "idle" => dpTask = Taken /\ dpTask # 0

(* Events the router has taken.                                            *)
Routed == Len(events) - Len(publishChan)

EventInv ==
  /\ IsSeq(events) /\ IsSeq(publishChan)
  /\ Len(publishChan) <= PublishCap /\ Len(publishChan) <= Len(events)
  /\ \A i \in 1..Len(publishChan) : publishChan[i] = events[Routed + i]
  /\ \A i \in 1..Len(events) : /\ events[i].addr \in Addr
                               /\ events[i].task \in Nat
                               /\ events[i].task <= Taken
                               /\ dpPc # "idle" => events[i].task < Taken
  /\ EventsInTurn

RouterInv ==
  /\ pos \in 0..(ConnPoolSize + 1)
  /\ pos # 0 => Routed >= 1 /\ event = events[Routed]

Live(c) == state[c] \in {"open", "stalled"}

(* A connection is in one slot, of its own topic, from its acceptance on;  *)
(* only one that went away may have lost it.                               *)
SlotInv ==
  /\ conns \in [Addr -> [Slot -> Conn \cup {None}]]
  /\ count \in [Addr -> 0..ConnPoolSize]
  /\ state \in [Conn -> {"new", "open", "stalled", "gone"}]
  /\ \A a \in Addr : count[a] = Cardinality(InUse(a))
  /\ \A a \in Addr, i \in Slot : conns[a][i] # None =>
       /\ Topic[conns[a][i]] = a /\ state[conns[a][i]] # "new"
       /\ \A j \in Slot : conns[a][j] = conns[a][i] => j = i
  /\ \A c \in Conn : Live(c) => \E i \in Slot : conns[Topic[c]][i] = c

(* The router has still to write its event to the connection.              *)
Pending(c) ==
  /\ pos \in Slot /\ Topic[c] = event.addr
  /\ \E i \in Slot : i >= pos /\ conns[Topic[c]][i] = c

Held(c, n) == \E k \in 1..Len(inbox[c]) : inbox[c][k] = events[n]

(* What a connection has is routed, of its topic and in order.             *)
BoxOrdered(c) ==
  /\ IsSeq(inbox[c])
  /\ state[c] = "new" => inbox[c] = <<>>
  /\ \A i, j \in 1..Len(inbox[c]) : i < j => inbox[c][i].task < inbox[c][j].task
  /\ \A i \in 1..Len(inbox[c]) : \E n \in 1..Routed :
       inbox[c][i] = events[n] /\ events[n].addr = Topic[c]
  /\ Pending(c) => \A i \in 1..Len(inbox[c]) : inbox[c][i].task < event.task

(* An event between two it has is not missing; after its first one, a live *)
(* connection misses at most the one being written.                        *)
BoxComplete(c) ==
  /\ \A i, j \in 1..Len(inbox[c]), n \in 1..Routed :
       /\ events[n].addr = Topic[c] /\ inbox[c][i].task < events[n].task
       /\ events[n].task < inbox[c][j].task
       => Held(c, n)
  /\ Live(c) => \A i \in 1..Len(inbox[c]), n \in 1..Routed :
       events[n].addr = Topic[c] /\ inbox[c][i].task < events[n].task
       => Held(c, n) \/ (n = Routed /\ Pending(c))

InboxInv ==
  /\ inbox = [c \in Conn |-> inbox[c]]
  /\ \A c \in Conn : BoxOrdered(c) /\ BoxComplete(c)

DataInv == ChainInv /\ TurnInv /\ EventInv /\ RouterInv /\ SlotInv /\ InboxInv

LEMMA CommandFacts ==
  /\ Len(Tasks) \in Nat /\ TaskCap \in Nat \ {0} /\ PublishCap \in Nat \ {0}
  /\ None \notin Conn /\ Topic \in [Conn -> Addr]
  /\ BlockEnd \in Seq(0..Len(Tasks)) /\ Len(BlockEnd) \in Nat
  /\ \A i, j \in 1..Len(BlockEnd) : i <= j => BlockEnd[i] <= BlockEnd[j]
  /\ \A i \in 1..Len(Tasks) :
       /\ Tasks[i].opt \in {"set", "append"} /\ Tasks[i].addr \in Addr
       /\ Tasks[i].value.kind \in {"text", "map", "array"}
  BY DataAssumption

LEMMA InitData ==
  ASSUME Init
  PROVE  DataInv
  <1> USE CommandFacts, SlotFacts DEF Init
  <1>1. ChainInv
    <2>1. 0 < Len(BlockEnd) => BlockEnd[1] \in 0..Len(Tasks)
      BY ElementOfSeq
    <2>2. taskChannel \in Seq(1..Len(Tasks)) /\ Len(taskChannel) = 0
      OBVIOUS
    <2> QED
      BY <2>1, <2>2 DEF ChainInv, Missing
  <1>2. TurnInv
    BY DEF TurnInv
  <1>3. EventInv
    <2>1. <<>> \in Seq({}) /\ Len(<<>>) = 0
      OBVIOUS
    <2>2. IsSeq(events) /\ IsSeq(publishChan)
      BY <2>1 DEF IsSeq
    <2> QED
      BY <2>1, <2>2 DEF EventInv, EventsInTurn, Routed
  <1>4. RouterInv
    BY DEF RouterInv
  <1>5. SlotInv
    <2>1. \A a \in Addr : InUse(a) = {}
      BY DEF InUse
    <2>2. \A a \in Addr : count[a] = Cardinality(InUse(a))
      BY <2>1, FS_EmptySet
    <2> QED
      BY <2>2 DEF SlotInv, Live
  <1>6. InboxInv
    <2>1. \A c \in Conn : inbox[c] = <<>> /\ <<>> \in Seq({}) /\ Len(<<>>) = 0
      OBVIOUS
    <2>2. \A c \in Conn : BoxOrdered(c) /\ BoxComplete(c)
      BY <2>1 DEF BoxOrdered, BoxComplete, IsSeq, Live
    <2> QED
      BY <2>2 DEF InboxInv
  <1> QED
    BY <1>1, <1>2, <1>3, <1>4, <1>5, <1>6 DEF DataInv

routerSide == <<publishChan, routerVars, poolVars, clientVars, events>>

LEMMA RouterFrame ==
  ASSUME DataInv, UNCHANGED routerSide
  PROVE  RouterInv' /\ SlotInv' /\ InboxInv'
  <1> USE DEF DataInv, routerSide, routerVars, poolVars, clientVars, Routed
  <1>1. RouterInv'
    BY DEF RouterInv
  <1>2. SlotInv'
    BY DEF SlotInv, InUse, Live
  <1>3. InboxInv'
    BY DEF InboxInv, BoxOrdered, BoxComplete, Pending, Held, Live
  <1> QED
    BY <1>1, <1>2, <1>3

LEMMA BlockSteps ==
  ASSUME DataInv, insertBlock
  PROVE  DataInv'
  <1>0. /\ stored \in 0..Len(BlockEnd) /\ sent \in 0..Len(Tasks)
        /\ stored < Len(BlockEnd) => sent <= BlockEnd[stored + 1]
        /\ taskChannel \in Seq(1..Len(Tasks)) /\ Len(taskChannel) <= TaskCap
        /\ Len(Tasks) \in Nat /\ TaskCap \in Nat /\ Len(BlockEnd) \in Nat
        /\ BlockEnd \in Seq(0..Len(Tasks))
    BY CommandFacts DEF DataInv, ChainInv
  <1>1. CASE SendTask
    <2>1. /\ stored < Len(BlockEnd) /\ sent < BlockEnd[stored + 1]
          /\ Len(taskChannel) < TaskCap /\ sent' = sent + 1
          /\ taskChannel' = Append(taskChannel, sent + 1)
          /\ UNCHANGED <<stored, entries, dpVars, routerSide>>
      BY <1>1 DEF SendTask, routerSide
    <2>2. BlockEnd[stored + 1] \in 0..Len(Tasks)
      BY <1>0, <2>1, ElementOfSeq
    <2>3. sent + 1 \in 1..Len(Tasks)
      BY <1>0, <2>1, <2>2
    <2>4. /\ taskChannel' \in Seq(1..Len(Tasks))
          /\ Len(taskChannel') = Len(taskChannel) + 1
          /\ Len(taskChannel) \in Nat
          /\ taskChannel'[Len(taskChannel) + 1] = sent + 1
          /\ \A i \in 1..Len(taskChannel) : taskChannel'[i] = taskChannel[i]
      <3>1. Len(taskChannel) \in Nat
        BY <1>0
      <3>2. taskChannel' \in Seq(1..Len(Tasks))
        BY <1>0, <2>1, <2>3
      <3> QED
        BY <1>0, <2>1, <2>3, <3>1, <3>2
    <2>5. ChainInv'
      BY <1>0, <2>1, <2>2, <2>3, <2>4, SMTT(30) DEF DataInv, ChainInv
    <2>6. /\ Taken' = Taken /\ Taken + Len(taskChannel) = sent
          /\ Taken \in Int
      BY <1>0, <2>1, <2>4 DEF Taken
    <2>7. TurnInv'
      <3>1. ASSUME NEW i \in 1..Len(taskChannel')
            PROVE  taskChannel'[i] = Taken' + i
        <4>1. CASE i \in 1..Len(taskChannel)
          BY <2>4, <2>6, <4>1 DEF DataInv, TurnInv
        <4>2. CASE i = Len(taskChannel) + 1
          <5>1. taskChannel'[i] = sent + 1 /\ sent = Taken + Len(taskChannel)
            BY <1>0, <2>4, <2>6, <4>2
          <5> QED
            BY <1>0, <2>6, <4>2, <5>1
        <4> QED
          BY <2>4, <4>1, <4>2
      <3> QED
        BY <2>1, <2>6, <3>1 DEF DataInv, TurnInv, dpVars
    <2>8. EventInv'
      BY <2>1, <2>6 DEF DataInv, EventInv, EventsInTurn, Routed, dpVars,
                        routerSide
    <2> QED
      BY <2>1, <2>5, <2>7, <2>8, RouterFrame DEF DataInv
  <1>2. CASE BatchInsert
    <2>1. /\ stored < Len(BlockEnd) /\ sent = BlockEnd[stored + 1]
          /\ stored' = stored + 1
          /\ UNCHANGED <<sent, taskChannel, entries, dpVars, routerSide>>
      BY <1>2 DEF BatchInsert, routerSide
    <2>2. stored + 1 < Len(BlockEnd) => BlockEnd[stored + 1] <= BlockEnd[stored + 2]
      <3>1. stored + 1 < Len(BlockEnd) =>
              /\ stored + 1 \in 1..Len(BlockEnd) /\ stored + 2 \in 1..Len(BlockEnd)
              /\ stored + 1 <= stored + 2
        BY <1>0
      <3> QED
        BY <3>1, CommandFacts
    <2>3. ChainInv'
      <3>1. stored' \in 0..Len(BlockEnd)
        BY <1>0, <2>1
      <3>2. stored' < Len(BlockEnd) => sent' <= BlockEnd[stored' + 1]
        BY <1>0, <2>1, <2>2
      <3> QED
        BY <1>0, <2>1, <3>1, <3>2 DEF DataInv, ChainInv
    <2>4. TurnInv' /\ EventInv'
      BY <2>1 DEF DataInv, TurnInv, EventInv, EventsInTurn, Routed, Taken,
                  dpVars, routerSide
    <2> QED
      BY <2>1, <2>3, <2>4, RouterFrame DEF DataInv
  <1> QED
    BY <1>1, <1>2 DEF insertBlock

LEMMA RunStep ==
  ASSUME DataInv, Run
  PROVE  DataInv'
  <1> USE CommandFacts DEF DataInv
  <1>1. /\ dpPc = "idle" /\ taskChannel # <<>>
        /\ dpTask' = Head(taskChannel) /\ taskChannel' = Tail(taskChannel)
        /\ dpPc' = "write"
        /\ UNCHANGED <<stored, sent, entries, routerSide>>
    BY DEF Run, routerSide
  <1>2. /\ Len(taskChannel) \in Nat \ {0} /\ taskChannel[1] \in 1..Len(Tasks)
        /\ Head(taskChannel) = taskChannel[1]
        /\ Tail(taskChannel) \in Seq(1..Len(Tasks))
        /\ Len(Tail(taskChannel)) = Len(taskChannel) - 1
        /\ \A i \in 1..(Len(taskChannel) - 1) :
             Tail(taskChannel)[i] = taskChannel[i + 1]
    BY <1>1, ElementOfSeq DEF ChainInv
  <1>3. ChainInv'
    BY <1>1, <1>2 DEF ChainInv
  <1>4. Taken' = Taken + 1 /\ Taken \in Int
    BY <1>1, <1>2 DEF Taken, ChainInv
  <1>5. TurnInv'
    <2>1. taskChannel[1] = Taken + 1
      BY <1>2 DEF TurnInv
    <2>2. \A i \in 1..Len(taskChannel') : taskChannel'[i] = Taken' + i
      BY <1>1, <1>2, <1>4 DEF TurnInv
    <2> QED
      BY <1>1, <1>2, <1>4, <2>1, <2>2 DEF TurnInv
  <1>6. EventInv'
    BY <1>1, <1>4 DEF EventInv, EventsInTurn, Routed, routerSide
  <1> QED
    BY <1>1, <1>3, <1>5, <1>6, RouterFrame

(* The processor has a command of the chain.                               *)
LEMMA AtTask ==
  ASSUME DataInv, dpPc # "idle"
  PROVE  /\ dpTask \in 1..Len(Tasks) /\ Task.addr \in Addr
         /\ Task.value.kind \in {"text", "map", "array"}
  <1>1. dpTask \in 1..Len(Tasks)
    BY CommandFacts DEF DataInv, TurnInv
  <1> QED
    BY <1>1, CommandFacts DEF Task

LEMMA WriteSteps ==
  ASSUME DataInv, setData \/ appendData \/ AppendError
  PROVE  DataInv'
  <1> USE CommandFacts DEF DataInv
  <1>1. /\ dpPc # "idle" /\ dpPc' \in {"idle", "event"}
        /\ UNCHANGED <<stored, sent, taskChannel, dpTask, routerSide>>
    BY DEF setData, appendData, AppendError, chainVars, routerSide
  <1>2. /\ entries' = [a \in Addr |-> entries'[a]]
        /\ \A a \in Addr : entries'[a].kind \in {"missing", "text", "map", "array"}
    <2>1. CASE setData
      <3>1. entries' = [entries EXCEPT ![Task.addr] = Task.value]
        BY <2>1 DEF setData
      <3> QED
        BY <1>1, <3>1, AtTask DEF ChainInv
    <2>2. CASE appendData
      <3> DEFINE new == Extended(entries[Task.addr], Task.value)
      <3>1. entries' = [entries EXCEPT ![Task.addr] = new]
        BY <2>2 DEF appendData
      <3>2. new.kind = "array"
        BY DEF Extended, ArrayOf
      <3> HIDE DEF new
      <3> QED
        BY <1>1, <3>1, <3>2, AtTask DEF ChainInv
    <2>3. CASE AppendError
      BY <2>3 DEF AppendError, ChainInv
    <2> QED
      BY <2>1, <2>2, <2>3
  <1>3. ChainInv'
    BY <1>1, <1>2 DEF ChainInv
  <1>4. TurnInv' /\ EventInv'
    BY <1>1 DEF TurnInv, EventInv, EventsInTurn, Routed, Taken, routerSide
  <1> QED
    BY <1>1, <1>3, <1>4, RouterFrame

processorSide == <<chainVars, entries, dpPc, dpTask>>

LEMMA ProcessorFrame ==
  ASSUME DataInv, UNCHANGED processorSide
  PROVE  ChainInv' /\ TurnInv'
  BY DEF DataInv, processorSide, chainVars, ChainInv, TurnInv, Taken

(* A step that neither writes to the connection nor routes an event.       *)
LEMMA BoxFrame ==
  ASSUME DataInv, NEW c \in Conn, inbox'[c] = inbox[c], Routed' = Routed,
         \A n \in 1..Routed : events'[n] = events[n],
         Pending(c)' => Pending(c) /\ event' = event,
         Live(c) /\ Pending(c) => Pending(c)',
         Live(c)' => Live(c), state'[c] = "new" => state[c] = "new"
  PROVE  BoxOrdered(c)' /\ BoxComplete(c)'
  <1>1. BoxOrdered(c) /\ BoxComplete(c)
    BY DEF DataInv, InboxInv
  <1>2. BoxOrdered(c)'
    BY <1>1 DEF BoxOrdered
  <1>3. \A n \in 1..Routed : Held(c, n) => Held(c, n)'
    BY DEF Held
  <1>4. BoxComplete(c)'
    BY <1>1, <1>3 DEF BoxComplete
  <1> QED
    BY <1>2, <1>4

LEMMA RoutedFacts ==
  ASSUME DataInv
  PROVE  /\ Len(events) \in Nat /\ Len(publishChan) \in Nat /\ Routed \in Nat
         /\ Routed <= Len(events)
         /\ pos # 0 => /\ Routed \in 1..Len(events) /\ event = events[Routed]
                       /\ event.addr \in Addr /\ event.task \in Nat
  <1>1. Len(events) \in Nat /\ Len(publishChan) \in Nat
    BY IsSeqFacts DEF DataInv, EventInv
  <1>2. Routed \in Nat /\ Routed <= Len(events)
    BY <1>1 DEF DataInv, EventInv, Routed
  <1> QED
    BY <1>1, <1>2 DEF DataInv, EventInv, RouterInv

LEMMA AppendEventStep ==
  ASSUME DataInv, AppendEvent
  PROVE  DataInv'
  <1> DEFINE e == [addr |-> Task.addr, task |-> dpTask, value |-> dpValue]
  <1>1. /\ dpPc = "event" /\ dpPc' = "idle" /\ Len(publishChan) < PublishCap
        /\ publishChan' = Append(publishChan, e)
        /\ events' = Append(events, e)
        /\ UNCHANGED <<stored, sent, taskChannel, entries, dpTask, pos, event,
                       conns, count, state, inbox>>
    BY DEF AppendEvent, chainVars, routerVars, poolVars, clientVars
  <1>2. e.addr \in Addr /\ e.task = dpTask /\ dpTask = Taken
    BY <1>1, AtTask DEF DataInv, TurnInv
  <1>3. dpTask \in Nat
    BY <1>1, AtTask
  <1> HIDE DEF e
  <1>4. /\ IsSeq(events') /\ Len(events') = Len(events) + 1
        /\ events'[Len(events) + 1] = e
        /\ \A i \in 1..Len(events) : events'[i] = events[i]
    BY <1>1, IsSeqFacts DEF DataInv, EventInv
  <1>5. /\ IsSeq(publishChan') /\ Len(publishChan') = Len(publishChan) + 1
        /\ publishChan'[Len(publishChan) + 1] = e
        /\ \A i \in 1..Len(publishChan) : publishChan'[i] = publishChan[i]
    BY <1>1, IsSeqFacts DEF DataInv, EventInv
  <1>6. /\ Routed' = Routed /\ Taken' = Taken
        /\ Routed + Len(publishChan) = Len(events)
    BY <1>1, <1>4, <1>5, RoutedFacts DEF Routed, Taken
  <1>7. ChainInv' /\ TurnInv'
    BY <1>1, <1>6 DEF DataInv, ChainInv, TurnInv
  <1>8. EventInv'
    <2>1. Len(publishChan') <= PublishCap /\ Len(publishChan') <= Len(events')
      BY <1>1, <1>4, <1>5, RoutedFacts, CommandFacts DEF DataInv, EventInv
    <2>2. ASSUME NEW i \in 1..Len(publishChan')
          PROVE  publishChan'[i] = events'[Routed + i]
      <3>1. CASE i \in 1..Len(publishChan)
        <4>1. Routed + i \in 1..Len(events)
          BY <1>6, <3>1, RoutedFacts
        <4> QED
          BY <1>4, <1>5, <3>1, <4>1 DEF DataInv, EventInv
      <3>2. CASE i = Len(publishChan) + 1
        <4>1. Routed + i = Len(events) + 1
          BY <1>6, <3>2, RoutedFacts
        <4> QED
          BY <1>4, <1>5, <3>2, <4>1
      <3> QED
        BY <1>5, <3>1, <3>2, RoutedFacts
    <2>3. ASSUME NEW i \in 1..Len(events')
          PROVE  /\ events'[i].addr \in Addr /\ events'[i].task \in Nat
                 /\ events'[i].task <= Taken
      <3>1. CASE i \in 1..Len(events)
        BY <1>4, <3>1 DEF DataInv, EventInv
      <3>2. CASE i = Len(events) + 1
        BY <1>2, <1>3, <1>4, <3>2
      <3> QED
        BY <1>4, <3>1, <3>2, RoutedFacts
    <2>4. ASSUME NEW i \in 1..Len(events'), NEW j \in 1..Len(events'), i < j
          PROVE  events'[i].task < events'[j].task
      <3>1. i \in 1..Len(events)
        BY <1>4, <2>4, RoutedFacts
      <3>2. CASE j \in 1..Len(events)
        BY <1>4, <2>4, <3>1, <3>2 DEF DataInv, EventInv, EventsInTurn
      <3>3. CASE j = Len(events) + 1
        BY <1>1, <1>2, <1>4, <3>1, <3>3 DEF DataInv, EventInv
      <3> QED
        BY <1>4, <3>2, <3>3, RoutedFacts
    <2>5. EventsInTurn'
      BY <2>4 DEF EventsInTurn
    <2> QED
      BY <1>1, <1>4, <1>5, <1>6, <2>1, <2>2, <2>3, <2>5 DEF EventInv
  <1>9. RouterInv'
    BY <1>1, <1>4, <1>6, RoutedFacts DEF DataInv, RouterInv
  <1>10. SlotInv'
    BY <1>1 DEF DataInv, SlotInv, InUse, Live
  <1>11. InboxInv'
    <2>1. ASSUME NEW c \in Conn
          PROVE  BoxOrdered(c)' /\ BoxComplete(c)'
      <3>1. \A n \in 1..Routed : events'[n] = events[n]
        BY <1>4, RoutedFacts
      <3>2. (Pending(c)' <=> Pending(c)) /\ (Live(c)' <=> Live(c))
        BY <1>1 DEF Pending, Live
      <3> QED
        BY <1>1, <1>6, <3>1, <3>2, BoxFrame
    <2> QED
      BY <1>1, <2>1 DEF DataInv, InboxInv
  <1> QED
    BY <1>7, <1>8, <1>9, <1>10, <1>11 DEF DataInv

-----------------------------------------------------------------------------
(* The router takes the next event; every live connection of its topic is  *)
(* still to get it.                                                        *)
LEMMA ProcessStep ==
  ASSUME DataInv, Process
  PROVE  DataInv'
  <1> DEFINE e == Head(publishChan)
  <1>1. /\ pos = 0 /\ publishChan # <<>> /\ publishChan' = Tail(publishChan)
        /\ UNCHANGED <<processorSide, events, conns, count, state, inbox>>
    BY DEF Process, HasEvent, dpVars, poolVars, clientVars, processorSide
  <1>2. \/ InUse(e.addr) = {} /\ pos' = 0 /\ event' = event
        \/ InUse(e.addr) # {} /\ pos' = 1 /\ event' = e
    BY <1>1 DEF Process, routerVars
  <1>3. /\ IsSeq(publishChan') /\ Len(publishChan') = Len(publishChan) - 1
        /\ Len(publishChan) > 0 /\ e = publishChan[1]
        /\ \A i \in 1..(Len(publishChan) - 1) :
             publishChan'[i] = publishChan[i + 1]
    BY <1>1, IsSeqFacts DEF DataInv, EventInv
  <1>4. Routed' = Routed + 1 /\ Routed + 1 \in 1..Len(events)
    BY <1>1, <1>3, RoutedFacts DEF Routed, DataInv, EventInv
  <1>5. e = events[Routed + 1] /\ e.addr \in Addr /\ e.task \in Nat
    <2>1. 1 \in 1..Len(publishChan)
      BY <1>3, RoutedFacts
    <2> QED
      BY <1>3, <1>4, <2>1 DEF DataInv, EventInv
  <1> HIDE DEF e
  <1>6. ChainInv' /\ TurnInv'
    BY <1>1, ProcessorFrame
  <1>7. EventInv'
    <2>1. ASSUME NEW i \in 1..Len(publishChan')
          PROVE  publishChan'[i] = events[Routed' + i]
      <3>1. i \in 1..(Len(publishChan) - 1) /\ i + 1 \in 1..Len(publishChan)
        BY <1>3, RoutedFacts
      <3>2. publishChan'[i] = events[Routed + (i + 1)]
        BY <1>3, <3>1 DEF DataInv, EventInv
      <3>3. Routed + (i + 1) = Routed' + i
        BY <1>4, RoutedFacts
      <3> QED
        BY <3>2, <3>3
    <2>2. Taken' = Taken /\ dpPc' = dpPc
      BY <1>1 DEF Taken, processorSide, chainVars
    <2>3. Len(publishChan') <= PublishCap /\ Len(publishChan') <= Len(events)
      BY <1>3, RoutedFacts, CommandFacts DEF DataInv, EventInv
    <2> QED
      BY <1>1, <1>3, <2>1, <2>2, <2>3 DEF DataInv, EventInv, EventsInTurn
  <1>8. RouterInv'
    <2>1. pos' \in 0..(ConnPoolSize + 1)
      BY <1>2, SlotFacts
    <2>2. pos' # 0 => Routed' >= 1 /\ event' = events'[Routed']
      BY <1>1, <1>2, <1>4, <1>5, RoutedFacts
    <2> QED
      BY <2>1, <2>2 DEF RouterInv
  <1>9. SlotInv'
    BY <1>1 DEF DataInv, SlotInv, InUse, Live
  <1>10. ASSUME NEW c \in Conn
         PROVE  BoxOrdered(c)' /\ BoxComplete(c)'
    <2>1. /\ BoxOrdered(c) /\ BoxComplete(c) /\ inbox'[c] = inbox[c]
          /\ Live(c)' <=> Live(c)
      BY <1>1 DEF DataInv, InboxInv, Live
    <2>2. \A i \in 1..Len(inbox[c]) : \E n \in 1..Routed : inbox[c][i] = events[n]
      BY <2>1 DEF BoxOrdered
    <2>3. \A n \in 1..Routed : events[n].task < events[Routed + 1].task
      BY <1>4, RoutedFacts DEF DataInv, EventInv, EventsInTurn
    <2>4. \A i \in 1..Len(inbox[c]) : inbox[c][i].task < e.task
      BY <1>5, <2>2, <2>3
    <2>5. BoxOrdered(c)'
      <3>1. Pending(c)' => event' = e
        BY <1>2, SlotFacts DEF Pending, Slot
      <3>2. \A n \in 1..Routed : n \in 1..Routed' /\ events'[n] = events[n]
        BY <1>1, <1>4, RoutedFacts
      <3> QED
        BY <1>1, <2>1, <2>4, <3>1, <3>2 DEF BoxOrdered
    <2>6. \A n \in 1..Routed' : n \in 1..Routed \/ n = Routed'
      BY <1>4, RoutedFacts
    <2>7. \A n \in 1..Routed : Held(c, n) => Held(c, n)'
      BY <1>1 DEF Held
    <2>8. ~Pending(c)
      BY <1>1, SlotFacts DEF Pending, Slot
    <2>9. \A i, j \in 1..Len(inbox[c]), n \in 1..Routed' :
            /\ events[n].addr = Topic[c] /\ inbox[c][i].task < events[n].task
            /\ events[n].task < inbox[c][j].task
            => Held(c, n)'
      <3>1. \A j \in 1..Len(inbox[c]) :
              ~(events[Routed'].task < inbox[c][j].task)
        <4>1. \A n \in 1..Routed : events[n].task \in Nat
          <5>1. 1..Routed \subseteq 1..Len(events)
            BY RoutedFacts
          <5> QED
            BY <5>1 DEF DataInv, EventInv
        <4>2. \A j \in 1..Len(inbox[c]) : inbox[c][j].task \in Nat
          BY <2>2, <4>1
        <4> QED
          BY <1>4, <1>5, <2>4, <4>2
      <3> QED
        BY <2>1, <2>6, <2>7, <3>1 DEF BoxComplete
    <2>10. ASSUME Live(c), e.addr = Topic[c]
           PROVE  Pending(c)'
      <3>1. PICK i \in Slot : conns[Topic[c]][i] = c
        BY <2>10 DEF DataInv, SlotInv
      <3>2. i \in InUse(e.addr)
        BY <2>10, <3>1, CommandFacts DEF InUse
      <3>3. pos' = 1 /\ event' = e
        BY <1>2, <3>2
      <3>4. 1 \in Slot /\ i >= 1
        BY SlotFacts DEF Slot
      <3> QED
        BY <1>1, <2>10, <3>1, <3>3, <3>4 DEF Pending
    <2>11. Live(c) => \A i \in 1..Len(inbox[c]), n \in 1..Routed' :
             events[n].addr = Topic[c] /\ inbox[c][i].task < events[n].task
             => Held(c, n)' \/ (n = Routed' /\ Pending(c)')
      BY <1>4, <1>5, <2>1, <2>6, <2>7, <2>8, <2>10 DEF BoxComplete
    <2>12. BoxComplete(c)'
      BY <1>1, <2>1, <2>9, <2>11 DEF BoxComplete
    <2> QED
      BY <2>5, <2>12
  <1>11. InboxInv'
    BY <1>1, <1>10 DEF DataInv, InboxInv
  <1> QED
    BY <1>6, <1>7, <1>8, <1>9, <1>11 DEF DataInv

LEMMA EventFrame ==
  ASSUME DataInv, UNCHANGED <<processorSide, publishChan, events>>
  PROVE  /\ ChainInv' /\ TurnInv' /\ EventInv' /\ Routed' = Routed
         /\ event' = event /\ pos' \in 0..(ConnPoolSize + 1)
            /\ (pos' # 0 => pos # 0) => RouterInv'
  <1>1. ChainInv' /\ TurnInv'
    BY ProcessorFrame
  <1>2. EventInv' /\ Routed' = Routed
    BY DEF DataInv, EventInv, EventsInTurn, Routed, Taken, processorSide,
           chainVars
  <1> QED
    BY <1>1, <1>2 DEF DataInv, RouterInv

(* The router leaves one slot behind: who is not in it stays as it was.    *)
LEMMA NextSlot ==
  ASSUME DataInv, pos \in Slot, pos' = pos + 1, event' = event,
         UNCHANGED <<publishChan, events, state>>, NEW c \in Conn,
         inbox'[c] = inbox[c], c # Receiver \/ ~Live(c),
         \A i \in Slot : conns'[Topic[c]][i] = c => conns[Topic[c]][i] = c,
         c # Receiver => \A i \in Slot : conns[Topic[c]][i] = c
                                           => conns'[Topic[c]][i] = c
  PROVE  BoxOrdered(c)' /\ BoxComplete(c)'
  <1>1. Routed' = Routed /\ Routed \in Nat
    BY RoutedFacts DEF Routed
  <1>2. Pending(c)' => Pending(c)
    <2>1. \A i \in Slot : i >= pos + 1 => i >= pos
      BY SlotFacts DEF Slot
    <2> QED
      BY <2>1 DEF Pending
  <1>3. ASSUME Live(c), Pending(c)
        PROVE  Pending(c)'
    <2>1. PICK i \in Slot : i >= pos /\ conns[Topic[c]][i] = c
      BY <1>3 DEF Pending
    <2>2. i # pos
      BY <1>3, <2>1 DEF Pending, Receiver
    <2>3. pos + 1 \in Slot /\ i >= pos + 1
      BY <2>1, <2>2, SlotFacts DEF Slot
    <2>4. conns'[Topic[c]][i] = c
      BY <1>3, <2>1
    <2> QED
      BY <1>3, <2>1, <2>3, <2>4 DEF Pending
  <1>4. Live(c)' <=> Live(c)
    BY DEF Live
  <1> QED
    BY <1>1, <1>2, <1>3, <1>4, BoxFrame

(* The receiver was live and waiting; now it has everything routed that    *)
(* its topic got since its first event.                                    *)
LEMMA Received ==
  ASSUME DataInv, pos \in Slot, pos' = pos + 1, NEW c \in Conn, c = Receiver,
         state[c] = "open", inbox'[c] = Append(inbox[c], event),
         UNCHANGED <<publishChan, events, event, conns, state>>
  PROVE  BoxOrdered(c)' /\ BoxComplete(c)'
  <1> DEFINE box == inbox[c]
             box2 == Append(inbox[c], event)
  <1>1. /\ pos # 0 /\ Routed' = Routed /\ Routed \in 1..Len(events)
        /\ event = events[Routed] /\ event.addr \in Addr /\ event.task \in Nat
    BY RoutedFacts, SlotFacts DEF Slot, Routed
  <1>2. BoxOrdered(c) /\ BoxComplete(c) /\ Live(c)
    BY DEF DataInv, InboxInv, Live
  <1>3. /\ conns[event.addr][pos] = c /\ Topic[c] = event.addr
        /\ \A j \in Slot : conns[event.addr][j] = c => j = pos
    <2>1. conns[event.addr][pos] = c /\ c # None
      BY CommandFacts DEF Receiver
    <2>2. \A a \in Addr, i \in Slot : conns[a][i] # None =>
            /\ Topic[conns[a][i]] = a
            /\ \A j \in Slot : conns[a][j] = conns[a][i] => j = i
      BY DEF DataInv, SlotInv
    <2> QED
      BY <1>1, <2>1, <2>2
  <1>4. Pending(c)
    <2>1. pos >= pos
      BY SlotFacts DEF Slot
    <2> QED
      BY <1>3, <2>1 DEF Pending
  <1>5. ~Pending(c)'
    <2>1. ~(pos >= pos + 1)
      BY SlotFacts DEF Slot
    <2> QED
      BY <1>3, <2>1 DEF Pending
  <1>6. /\ IsSeq(box2) /\ Len(box) \in Nat /\ Len(box2) = Len(box) + 1
        /\ box2[Len(box) + 1] = event
        /\ \A i \in 1..Len(box) : box2[i] = box[i]
    BY <1>2, IsSeqFacts DEF BoxOrdered
  <1>7. \A i \in 1..Len(box2) : i \in 1..Len(box) \/ i = Len(box) + 1
    BY <1>6
  <1>8. \A i \in 1..Len(box) : box[i].task < event.task
    BY <1>2, <1>4 DEF BoxOrdered
  <1>9. \A n \in 1..Routed : /\ events[n].task \in Nat
                             /\ n # Routed => events[n].task < event.task
    <2>1. \A n \in 1..Routed : /\ n \in 1..Len(events)
                               /\ n # Routed => n < Routed
      BY <1>1, RoutedFacts
    <2> QED
      BY <1>1, <2>1 DEF DataInv, EventInv, EventsInTurn
  <1> HIDE DEF box, box2
  <1>10. BoxOrdered(c)'
    <2>1. ASSUME NEW i \in 1..Len(box2), NEW j \in 1..Len(box2), i < j
          PROVE  box2[i].task < box2[j].task
      <3>1. i \in 1..Len(box)
        BY <1>6, <2>1
      <3>2. CASE j \in 1..Len(box)
        BY <1>2, <1>6, <2>1, <3>1, <3>2 DEF BoxOrdered, box
      <3>3. CASE j = Len(box) + 1
        BY <1>6, <1>8, <3>1, <3>3
      <3> QED
        BY <1>7, <3>2, <3>3
    <2>2. ASSUME NEW i \in 1..Len(box2)
          PROVE  \E n \in 1..Routed :
                   box2[i] = events[n] /\ events[n].addr = Topic[c]
      <3>1. CASE i \in 1..Len(box)
        <4>1. \E n \in 1..Routed :
                inbox[c][i] = events[n] /\ events[n].addr = Topic[c]
          BY <1>2, <3>1 DEF BoxOrdered, box
        <4> QED
          BY <1>6, <3>1, <4>1 DEF box
      <3>2. CASE i = Len(box) + 1
        <4>1. Routed \in 1..Routed
          BY <1>1
        <4> QED
          BY <1>1, <1>3, <1>6, <3>2, <4>1
      <3> QED
        BY <1>7, <3>1, <3>2
    <2>3. inbox'[c] = box2 /\ state'[c] # "new" /\ Routed' = Routed
      BY <1>1 DEF box2
    <2> QED
      BY <1>5, <1>6, <2>1, <2>2, <2>3 DEF BoxOrdered
  <1>11. ASSUME NEW i \in 1..Len(box2), NEW n \in 1..Routed,
                events[n].addr = Topic[c], box2[i].task < events[n].task
         PROVE  Held(c, n)'
    <2>1. \A k \in 1..Len(box2) : box2[k] = events[n] => Held(c, n)'
      BY DEF Held, box2
    <2>2. CASE n = Routed
      <3>1. Len(box) + 1 \in 1..Len(box2)
        BY <1>6
      <3> QED
        BY <1>1, <1>6, <2>1, <2>2, <3>1
    <2>3. CASE n # Routed
      <3>1. i \in 1..Len(box)
        <4>1. i # Len(box) + 1
          <5>1. box2[Len(box) + 1].task = event.task /\ event.task \in Nat
            BY <1>1, <1>6
          <5> QED
            BY <1>9, <1>11, <2>3, <5>1
        <4> QED
          BY <1>7, <4>1
      <3>2. Held(c, n)
        BY <1>2, <1>6, <1>11, <2>3, <3>1 DEF BoxComplete, box
      <3>3. PICK k \in 1..Len(box) : box[k] = events[n]
        BY <3>2 DEF Held, box
      <3>4. k \in 1..Len(box2) /\ box2[k] = events[n]
        BY <1>6, <3>3
      <3> QED
        BY <2>1, <3>4
    <2> QED
      BY <2>2, <2>3
  <1>12. BoxComplete(c)'
    BY <1>1, <1>11 DEF BoxComplete, box2
  <1> QED
    BY <1>10, <1>12

(* The number of slots in use.                                             *)
LEMMA UseFacts ==
  ASSUME NEW S \in SUBSET Slot
  PROVE  /\ IsFiniteSet(S) /\ Cardinality(S) \in 0..ConnPoolSize
         /\ Cardinality(S) = ConnPoolSize <=> S = Slot
  <1>1. /\ IsFiniteSet(S) /\ Cardinality(S) <= Cardinality(Slot)
        /\ Cardinality(Slot) = Cardinality(S) => Slot = S
    BY SlotFacts, FS_Subset
  <1>2. Cardinality(S) \in Nat
    BY <1>1, FS_CardinalityType
  <1> QED
    BY <1>1, <1>2, SlotFacts

LEMMA PublishStep ==
  ASSUME DataInv, Publish
  PROVE  DataInv'
  <1>1. /\ pos \in Slot /\ pos' = pos + 1
        /\ UNCHANGED <<processorSide, publishChan, events, event, conns, count,
                       state>>
    BY DEF Publish, dpVars, poolVars, processorSide
  <1>2. \/ inbox' = inbox /\ (Receiver = None \/ state[Receiver] = "gone")
        \/ /\ Receiver # None /\ state[Receiver] \notin {"stalled", "gone"}
           /\ inbox' = [inbox EXCEPT ![Receiver] = Append(@, event)]
    BY DEF Publish
  <1>3. /\ pos # 0 /\ pos + 1 \in 0..(ConnPoolSize + 1)
        /\ event.addr \in Addr
    BY <1>1, SlotFacts, RoutedFacts DEF Slot
  <1>4. ChainInv' /\ TurnInv' /\ EventInv' /\ RouterInv'
    BY <1>1, <1>3, EventFrame
  <1>5. SlotInv'
    BY <1>1 DEF DataInv, SlotInv, InUse, Live
  <1>6. InboxInv'
    <2>1. CASE inbox' = inbox /\ (Receiver = None \/ state[Receiver] = "gone")
      <3>1. ASSUME NEW c \in Conn
            PROVE  BoxOrdered(c)' /\ BoxComplete(c)'
        <4>1. c # Receiver \/ ~Live(c)
          BY <2>1, CommandFacts DEF Live
        <4> QED
          BY <1>1, <2>1, <4>1, NextSlot
      <3> QED
        BY <2>1, <3>1 DEF DataInv, InboxInv
    <2>2. CASE /\ Receiver # None /\ state[Receiver] \notin {"stalled", "gone"}
               /\ inbox' = [inbox EXCEPT ![Receiver] = Append(@, event)]
      <3>1. Receiver \in Conn /\ state[Receiver] = "open"
        <4>1. Receiver \in Conn /\ state[Receiver] # "new"
          BY <1>1, <1>3, <2>2 DEF Receiver, DataInv, SlotInv
        <4> QED
          BY <2>2, <4>1 DEF DataInv, SlotInv
      <3>2. /\ inbox'[Receiver] = Append(inbox[Receiver], event)
            /\ \A c \in Conn \ {Receiver} : inbox'[c] = inbox[c]
            /\ inbox' = [c \in Conn |-> inbox'[c]]
        BY <2>2, <3>1 DEF DataInv, InboxInv
      <3>3. ASSUME NEW c \in Conn
            PROVE  BoxOrdered(c)' /\ BoxComplete(c)'
        <4>1. CASE c = Receiver
          BY <1>1, <3>1, <3>2, <4>1, Received
        <4>2. CASE c # Receiver
          BY <1>1, <3>2, <4>2, NextSlot
        <4> QED
          BY <4>1, <4>2
      <3> QED
        BY <3>2, <3>3 DEF InboxInv
    <2> QED
      BY <1>2, <2>1, <2>2
  <1> QED
    BY <1>4, <1>5, <1>6 DEF DataInv

(* The slot of a connection that went away is given back.                  *)
LEMMA SlotFreed ==
  ASSUME DataInv, NEW a \in Addr, NEW p \in Slot,
         conns[a][p] # None, state[conns[a][p]] = "gone", state' = state,
         conns' = [conns EXCEPT ![a][p] = None],
         count' = [count EXCEPT ![a] = @ - 1]
  PROVE  /\ SlotInv' /\ conns'[a][p] = None
         /\ \A b \in Addr, i \in Slot :
              b # a \/ i # p => conns'[b][i] = conns[b][i]
  <1>1. /\ conns' \in [Addr -> [Slot -> Conn \cup {None}]]
        /\ conns'[a][p] = None
        /\ \A b \in Addr, i \in Slot :
             b # a \/ i # p => conns'[b][i] = conns[b][i]
    <2>1. conns \in [Addr -> [Slot -> Conn \cup {None}]]
      BY DEF DataInv, SlotInv
    <2>2. conns' = [conns EXCEPT ![a] = [conns[a] EXCEPT ![p] = None]]
      BY <2>1
    <2>3. [conns[a] EXCEPT ![p] = None] \in [Slot -> Conn \cup {None}]
      BY <2>1
    <2> QED
      BY <2>1, <2>2, <2>3
  <1>2. SlotInv'
    <2>1. InUse(a)' = InUse(a) \ {p} /\ p \in InUse(a)
      BY <1>1 DEF InUse
    <2>2. \A b \in Addr \ {a} : InUse(b)' = InUse(b)
      BY <1>1 DEF InUse
    <2>3. InUse(a) \subseteq Slot
      BY DEF InUse
    <2>4. /\ Cardinality(InUse(a)') = Cardinality(InUse(a)) - 1
          /\ Cardinality(InUse(a)') \in 0..ConnPoolSize
      BY <2>1, <2>3, UseFacts, FS_RemoveElement
    <2>5. /\ count' \in [Addr -> 0..ConnPoolSize]
          /\ \A b \in Addr : count'[b] = Cardinality(InUse(b)')
      BY <2>2, <2>4 DEF DataInv, SlotInv
    <2>6. \A b \in Addr, i \in Slot : conns'[b][i] # None =>
            /\ Topic[conns'[b][i]] = b /\ state[conns'[b][i]] # "new"
            /\ \A j \in Slot : conns'[b][j] = conns'[b][i] => j = i
      <3>1. \A b \in Addr, i \in Slot : conns'[b][i] # None =>
              conns'[b][i] = conns[b][i]
        BY <1>1
      <3> QED
        BY <3>1 DEF DataInv, SlotInv
    <2>7. \A c \in Conn : Live(c) => \E i \in Slot : conns'[Topic[c]][i] = c
      <3>1. SUFFICES ASSUME NEW c \in Conn, Live(c)
                     PROVE  \E i \in Slot : conns'[Topic[c]][i] = c
        OBVIOUS
      <3>2. PICK i \in Slot : conns[Topic[c]][i] = c
        BY <3>1 DEF DataInv, SlotInv
      <3>3. Topic[c] # a \/ i # p
        BY <3>1, <3>2 DEF Live
      <3>4. Topic[c] \in Addr
        BY CommandFacts
      <3> QED
        BY <1>1, <3>2, <3>3, <3>4
    <2> QED
      BY <1>1, <2>5, <2>6, <2>7 DEF DataInv, SlotInv, Live, InUse
  <1> QED
    BY <1>1, <1>2

LEMMA PublishFailsStep ==
  ASSUME DataInv, PublishFails
  PROVE  DataInv'
  <1> DEFINE a == event.addr
  <1>1. /\ pos \in Slot /\ Receiver # None /\ state[Receiver] = "gone"
        /\ pos' = pos + 1
        /\ conns' = [conns EXCEPT ![a][pos] = None]
        /\ count' = [count EXCEPT ![a] = @ - 1]
        /\ UNCHANGED <<processorSide, publishChan, events, event, state, inbox>>
    BY DEF PublishFails, Freed, CountedBack, NextPos, dpVars, clientVars,
           processorSide
  <1>2. /\ pos # 0 /\ pos + 1 \in 0..(ConnPoolSize + 1) /\ a \in Addr
    BY <1>1, SlotFacts, RoutedFacts DEF Slot
  <1>3. ChainInv' /\ TurnInv' /\ EventInv' /\ RouterInv'
    BY <1>1, <1>2, EventFrame
  <1>4. conns[a][pos] = Receiver
    BY DEF Receiver
  <1>5. /\ SlotInv' /\ conns'[a][pos] = None
        /\ \A b \in Addr, i \in Slot :
             b # a \/ i # pos => conns'[b][i] = conns[b][i]
    BY <1>1, <1>2, <1>4, SlotFreed
  <1> HIDE DEF a
  <1>6. ASSUME NEW c \in Conn
        PROVE  BoxOrdered(c)' /\ BoxComplete(c)'
    <2>1. c # Receiver \/ ~Live(c)
      BY <1>1 DEF Live
    <2>2. Topic[c] \in Addr
      BY CommandFacts
    <2>3. \A i \in Slot : conns'[Topic[c]][i] = c => conns[Topic[c]][i] = c
      BY <1>5, <2>2, CommandFacts
    <2>4. c # Receiver => \A i \in Slot : conns[Topic[c]][i] = c
                                            => conns'[Topic[c]][i] = c
      BY <1>4, <1>5, <2>2
    <2> QED
      BY <1>1, <2>1, <2>3, <2>4, NextSlot
  <1>7. InboxInv'
    BY <1>1, <1>6 DEF DataInv, InboxInv
  <1> QED
    BY <1>3, <1>5, <1>7 DEF DataInv

LEMMA PublishEndStep ==
  ASSUME DataInv, PublishEnd
  PROVE  DataInv'
  <1>1. /\ pos = ConnPoolSize + 1 /\ pos' = 0
        /\ UNCHANGED <<processorSide, publishChan, events, conns, count, state,
                       inbox>>
    BY DEF PublishEnd, dpVars, poolVars, clientVars, processorSide
  <1>2. ChainInv' /\ TurnInv' /\ EventInv' /\ Routed' = Routed
    BY <1>1, EventFrame
  <1>3. RouterInv'
    BY <1>1, SlotFacts DEF RouterInv
  <1>4. SlotInv'
    BY <1>1 DEF DataInv, SlotInv, InUse, Live
  <1>5. ASSUME NEW c \in Conn
        PROVE  BoxOrdered(c)' /\ BoxComplete(c)'
    <2>1. pos \notin Slot /\ pos' \notin Slot
      BY <1>1, SlotFacts DEF Slot
    <2>2. ~Pending(c) /\ ~Pending(c)' /\ (Live(c)' <=> Live(c))
      BY <1>1, <2>1 DEF Pending, Live
    <2> QED
      BY <1>1, <1>2, <2>2, BoxFrame
  <1>6. InboxInv'
    BY <1>1, <1>5 DEF DataInv, InboxInv
  <1> QED
    BY <1>2, <1>3, <1>4, <1>6 DEF DataInv

-----------------------------------------------------------------------------
LEMMA ConnectStep ==
  ASSUME DataInv, NEW c \in Conn, HandleConnect(c)
  PROVE  DataInv'
  <1> DEFINE a == Topic[c]
             p == SelectPosition(a)
  <1>1. /\ state[c] = "new" /\ pos = 0
        /\ UNCHANGED <<processorSide, publishChan, events, pos, event, inbox>>
    BY DEF HandleConnect, dpVars, routerVars, processorSide
  <1>2. /\ ChainInv' /\ TurnInv' /\ EventInv' /\ Routed' = Routed
        /\ RouterInv'
    BY <1>1, EventFrame DEF DataInv, RouterInv
  <1>3. /\ a \in Addr /\ InUse(a) \subseteq Slot
        /\ state \in [Conn -> {"new", "open", "stalled", "gone"}]
        /\ conns \in [Addr -> [Slot -> Conn \cup {None}]]
        /\ count \in [Addr -> 0..ConnPoolSize]
        /\ count[a] = Cardinality(InUse(a))
    <2>1. a \in Addr
      BY CommandFacts
    <2>2. InUse(a) \subseteq Slot
      BY DEF InUse
    <2> QED
      BY <2>1, <2>2 DEF DataInv, SlotInv
  <1>4. \A b \in Addr, i \in Slot : conns[b][i] # c
    BY <1>1, CommandFacts DEF DataInv, SlotInv
  <1>5. ASSUME Full(a)
        PROVE  SlotInv'
    <2>1. state' = [state EXCEPT ![c] = "gone"] /\ UNCHANGED <<conns, count>>
      BY <1>5 DEF HandleConnect, poolVars
    <2>2. \A d \in Conn : /\ Live(d)' => Live(d)
                          /\ state'[d] = "new" => state[d] = "new"
      BY <1>3, <2>1 DEF Live
    <2> QED
      BY <1>3, <2>1, <2>2 DEF DataInv, SlotInv, InUse
  <1>6. ASSUME ~Full(a)
        PROVE  SlotInv'
    <2>1. count[a] < ConnPoolSize /\ InUse(a) # Slot
      BY <1>3, <1>6, UseFacts, SlotFacts DEF Full
    <2>2. /\ state' = [state EXCEPT ![c] = "open"]
          /\ conns' = [conns EXCEPT ![a][p] = c]
          /\ count' = [count EXCEPT ![a] = @ + 1]
      BY <1>6, <2>1 DEF HandleConnect
    <2>3. p \in Slot /\ p \notin InUse(a)
      <3>1. Slot \ InUse(a) # {} /\ Slot \ InUse(a) \in SUBSET Nat
        BY <1>3, <2>1, SlotFacts
      <3>2. Min(Slot \ InUse(a)) \in Slot \ InUse(a)
        BY <3>1, MinFacts
      <3> QED
        BY <3>2 DEF SelectPosition
    <2> HIDE DEF p
    <2>4. /\ conns' \in [Addr -> [Slot -> Conn \cup {None}]]
          /\ conns'[a][p] = c /\ conns[a][p] = None
          /\ \A b \in Addr, i \in Slot :
               b # a \/ i # p => conns'[b][i] = conns[b][i]
      <3>1. conns' = [conns EXCEPT ![a] = [conns[a] EXCEPT ![p] = c]]
        BY <1>3, <2>2, <2>3
      <3>2. [conns[a] EXCEPT ![p] = c] \in [Slot -> Conn \cup {None}]
        BY <1>3, <2>3
      <3>3. conns[a][p] = None
        BY <2>3 DEF InUse
      <3> QED
        BY <1>3, <2>3, <3>1, <3>2, <3>3
    <2>5. InUse(a)' = InUse(a) \cup {p}
      BY <1>3, <2>3, <2>4, CommandFacts DEF InUse
    <2>6. \A b \in Addr \ {a} : InUse(b)' = InUse(b)
      BY <2>4 DEF InUse
    <2>7. Cardinality(InUse(a)') = Cardinality(InUse(a)) + 1
      BY <1>3, <2>3, <2>5, UseFacts, FS_AddElement
    <2>8. /\ count' \in [Addr -> 0..ConnPoolSize]
          /\ \A b \in Addr : count'[b] = Cardinality(InUse(b)')
      BY <1>3, <2>1, <2>2, <2>6, <2>7, SlotFacts DEF DataInv, SlotInv
    <2>9. /\ state' \in [Conn -> {"new", "open", "stalled", "gone"}]
          /\ state'[c] = "open" /\ \A d \in Conn \ {c} : state'[d] = state[d]
      BY <1>3, <2>2
    <2>10. ASSUME NEW b \in Addr, NEW i \in Slot, conns'[b][i] # None
           PROVE  /\ Topic[conns'[b][i]] = b /\ state'[conns'[b][i]] # "new"
                  /\ \A j \in Slot : conns'[b][j] = conns'[b][i] => j = i
      <3>1. CASE b = a /\ i = p
        BY <1>4, <2>4, <2>9, <3>1
      <3>2. CASE b # a \/ i # p
        <4>1. conns'[b][i] = conns[b][i] /\ conns[b][i] \in Conn \ {c}
          BY <1>3, <1>4, <2>4, <2>10, <3>2
        <4>2. /\ Topic[conns[b][i]] = b /\ state[conns[b][i]] # "new"
              /\ \A j \in Slot : conns[b][j] = conns[b][i] => j = i
          BY <2>10, <4>1 DEF DataInv, SlotInv
        <4> QED
          BY <2>4, <2>9, <4>1, <4>2
      <3> QED
        BY <3>1, <3>2
    <2>11. ASSUME NEW d \in Conn, Live(d)'
           PROVE  \E i \in Slot : conns'[Topic[d]][i] = d
      <3>1. CASE d = c
        BY <2>3, <2>4, <3>1
      <3>2. CASE d # c
        <4>1. Live(d)
          BY <2>9, <2>11, <3>2 DEF Live
        <4>2. PICK i \in Slot : conns[Topic[d]][i] = d
          BY <4>1 DEF DataInv, SlotInv
        <4>3. Topic[d] # a \/ i # p
          BY <2>4, <4>2, CommandFacts
        <4>4. Topic[d] \in Addr
          BY CommandFacts
        <4> QED
          BY <2>4, <4>2, <4>3, <4>4
      <3> QED
        BY <3>1, <3>2
    <2> QED
      BY <2>4, <2>8, <2>9, <2>10, <2>11 DEF SlotInv, InUse
  <1>7. ASSUME NEW d \in Conn
        PROVE  BoxOrdered(d)' /\ BoxComplete(d)'
    <2>1. ~Pending(d) /\ ~Pending(d)'
      BY <1>1, SlotFacts DEF Pending, Slot
    <2>2. CASE d = c
      <3>1. inbox'[d] = <<>> /\ IsSeq(inbox'[d]) /\ Len(<<>>) = 0
        BY <1>1, <2>2 DEF DataInv, InboxInv, BoxOrdered
      <3> QED
        BY <2>1, <3>1 DEF BoxOrdered, BoxComplete
    <2>3. CASE d # c
      <3>1. state'[d] = state[d]
        BY <1>3, <2>3 DEF HandleConnect
      <3>2. Live(d)' <=> Live(d)
        BY <3>1 DEF Live
      <3> QED
        BY <1>1, <1>2, <2>1, <3>1, <3>2, BoxFrame
    <2> QED
      BY <2>2, <2>3
  <1>8. InboxInv'
    BY <1>1, <1>7 DEF DataInv, InboxInv
  <1> QED
    BY <1>2, <1>5, <1>6, <1>8 DEF DataInv

LEMMA ClientSteps ==
  ASSUME DataInv, NEW c \in Conn, ClientLeaves(c) \/ ClientStalls(c)
  PROVE  DataInv'
  <1>1. /\ Live(c)
        /\ \E s \in {"gone", "stalled"} : state' = [state EXCEPT ![c] = s]
        /\ UNCHANGED <<processorSide, publishChan, events, pos, event, conns,
                       count, inbox>>
    BY DEF ClientLeaves, ClientStalls, dpVars, routerVars, poolVars,
           processorSide, Live
  <1>2. /\ ChainInv' /\ TurnInv' /\ EventInv' /\ Routed' = Routed
        /\ RouterInv'
    BY <1>1, EventFrame DEF DataInv, RouterInv
  <1>3. /\ state' \in [Conn -> {"new", "open", "stalled", "gone"}]
        /\ \A d \in Conn : /\ Live(d)' => Live(d)
                           /\ state'[d] = "new" => state[d] = "new"
    BY <1>1 DEF DataInv, SlotInv, Live
  <1>4. SlotInv'
    BY <1>1, <1>3 DEF DataInv, SlotInv, InUse
  <1>5. ASSUME NEW d \in Conn
        PROVE  BoxOrdered(d)' /\ BoxComplete(d)'
    <2>1. Pending(d)' <=> Pending(d)
      BY <1>1 DEF Pending
    <2> QED
      BY <1>1, <1>2, <1>3, <2>1, BoxFrame
  <1>6. InboxInv'
    BY <1>1, <1>5 DEF DataInv, InboxInv
  <1> QED
    BY <1>2, <1>4, <1>6 DEF DataInv

LEMMA CrashStep ==
  ASSUME DataInv, Crash
  PROVE  DataInv'
  <1> USE CommandFacts, SlotFacts
  <1>1. /\ sent' = IF stored = 0 THEN 0 ELSE BlockEnd[stored]
        /\ taskChannel' = <<>> /\ publishChan' = <<>> /\ events' = <<>>
        /\ dpPc' = "idle" /\ dpTask' = 0 /\ pos' = 0
        /\ conns' = [a \in Addr |-> [i \in Slot |-> None]]
        /\ count' = [a \in Addr |-> 0]
        /\ state' = [c \in Conn |-> IF state[c] = "new" THEN "new" ELSE "gone"]
        /\ inbox' = [c \in Conn |-> <<>>]
        /\ UNCHANGED <<stored, entries>>
    BY DEF Crash
  <1>2. ChainInv'
    <2>1. stored \in 0..Len(BlockEnd)
      BY DEF DataInv, ChainInv
    <2>2. stored # 0 => BlockEnd[stored] \in 0..Len(Tasks)
      BY <2>1, ElementOfSeq
    <2>3. stored < Len(BlockEnd) => BlockEnd[stored + 1] \in 0..Len(Tasks)
      BY <2>1, ElementOfSeq
    <2>4. sent' \in 0..Len(Tasks)
      BY <1>1, <2>2
    <2>5. stored < Len(BlockEnd) => sent' <= BlockEnd[stored + 1]
      <3>1. stored # 0 /\ stored < Len(BlockEnd) =>
              /\ stored \in 1..Len(BlockEnd) /\ stored + 1 \in 1..Len(BlockEnd)
              /\ stored <= stored + 1
        BY <2>1
      <3>2. stored # 0 /\ stored < Len(BlockEnd) =>
              BlockEnd[stored] <= BlockEnd[stored + 1]
        BY <3>1
      <3> QED
        BY <1>1, <2>3, <3>2
    <2>6. taskChannel' \in Seq(1..Len(Tasks)) /\ Len(taskChannel') <= TaskCap
      BY <1>1
    <2> QED
      BY <1>1, <2>4, <2>5, <2>6 DEF DataInv, ChainInv
  <1>3. TurnInv'
    BY <1>1 DEF TurnInv
  <1>4. <<>> \in Seq({}) /\ Len(<<>>) = 0
    OBVIOUS
  <1>5. EventInv'
    <2>1. IsSeq(events') /\ IsSeq(publishChan')
      BY <1>1, <1>4 DEF IsSeq
    <2> QED
      BY <1>1, <1>4, <2>1 DEF EventInv, EventsInTurn
  <1>6. RouterInv'
    BY <1>1 DEF RouterInv
  <1>7. SlotInv'
    <2>1. \A a \in Addr : InUse(a)' = {}
      BY <1>1 DEF InUse
    <2>2. \A a \in Addr : count'[a] = Cardinality(InUse(a)')
      BY <1>1, <2>1, FS_EmptySet
    <2>3. \A c \in Conn : ~Live(c)'
      BY <1>1 DEF Live
    <2> QED
      BY <1>1, <2>2, <2>3 DEF SlotInv, InUse
  <1>8. ASSUME NEW c \in Conn
        PROVE  BoxOrdered(c)' /\ BoxComplete(c)'
    <2>1. inbox'[c] = <<>> /\ IsSeq(inbox'[c])
      BY <1>1, <1>4 DEF IsSeq
    <2> QED
      BY <1>4, <2>1 DEF BoxOrdered, BoxComplete
  <1>9. InboxInv'
    BY <1>1, <1>8 DEF InboxInv
  <1> QED
    BY <1>2, <1>3, <1>5, <1>6, <1>7, <1>9 DEF DataInv

LEMMA DataStep ==
  ASSUME DataInv, [Next]_vars
  PROVE  DataInv'
  <1>1. CASE UNCHANGED vars
    <2>1. UNCHANGED <<processorSide, routerSide>>
      BY <1>1 DEF vars, processorSide, routerSide, dpVars
    <2>2. UNCHANGED <<publishChan, events>>
      BY <2>1 DEF routerSide
    <2> QED
      BY <2>1, <2>2, EventFrame, RouterFrame DEF DataInv
  <1>2. CASE insertBlock \/ Processor
    BY <1>2, BlockSteps, RunStep, WriteSteps, AppendEventStep DEF Processor
  <1>3. CASE Router
    BY <1>3, ProcessStep, PublishStep, PublishFailsStep, PublishEndStep
       DEF Router
  <1>4. CASE \E c \in Conn : HandleConnect(c) \/ ClientLeaves(c) \/ ClientStalls(c)
    BY <1>4, ConnectStep, ClientSteps
  <1>5. CASE Crash
    BY <1>5, CrashStep
  <1> QED
    BY <1>1, <1>2, <1>3, <1>4, <1>5 DEF Next

LEMMA DataAlways == Spec => []DataInv
  BY InitData, DataStep, PTL DEF Spec

(* The variables of the data processor and the router keep their types:    *)
(* no channel exceeds its capacity and no topic has more connections than  *)
(* slots.                                                                  *)
THEOREM DataTypeCorrect == Spec => []TypeOK
  <1>1. DataInv => TypeOK
    BY DEF DataInv, ChainInv, TurnInv, EventInv, RouterInv, SlotInv, TypeOK
  <1> QED
    BY <1>1, DataAlways, PTL

(* Between two crashes the data processor has the commands of the chain    *)
(* one after the other, none twice and none left out.                      *)
THEOREM CommandsInTurn == Spec => []TurnInv
  <1>1. DataInv => TurnInv
    BY DEF DataInv
  <1> QED
    BY <1>1, DataAlways, PTL

(* Whoever connects, leaves, stalls or fails: the slots of a topic are its *)
(* counter's and its open connections', and every connection gets the      *)
(* events of its topic in order, once each and without a gap.              *)
THEOREM Served == Spec => []SubscribersServed
  <1>1. ASSUME DataInv
        PROVE  InboxContiguous
    <2>1. ASSUME NEW c \in Conn
          PROVE  /\ \A i, j \in 1..Len(inbox[c]) :
                      i < j => inbox[c][i].task < inbox[c][j].task
                 /\ \A i \in 1..Len(inbox[c]) : \E n \in 1..Len(events) :
                      inbox[c][i] = events[n] /\ events[n].addr = Topic[c]
      <3>1. 1..Routed \subseteq 1..Len(events)
        BY <1>1, RoutedFacts
      <3> QED
        BY <1>1, <3>1 DEF DataInv, InboxInv, BoxOrdered
    <2>2. ASSUME NEW c \in Conn, NEW i \in 1..Len(inbox[c]),
                 NEW j \in 1..Len(inbox[c]), NEW n \in 1..Len(events),
                 events[n].addr = Topic[c],
                 inbox[c][i].task < events[n].task,
                 events[n].task < inbox[c][j].task
          PROVE  Held(c, n)
      <3>1. PICK m \in 1..Routed : inbox[c][j] = events[m]
        BY <1>1 DEF DataInv, InboxInv, BoxOrdered
      <3>2. /\ m \in 1..Len(events)
            /\ events[m].task \in Nat /\ events[n].task \in Nat
        <4>1. m \in 1..Len(events)
          BY <1>1, RoutedFacts
        <4> QED
          BY <1>1, <4>1 DEF DataInv, EventInv
      <3>3. ~(m < n)
        BY <1>1, <2>2, <3>1, <3>2 DEF DataInv, EventInv, EventsInTurn
      <3>4. n \in 1..Routed
        BY <1>1, <3>2, <3>3, RoutedFacts
      <3> QED
        BY <1>1, <2>2, <3>4 DEF DataInv, InboxInv, BoxComplete
    <2>3. \A c \in Conn : \A i, j \in 1..Len(inbox[c]), n \in 1..Len(events) :
            /\ events[n].addr = Topic[c]
            /\ inbox[c][i].task < events[n].task
            /\ events[n].task < inbox[c][j].task
            => \E k \in 1..Len(inbox[c]) : inbox[c][k] = events[n]
      BY <2>2 DEF Held
    <2> QED
      BY <2>1, <2>3, Zenon DEF InboxContiguous
  <1>2. ASSUME DataInv
        PROVE  SlotsCounted
    <2>1. SUFFICES ASSUME NEW c \in Conn, state[c] \in {"open", "stalled"}
                   PROVE  Cardinality({i \in Slot : conns[Topic[c]][i] = c}) = 1
      BY <1>2 DEF SlotsCounted, DataInv, SlotInv
    <2>2. PICK i \in Slot : conns[Topic[c]][i] = c
      BY <1>2, <2>1 DEF DataInv, SlotInv, Live
    <2>3. Topic[c] \in Addr /\ c # None
      BY CommandFacts
    <2>4. {j \in Slot : conns[Topic[c]][j] = c} = {i}
      BY <1>2, <2>2, <2>3 DEF DataInv, SlotInv
    <2> QED
      BY <2>4, FS_Singleton
  <1>3. DataInv => SubscribersServed
    BY <1>1, <1>2 DEF SubscribersServed, DataInv, EventInv
  <1> QED
    BY <1>3, DataAlways, PTL
-----------------------------------------------------------------------------

-----------------------------------------------------------------------------
(***************************************************************************)
(* The entries follow the chain: one command more makes of an address what *)
(* the data processor makes of its entry.                                  *)
(***************************************************************************)
LEMMA MaxFacts ==
  ASSUME NEW n \in Nat, NEW S \in SUBSET (1..n), S # {}
  PROVE  Max(S) \in S /\ \A y \in S : Max(S) >= y
  <1> DEFINE D == {n - x : x \in S}
  <1>1. D \in SUBSET Nat /\ D # {}
    <2>1. \A x \in S : n - x \in Nat
      OBVIOUS
    <2> QED
      BY <2>1
  <1>2. Min(D) \in D /\ \A e \in D : Min(D) =< e
    <2> HIDE DEF D
    <2> QED
      BY <1>1, MinFacts
  <1>3. PICK x \in S : Min(D) = n - x
    BY <1>2
  <1>4. \A y \in S : n - y \in D
    OBVIOUS
  <1> HIDE DEF D
  <1>5. ASSUME NEW y \in S
        PROVE  x >= y
    <2>1. n - x <= n - y
      BY <1>2, <1>3, <1>4
    <2> QED
      BY <2>1
  <1> QED
    BY <1>5 DEF Max

(* The last set among n commands is one of them.                           *)
LEMMA LastSetFacts ==
  ASSUME NEW a, NEW n \in Nat
  PROVE  /\ LastSet(a, n) \in 0..n
         /\ LastSet(a, n) # 0 => LastSet(a, n) \in Sets(a, n)
  <1>1. CASE Sets(a, n) = {}
    BY <1>1 DEF LastSet
  <1>2. CASE Sets(a, n) # {}
    <2>1. Sets(a, n) \in SUBSET (1..n)
      BY DEF Sets
    <2>2. Max(Sets(a, n)) \in Sets(a, n)
      BY <1>2, <2>1, MaxFacts
    <2> QED
      BY <1>2, <2>1, <2>2 DEF LastSet
  <1> QED
    BY <1>1, <1>2

LEMMA NextSet ==
  ASSUME NEW a, NEW n \in Nat
  PROVE  LastSet(a, n + 1) = IF Tasks[n + 1].opt = "set" /\ Tasks[n + 1].addr = a
                             THEN n + 1 ELSE LastSet(a, n)
  <1>1. CASE Tasks[n + 1].opt = "set" /\ Tasks[n + 1].addr = a
    <2>1. /\ Sets(a, n + 1) \in SUBSET (1..(n + 1)) /\ n + 1 \in Nat
          /\ n + 1 \in Sets(a, n + 1)
      BY <1>1 DEF Sets
    <2>2. /\ Max(Sets(a, n + 1)) \in Sets(a, n + 1)
          /\ Max(Sets(a, n + 1)) >= n + 1
      BY <2>1, MaxFacts
    <2> QED
      BY <1>1, <2>1, <2>2 DEF LastSet
  <1>2. CASE ~(Tasks[n + 1].opt = "set" /\ Tasks[n + 1].addr = a)
    <2>1. Sets(a, n + 1) = Sets(a, n)
      BY <1>2 DEF Sets
    <2> QED
      BY <1>2, <2>1 DEF LastSet
  <1> QED
    BY <1>1, <1>2

LEMMA NextAppended ==
  ASSUME NEW a, NEW n \in Nat
  PROVE  /\ Appended(a, n) \subseteq 1..n
         /\ Tasks[n + 1].addr # a => Appended(a, n + 1) = Appended(a, n)
         /\ Tasks[n + 1].addr = a /\ Tasks[n + 1].opt = "set"
              => Appended(a, n + 1) = {}
         /\ Tasks[n + 1].addr = a /\ Tasks[n + 1].opt = "append"
              => Appended(a, n + 1) = IF IsMap(Tasks[n + 1].value)
                                      THEN Appended(a, n) \cup {n + 1}
                                      ELSE Appended(a, n)
  <1>1. LastSet(a, n) \in 0..n
    BY LastSetFacts
  <1>2. CASE Tasks[n + 1].addr = a /\ Tasks[n + 1].opt = "set"
    <2>1. LastSet(a, n + 1) = n + 1
      BY <1>2, NextSet
    <2> QED
      BY <1>2, <2>1 DEF Appended
  <1>3. CASE ~(Tasks[n + 1].addr = a /\ Tasks[n + 1].opt = "set")
    <2>1. LastSet(a, n + 1) = LastSet(a, n)
      BY <1>3, NextSet
    <2> QED
      BY <1>1, <1>3, <2>1 DEF Appended
  <1> QED
    BY <1>2, <1>3

(* A command after all others is the last one, and the order of the others *)
(* stays.                                                                  *)
LEMMA MapsGrow ==
  ASSUME NEW n \in Nat, NEW S \in SUBSET (1..n)
  PROVE  /\ Cardinality(S) \in Nat /\ (Cardinality(S) = 0 <=> S = {})
         /\ Cardinality(S \cup {n + 1}) = Cardinality(S) + 1
         /\ \A k \in 1..Cardinality(S) : Nth(S \cup {n + 1}, k) = Nth(S, k)
         /\ Nth(S \cup {n + 1}, Cardinality(S) + 1) = n + 1
  <1> DEFINE T == S \cup {n + 1}
             c == Cardinality(S)
             Upto(R, i) == {j \in R : j <= i}
  <1>1. IsFiniteSet(S) /\ c \in Nat /\ (c = 0 <=> S = {})
    <2>1. IsFiniteSet(1..n)
      BY FS_Interval
    <2>2. IsFiniteSet(S)
      BY <2>1, FS_Subset
    <2> QED
      BY <2>2, FS_CardinalityType, FS_EmptySet
  <1>2. IsFiniteSet(T) /\ Cardinality(T) = c + 1
    <2>1. n + 1 \notin S
      OBVIOUS
    <2> QED
      BY <1>1, <2>1, FS_AddElement
  <1>0. n + 1 \notin S /\ \A i : i \in T <=> i \in S \/ i = n + 1
    OBVIOUS
  <1>3. Upto(T, n + 1) = T
    <2>1. \A j \in T : j <= n + 1
      OBVIOUS
    <2> HIDE DEF T
    <2> QED
      BY <2>1
  <1>4. \A i \in S : Upto(T, i) = Upto(S, i) /\ Upto(S, i) \in SUBSET S
    OBVIOUS
  <1>5. \A i \in S : Cardinality(Upto(S, i)) \in Nat /\ Cardinality(Upto(S, i)) <= c
    <2> HIDE DEF Upto
    <2> QED
      BY <1>1, <1>4, FS_Subset, FS_CardinalityType
  <1> HIDE DEF c, Upto, T
  <1>6. ASSUME NEW k \in 1..c
        PROVE  Nth(T, k) = Nth(S, k)
    <2>1. \A i : (i \in T /\ Cardinality(Upto(T, i)) = k)
                   <=> (i \in S /\ Cardinality(Upto(S, i)) = k)
      <3> TAKE i
      <3>1. CASE i = n + 1
        <4>1. Cardinality(Upto(T, i)) = c + 1 /\ i \notin S
          BY <1>0, <1>2, <1>3, <3>1
        <4> QED
          BY <1>1, <4>1
      <3>2. CASE i \in S
        BY <1>0, <1>4, <3>2
      <3> QED
        BY <1>0, <3>1, <3>2
    <2>2. (CHOOSE i \in T : Cardinality(Upto(T, i)) = k)
            = (CHOOSE i \in S : Cardinality(Upto(S, i)) = k)
      BY <2>1
    <2> QED
      BY <2>2 DEF Nth, Upto
  <1>7. Nth(T, c + 1) = n + 1
    <2>1. \A i \in T : Cardinality(Upto(T, i)) = c + 1 <=> i = n + 1
      <3> TAKE i \in T
      <3>1. CASE i = n + 1
        BY <1>2, <1>3, <3>1
      <3>2. CASE i \in S
        <4>1. Cardinality(Upto(T, i)) \in Nat /\ Cardinality(Upto(T, i)) <= c
          BY <1>4, <1>5, <3>2
        <4> QED
          BY <1>0, <1>1, <3>2, <4>1
      <3> QED
        BY <1>0, <3>1, <3>2
    <2>2. (CHOOSE i \in T : Cardinality(Upto(T, i)) = c + 1) = n + 1
      BY <2>1
    <2> QED
      BY <2>2 DEF Nth, Upto
  <1> QED
    BY <1>1, <1>2, <1>6, <1>7 DEF c, T

Base(a, n) == IF LastSet(a, n) = 0 THEN Missing ELSE Tasks[LastSet(a, n)].value
Made(base, maps) ==
  CASE base.kind \in {"text", "map"} -> base
    [] base.kind = "array" -> ArrayOf(base.maps \o maps)
    [] base.kind = "missing" ->
         IF maps = <<>> THEN Missing ELSE ArrayOf(maps)

(* What a command makes of an entry.                                       *)
After(v, t) ==
  IF t.opt = "set" THEN t.value
  ELSE IF Appends(v, t.value) THEN Extended(v, t.value) ELSE v

LEMMA MadeOf ==
  ASSUME NEW a, NEW n
  PROVE  Reference(a, n) = Made(Base(a, n), MapsOf(Appended(a, n)))
  BY DEF Reference, Made, Base

LEMMA BaseFacts ==
  ASSUME NEW a, NEW n \in 0..Len(Tasks)
  PROVE  /\ Base(a, n).kind \in {"missing", "text", "map", "array"}
         /\ Base(a, n).kind = "array" => IsArray(Base(a, n))
         /\ Base(a, n).kind = "missing" => Base(a, n) = Missing
  <1>1. LastSet(a, n) \in 0..n
    BY CommandFacts, LastSetFacts
  <1>2. CASE LastSet(a, n) = 0
    BY <1>2 DEF Base, Missing
  <1>3. CASE LastSet(a, n) # 0
    <2>1. LastSet(a, n) \in 1..Len(Tasks)
      BY <1>1, <1>3, CommandFacts
    <2>2. Base(a, n) = Tasks[LastSet(a, n)].value
      BY <1>3 DEF Base
    <2> QED
      BY <2>1, <2>2, DataAssumption
  <1> QED
    BY <1>2, <1>3

LEMMA ArrayFacts ==
  ASSUME NEW v, IsArray(v)
  PROVE  v.kind = "array" /\ IsSeq(v.maps) /\ v = ArrayOf(v.maps)
  <1>1. v = ArrayOf(v.maps) /\ v.kind = "array"
    BY DEF IsArray, ArrayOf
  <1> DEFINE s == v.maps
             S == {s[i] : i \in 1..Len(s)}
  <1>2. Len(s) \in Nat /\ s = [i \in 1..Len(s) |-> s[i]]
    BY DEF IsArray
  <1> HIDE DEF s
  <1>3. s \in Seq(S)
    BY <1>2
  <1>4. IsSeq(s)
    BY <1>3 DEF IsSeq
  <1> QED
    BY <1>1, <1>4 DEF s

LEMMA MapsSeq ==
  ASSUME NEW n \in Nat, NEW S \in SUBSET (1..n)
  PROVE  /\ IsSeq(MapsOf(S)) /\ Len(MapsOf(S)) = Cardinality(S)
         /\ S = {} => MapsOf(S) = <<>>
         /\ MapsOf(S \cup {n + 1}) = Append(MapsOf(S), Tasks[n + 1].value.map)
  <1> DEFINE c == Cardinality(S)
             s == MapsOf(S)
             t == MapsOf(S \cup {n + 1})
             m == Tasks[n + 1].value.map
  <1>1. /\ c \in Nat /\ (c = 0 <=> S = {})
        /\ Cardinality(S \cup {n + 1}) = c + 1
        /\ \A k \in 1..c : Nth(S \cup {n + 1}, k) = Nth(S, k)
        /\ Nth(S \cup {n + 1}, c + 1) = n + 1
    BY MapsGrow
  <1>2. /\ s = [k \in 1..c |-> Tasks[Nth(S, k)].value.map]
        /\ t = [k \in 1..(c + 1) |-> Tasks[Nth(S \cup {n + 1}, k)].value.map]
    BY <1>1 DEF MapsOf
  <1>3. t = [k \in 1..(c + 1) |-> IF k = c + 1 THEN m ELSE s[k]]
    <2>1. \A k \in 1..(c + 1) : Tasks[Nth(S \cup {n + 1}, k)].value.map
                                  = IF k = c + 1 THEN m ELSE s[k]
      <3> TAKE k \in 1..(c + 1)
      <3>1. CASE k = c + 1
        BY <1>1, <3>1
      <3>2. CASE k \in 1..c
        <4>1. s[k] = Tasks[Nth(S, k)].value.map
          BY <1>2, <3>2
        <4>2. k # c + 1
          BY <1>1, <3>2
        <4>3. Nth(S \cup {n + 1}, k) = Nth(S, k)
          BY <1>1, <3>2
        <4> HIDE DEF s, m, c
        <4> QED
          BY <4>1, <4>2, <4>3
      <3> QED
        BY <1>1, <3>1, <3>2
    <2> QED
      BY <1>2, <2>1
  <1> DEFINE X == {s[k] : k \in 1..c}
  <1> HIDE DEF c
  <1>4. s \in Seq(X) /\ Len(s) = c
    BY <1>1, <1>2
  <1>5. IsSeq(s)
    BY <1>4 DEF IsSeq
  <1>6. S = {} => s = <<>>
    BY <1>1, <1>4
  <1> HIDE DEF s, t, m, X
  <1>7. t = Append(s, m)
    BY <1>1, <1>3, <1>4, <1>5, IsSeqFacts
  <1> QED
    BY <1>4, <1>5, <1>6, <1>7 DEF s, t, m, c

(* Concatenating a sequence that grows by one, and with the empty one.     *)
LEMMA ConcatFacts ==
  ASSUME NEW r, IsSeq(r), NEW s, IsSeq(s), NEW m
  PROVE  /\ r \o <<>> = r
         /\ r \o Append(s, m) = Append(r \o s, m)
         /\ Append(s, m) # <<>>
         /\ Append(<<>>, m) = <<m>>
  <1>1. PICK R : r \in Seq(R)
    BY DEF IsSeq
  <1>2. PICK S : s \in Seq(S)
    BY DEF IsSeq
  <1> DEFINE X == R \cup S \cup {m}
  <1>3. r \in Seq(X) /\ s \in Seq(X) /\ m \in X
    BY <1>1, <1>2
  <1> HIDE DEF X
  <1>4. r \o <<>> = r
    BY <1>3
  <1>5. r \o Append(s, m) = Append(r \o s, m)
    BY <1>3
  <1>6. Append(s, m) # <<>>
    BY <1>3
  <1>7. Append(<<>>, m) = <<m>>
    OBVIOUS
  <1> QED
    BY <1>4, <1>5, <1>6, <1>7

(* One map more is what appendData does to the entry.                      *)
LEMMA MadeAppend ==
  ASSUME NEW base, base.kind \in {"missing", "text", "map", "array"},
         base.kind = "array" => IsArray(base),
         base.kind = "missing" => base = Missing,
         NEW s, IsSeq(s), NEW w, IsMap(w)
  PROVE  Made(base, Append(s, w.map))
           = IF Appends(Made(base, s), w) THEN Extended(Made(base, s), w)
             ELSE Made(base, s)
  <1> DEFINE m == w.map
  <1>1. CASE base.kind \in {"text", "map"}
    <2>1. Made(base, s) = base /\ Made(base, Append(s, m)) = base
      BY <1>1 DEF Made
    <2>2. ~Appends(base, w)
      BY <1>1 DEF Appends
    <2> HIDE DEF m
    <2> QED
      BY <2>1, <2>2 DEF m
  <1>2. CASE base.kind = "array"
    <2>1. IsSeq(base.maps)
      BY <1>2, ArrayFacts
    <2>2. /\ Made(base, s) = ArrayOf(base.maps \o s)
          /\ Made(base, Append(s, m)) = ArrayOf(base.maps \o Append(s, m))
      BY <1>2 DEF Made
    <2>3. base.maps \o Append(s, m) = Append(base.maps \o s, m)
      <3> DEFINE r == base.maps
      <3>1. IsSeq(r)
        BY <2>1
      <3> HIDE DEF r, m
      <3>2. r \o Append(s, m) = Append(r \o s, m)
        BY <3>1, ConcatFacts
      <3> QED
        BY <3>2 DEF r
    <2> DEFINE q == base.maps \o s
    <2> HIDE DEF q
    <2>4. ArrayOf(q).kind = "array" /\ ArrayOf(q).maps = q
      BY DEF ArrayOf
    <2>5. Appends(ArrayOf(q), w) /\ Extended(ArrayOf(q), w) = ArrayOf(Append(q, m))
      BY <2>4 DEF Appends, Extended
    <2> QED
      BY <2>2, <2>3, <2>5 DEF q
  <1>3. CASE base.kind = "missing"
    <2>1. /\ Made(base, s) = IF s = <<>> THEN Missing ELSE ArrayOf(s)
          /\ Made(base, Append(s, m)) = ArrayOf(Append(s, m))
      <3>1. Append(s, m) # <<>>
        BY ConcatFacts
      <3> QED
        BY <1>3, <3>1 DEF Made
    <2>2. CASE s = <<>>
      <3>1. Append(s, m) = <<m>>
        BY <2>2
      <3>2. Missing.kind = "missing"
        BY DEF Missing
      <3>3. Appends(Missing, w) /\ Extended(Missing, w) = ArrayOf(<<m>>)
        BY <3>2 DEF Appends, Extended
      <3> QED
        BY <2>1, <2>2, <3>1, <3>3
    <2>3. CASE s # <<>>
      <3>1. ArrayOf(s).kind = "array" /\ ArrayOf(s).maps = s
        BY DEF ArrayOf
      <3>2. Appends(ArrayOf(s), w) /\ Extended(ArrayOf(s), w) = ArrayOf(Append(s, m))
        BY <3>1 DEF Appends, Extended
      <3> QED
        BY <2>1, <2>3, <3>2
    <2> QED
      BY <2>2, <2>3
  <1> QED
    BY <1>1, <1>2, <1>3

(* The reference runs through the commands one by one, as the code does.   *)
LEMMA ReferenceStep ==
  ASSUME NEW a \in Addr, NEW n \in Nat, n + 1 \in 1..Len(Tasks)
  PROVE  Reference(a, n + 1)
           = IF Tasks[n + 1].addr = a THEN After(Reference(a, n), Tasks[n + 1])
             ELSE Reference(a, n)
  <1> DEFINE t == Tasks[n + 1]
             S == Appended(a, n)
  <1>1. /\ t.opt \in {"set", "append"}
        /\ t.value.kind \in {"text", "map", "array"}
        /\ t.value.kind = "array" => IsArray(t.value)
    BY DataAssumption
  <1>2. S \in SUBSET (1..n) /\ n \in 0..Len(Tasks) /\ n + 1 # 0
    <2>1. S \in SUBSET (1..n)
      BY NextAppended
    <2>2. Len(Tasks) \in Nat
      BY CommandFacts
    <2> QED
      BY <2>1, <2>2
  <1>3. /\ Reference(a, n) = Made(Base(a, n), MapsOf(S))
        /\ Reference(a, n + 1) = Made(Base(a, n + 1), MapsOf(Appended(a, n + 1)))
    BY MadeOf
  <1>4. CASE t.addr # a
    <2>1. Appended(a, n + 1) = S /\ Base(a, n + 1) = Base(a, n)
      BY <1>4, NextAppended, NextSet DEF Base
    <2> QED
      BY <1>3, <1>4, <2>1
  <1>5. CASE t.addr = a /\ t.opt = "set"
    <2>1. Appended(a, n + 1) = {} /\ Base(a, n + 1) = t.value
      BY <1>2, <1>5, NextAppended, NextSet DEF Base
    <2>2. MapsOf({}) = <<>>
      BY <1>2, MapsSeq
    <2>3. Made(t.value, <<>>) = t.value
      <3> DEFINE v == t.value
      <3>1. CASE v.kind = "array"
        <4>1. IsSeq(v.maps) /\ v = ArrayOf(v.maps)
          BY <1>1, <3>1, ArrayFacts
        <4>2. v.maps \o <<>> = v.maps
          BY <4>1, ConcatFacts
        <4> HIDE DEF v
        <4>3. Made(v, <<>>) = ArrayOf(v.maps \o <<>>)
          BY <3>1 DEF Made
        <4>4. Made(v, <<>>) = v
          BY <4>1, <4>2, <4>3
        <4> QED
          BY <4>4 DEF v
      <3>2. CASE v.kind \in {"text", "map"}
        BY <3>2 DEF Made
      <3> QED
        BY <1>1, <3>1, <3>2
    <2> QED
      BY <1>3, <1>5, <2>1, <2>2, <2>3 DEF After
  <1>6. CASE t.addr = a /\ t.opt = "append"
    <2>1. Base(a, n + 1) = Base(a, n)
      BY <1>6, NextSet DEF Base
    <2>2. CASE IsMap(t.value)
      <3>1. Appended(a, n + 1) = S \cup {n + 1}
        BY <1>6, <2>2, NextAppended
      <3>2. MapsOf(S \cup {n + 1}) = Append(MapsOf(S), t.value.map) /\ IsSeq(MapsOf(S))
        BY <1>2, MapsSeq
      <3> DEFINE b == Base(a, n)
                 s == MapsOf(S)
                 w == t.value
      <3>3. /\ b.kind \in {"missing", "text", "map", "array"}
            /\ b.kind = "array" => IsArray(b)
            /\ b.kind = "missing" => b = Missing
        BY <1>2, BaseFacts
      <3> HIDE DEF b, s, w
      <3>4. Made(b, Append(s, w.map)) = IF Appends(Made(b, s), w) THEN Extended(Made(b, s), w)
                                        ELSE Made(b, s)
        BY <2>2, <3>2, <3>3, MadeAppend DEF s, w
      <3> QED
        BY <1>3, <1>6, <2>1, <3>1, <3>2, <3>4 DEF After, b, s, w
    <2>3. CASE ~IsMap(t.value)
      <3>1. Appended(a, n + 1) = S
        BY <1>6, <2>3, NextAppended
      <3> QED
        BY <1>3, <1>6, <2>1, <2>3, <3>1 DEF After, Appends
    <2> QED
      BY <2>2, <2>3
  <1> QED
    BY <1>1, <1>4, <1>5, <1>6

EntriesInv == crashes \in Nat /\ EntriesFollowChain

LEMMA InitEntries ==
  ASSUME Init
  PROVE  EntriesInv
  <1>1. Applied = 0 /\ 0 \in Nat
    <2>1. sent = 0 /\ Len(taskChannel) = 0 /\ dpPc = "idle"
      BY DEF Init
    <2> QED
      BY <2>1 DEF Applied
  <1>2. ASSUME NEW a \in Addr
        PROVE  Reference(a, 0) = Missing
    <2>1. /\ Sets(a, 0) = {} /\ Appended(a, 0) = {}
      BY DEF Sets, Appended
    <2>2. MapsOf({}) = <<>>
      BY <1>1, MapsSeq
    <2>3. Base(a, 0) = Missing
      BY <2>1 DEF Base, LastSet
    <2>4. Made(Missing, <<>>) = Missing
      BY DEF Made, Missing
    <2> QED
      BY <2>1, <2>2, <2>3, <2>4, MadeOf
  <1> QED
    BY <1>1, <1>2 DEF Init, EntriesInv, EntriesFollowChain

(* The data processor applies the command it has; nothing else changes the *)
(* entries or the place it has reached.                                    *)
LEMMA EntriesStep ==
  ASSUME DataInv, EntriesInv, [Next]_vars
  PROVE  EntriesInv'
  <1>1. CASE setData \/ appendData \/ AppendError
    <2>1. /\ dpPc = "write" /\ dpPc' # "write"
          /\ UNCHANGED <<chainVars, dpTask, crashes>>
      BY <1>1 DEF setData, appendData, AppendError
    <2> DEFINE n == dpTask - 1
    <2>2. /\ dpTask = Taken /\ dpTask \in 1..Len(Tasks) /\ Len(Tasks) \in Nat
      BY <2>1, AtTask, CommandFacts DEF DataInv, TurnInv
    <2>3. n \in Nat /\ n + 1 = dpTask /\ n + 1 \in 1..Len(Tasks)
      BY <2>2
    <2>4. Applied = n /\ Applied' = n + 1
      BY <2>1, <2>2 DEF Applied, Taken, chainVars
    <2>5. Task = Tasks[n + 1] /\ Task.addr \in Addr /\ Task.opt \in {"set", "append"}
      BY <2>1, <2>3, CommandFacts DEF Task
    <2>6. entries = [a \in Addr |-> entries[a]]
      BY DEF DataInv, ChainInv
    <2>7. \A a \in Addr : entries'[a] = IF Task.addr = a THEN After(entries[a], Task)
                                        ELSE entries[a]
      <3>1. CASE setData
        BY <2>6, <3>1 DEF setData, After
      <3>2. CASE appendData
        BY <2>6, <3>2 DEF appendData, After
      <3>3. CASE AppendError
        BY <3>3 DEF AppendError, After
      <3> QED
        BY <1>1, <3>1, <3>2, <3>3
    <2>8. ASSUME NEW a \in Addr, crashes = 0
          PROVE  entries'[a] = Reference(a, n + 1)
      <3>1. entries[a] = Reference(a, n)
        BY <2>4, <2>8 DEF EntriesInv, EntriesFollowChain
      <3> HIDE DEF n
      <3> QED
        BY <2>3, <2>5, <2>7, <3>1, ReferenceStep
    <2> QED
      BY <2>1, <2>4, <2>8 DEF EntriesInv, EntriesFollowChain
  <1>2. CASE Crash
    BY <1>2 DEF Crash, EntriesInv, EntriesFollowChain
  <1>3. CASE UNCHANGED <<entries, crashes>> /\ Applied' = Applied
    BY <1>3 DEF EntriesInv, EntriesFollowChain
  <1>4. CASE SendTask
    <2>1. sent \in Nat /\ taskChannel \in Seq(1..Len(Tasks))
      BY CommandFacts DEF DataInv, ChainInv
    <2>2. Len(taskChannel') = Len(taskChannel) + 1 /\ Len(taskChannel) \in Nat
      BY <1>4, <2>1 DEF SendTask
    <2>3. Applied' = Applied
      BY <1>4, <2>1, <2>2 DEF SendTask, Applied, dpVars
    <2> QED
      BY <1>3, <1>4, <2>3 DEF SendTask
  <1>5. CASE Run
    <2>1. sent \in Nat /\ taskChannel \in Seq(1..Len(Tasks))
      BY CommandFacts DEF DataInv, ChainInv
    <2>2. Len(taskChannel') = Len(taskChannel) - 1 /\ Len(taskChannel) \in Nat
      BY <1>5, <2>1 DEF Run
    <2>3. Applied' = Applied
      BY <1>5, <2>1, <2>2 DEF Run, Applied
    <2> QED
      BY <1>3, <1>5, <2>3 DEF Run
  <1>6. CASE BatchInsert \/ AppendEvent \/ Router
               \/ (\E c \in Conn : HandleConnect(c) \/ ClientLeaves(c) \/ ClientStalls(c))
               \/ UNCHANGED vars
    <2>1. UNCHANGED <<entries, crashes>> /\ Applied' = Applied
      BY <1>6 DEF BatchInsert, AppendEvent, Router, Process, Publish,
                  PublishFails, PublishEnd, HandleConnect, ClientLeaves,
                  ClientStalls, vars, chainVars, dpVars, Applied
    <2> QED
      BY <1>3, <2>1
  <1> QED
    BY <1>1, <1>2, <1>4, <1>5, <1>6 DEF Next, insertBlock, Processor

(* While the process lives, the entries are what the commands of the chain *)
(* make of them in chain order, up to the one the data processor has       *)
(* reached: the last set of an address with the maps appended since, for   *)
(* every chain of commands and however the channels fill up.               *)
THEOREM EntriesInOrder == Spec => []EntriesFollowChain
  <1>1. Init => DataInv /\ EntriesInv
    BY InitData, InitEntries
  <1>2. DataInv /\ EntriesInv /\ [Next]_vars => (DataInv /\ EntriesInv)'
    BY DataStep, EntriesStep
  <1>3. EntriesInv => EntriesFollowChain
    BY DEF EntriesInv
  <1> QED
    BY <1>1, <1>2, <1>3, PTL DEF Spec
=============================================================================
