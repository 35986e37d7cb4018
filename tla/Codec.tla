------------------------------- MODULE Codec ---------------------------------
(***************************************************************************)
(* The serialisation of blocks, transactions, parameters and messages:     *)
(* the layouts karmem generated for common/common_km.go and                *)
(* p2p/message_km.go, the functions of utils/serializer.go and             *)
(* utils/deseralizer.go.                                                   *)
(*                                                                         *)
(* A struct takes a fixed area that begins with a word for its size.       *)
(* Arrays and integers lie in the area, whatever has a length lies behind  *)
(* it and the area holds its offset, its length and the size of an element.*)
(* Writers and viewers have tables of their own, as in the code.  A field  *)
(* is a sequence of bytes; an integer is one of 8 bytes, as written.       *)
(***************************************************************************)
EXTENDS Integers, Sequences, SequencesExt, Functions

CONSTANT Garbage    \* what the empty viewer finds

Zeros(n) == [i \in 1..n |-> 0]

(* Little-endian words of 4 bytes, for sizes below 2^24.                   *)
MaxWord == 16777215
Word(n) == <<n % 256, (n \div 256) % 256, (n \div 65536) % 256, 0>>
WordAt(d, at) == d[at + 1] + 256 * d[at + 2] + 65536 * d[at + 3]

-----------------------------------------------------------------------------
(* karmem.Writer: the memory and how much of it is in use.  Reset keeps    *)
(* what was written, and Alloc does not clear it.                          *)
NewWriter == [mem |-> <<>>, len |-> 0]

Alloc(w, n) ==
  LET len == w.len + n
  IN [mem |-> IF Len(w.mem) >= len THEN w.mem
              ELSE w.mem \o Zeros(len - Len(w.mem)),
      len |-> len]

WriteAt(w, at, bs) ==
  [w EXCEPT !.mem = SubSeq(@, 1, at) \o bs \o SubSeq(@, at + Len(bs) + 1, Len(@))]

Reset(w) == [w EXCEPT !.len = 0]

Bytes(w) == SubSeq(w.mem, 1, w.len)

(* Where Write puts a struct: at start, or at the end if start is 0.       *)
Offset(w, start) == IF start = 0 THEN w.len ELSE start
Area(w, start, n) == IF start = 0 THEN Alloc(w, n) ELSE w

Inline(name, at) == [name |-> name, at |-> at, slot |-> FALSE]
Slot(name, at) == [name |-> name, at |-> at, slot |-> TRUE]

(* Mutant: the area of a slice is taken before its offset is read.         *)
WriteSlotLate(w, at, bs) ==
  LET a == Alloc(w, Len(bs))
  IN WriteAt(WriteAt(a, at, Word(a.len) \o Word(Len(bs)) \o Word(1)), w.len, bs)

WriteSlot(w, at, bs) ==
  WriteAt(WriteAt(Alloc(w, Len(bs)), at, Word(w.len) \o Word(Len(bs)) \o Word(1)),
          w.len, bs)

(* The fields of x in the order of its Write, behind the size word.        *)
Put(x, w, at, size, fields) ==
  LET written[i \in 0..Len(fields)] ==
        IF i = 0 THEN WriteAt(w, at, Word(size))
        ELSE LET f == fields[i]
             IN IF f.slot THEN WriteSlot(written[i - 1], at + f.at, x[f.name])
                ELSE WriteAt(written[i - 1], at + f.at, x[f.name])
  IN written[Len(fields)]

Root(x, w, alloc, size, fields) == Put(x, Alloc(w, alloc), w.len, size, fields)

-----------------------------------------------------------------------------
(* karmem.Reader over the bytes d.                                         *)
IsValidOffset(d, at, n) == at + n <= Len(d)

(* The viewer of an area.                                                 *)
Valid(d, at) == IsValidOffset(d, at, 8) /\ IsValidOffset(d, at, WordAt(d, at))

(* Fields of a view: n bytes at an offset, or a slice of at most n bytes.  *)
Array(at, n) == [at |-> at, n |-> n, slot |-> FALSE]
Int64(at) == Array(at, 8)
SliceUpTo(at, n) == [at |-> at, n |-> n, slot |-> TRUE]
Slice(at) == SliceUpTo(at, MaxWord)

(* What a view can show of a struct.                                       *)
Values(view) ==
  {x \in [DOMAIN view -> Seq(Nat)] :
     \A name \in DOMAIN view :
       IF view[name].slot THEN Len(x[name]) <= view[name].n
       ELSE Len(x[name]) = view[name].n}

AtMost(a, b) == IF a < b THEN a ELSE b

(* A slice whose place is not within the data is empty.                    *)
SliceAt(d, at, n) ==
  LET off == WordAt(d, at)
      len == WordAt(d, at + 4)
  IN IF IsValidOffset(d, off, len) THEN SubSeq(d, off + 1, off + AtMost(len, n))
     ELSE <<>>

(* A field beyond the size is empty, and an array is then filled with 0.   *)
Get(d, at, f) ==
  LET within == f.at + (IF f.slot THEN 12 ELSE f.n) <= WordAt(d, at)
  IN CASE f.slot /\ within -> SliceAt(d, at + f.at, f.n)
       [] f.slot /\ ~within -> <<>>
       [] ~f.slot /\ within -> SubSeq(d, at + f.at + 1, at + f.at + f.n)
       [] OTHER -> Zeros(f.n)

(* Data too short for the area are read through the empty viewer, whose    *)
(* address is that of a slice header, not of zeros: its fields are what    *)
(* lies beside that header in memory.                                      *)
Read(d, at, view) ==
  [name \in DOMAIN view |-> IF Valid(d, at) THEN Get(d, at, view[name])
                            ELSE Garbage]

-----------------------------------------------------------------------------
TransactionBodyFields ==
  <<Inline("Hash", 4), Inline("Address", 36), Inline("Receiver", 56),
    Inline("Gas", 76), Inline("Nonce", 84), Slot("Event", 92), Slot("Opt", 104),
    Slot("State", 116), Slot("Data", 128), Inline("Expire", 140),
    Inline("Height", 148), Inline("Index", 156), Inline("BlockHash", 164),
    Inline("Timestamp", 196), Inline("Public", 204), Slot("Signature", 237)>>

TransactionBodyWrite(x, w, start) ==
  Put(x, Area(w, start, 256), Offset(w, start), 249, TransactionBodyFields)

TransactionBodyViewer ==
  [Hash |-> Array(4, 32), Address |-> Array(36, 20), Receiver |-> Array(56, 20),
   Gas |-> Int64(76), Nonce |-> Int64(84), Event |-> Slice(92),
   Opt |-> Slice(104), State |-> Slice(116), Data |-> Slice(128),
   Expire |-> Int64(140), Height |-> Int64(148), Index |-> Int64(156),
   BlockHash |-> Array(164, 32), Timestamp |-> Int64(196),
   Public |-> Array(204, 33), Signature |-> SliceUpTo(237, 73)]

TransactionBodyRead(d, at) == Read(d, at, TransactionBodyViewer)

(* A transaction is an area of 8 bytes with the offset of its body and no  *)
(* size word.                                                              *)
TransactionWrite(x, w, start) ==
  LET area == Area(w, start, 8)
  IN TransactionBodyWrite(x, WriteAt(Alloc(area, 256), Offset(w, start),
                                     Word(area.len)), area.len)

TransactionViewer(d, at) == IF IsValidOffset(d, at, 8) THEN WordAt(d, at)
                            ELSE Len(d)

TransactionRead(d, at) == TransactionBodyRead(d, TransactionViewer(d, at))

GenesisParamsWrite(x, w) ==
  Root(x, w, 208, 204, <<Inline("Order", 4), Inline("TimeParam", 132),
                         Inline("Seed", 140), Inline("VerifyParam", 172)>>)

GenesisParamsViewer ==
  [Order |-> Array(4, 128), TimeParam |-> Int64(132), Seed |-> Array(140, 32),
   VerifyParam |-> Array(172, 32)]

GenesisParamsRead(d) == Read(d, 0, GenesisParamsViewer)

GeneralParamsWrite(x, w) ==
  Root(x, w, 88, 85, <<Slot("Result", 4), Slot("Proof", 16),
                       Inline("RandomNumber", 28), Slot("S", 61), Slot("T", 73)>>)

GeneralParamsViewer ==
  [Result |-> Slice(4), Proof |-> Slice(16), RandomNumber |-> Array(28, 33),
   S |-> Slice(61), T |-> Slice(73)]

GeneralParamsRead(d) == Read(d, 0, GeneralParamsViewer)

BlockHeaderFields ==
  <<Inline("Timestamp", 4), Inline("PrevBlockHash", 12), Inline("BlockHash", 44),
    Inline("MerkleRoot", 76), Inline("Height", 108), Inline("PublicKey", 116),
    Slot("Params", 149), Inline("GasLimit", 161)>>

BlockHeaderWrite(x, w, start) ==
  Put(x, Area(w, start, 176), Offset(w, start), 169, BlockHeaderFields)

BlockHeaderViewer ==
  [Timestamp |-> Int64(4), PrevBlockHash |-> Array(12, 32),
   BlockHash |-> Array(44, 32), MerkleRoot |-> Array(76, 32),
   Height |-> Int64(108), PublicKey |-> Array(116, 33), Params |-> Slice(149),
   GasLimit |-> Int64(161)]

BlockHeaderRead(d, at) == Read(d, at, BlockHeaderViewer)

(* The header by its offset, the transactions as a slice of their areas.   *)
BlockWrite(x, w) ==
  LET at == w.len
      a == WriteAt(Alloc(w, 24), at, Word(20))
      b == BlockHeaderWrite(x.Header,
             WriteAt(Alloc(a, 176), at + 4, Word(a.len)), a.len)
      txs == x.Transactions
      c == WriteAt(Alloc(b, 8 * Len(txs)), at + 8,
             Word(b.len) \o Word(8 * Len(txs)) \o Word(8))
      written[i \in 0..Len(txs)] ==
        IF i = 0 THEN c
        ELSE TransactionWrite(txs[i], written[i - 1], b.len + 8 * (i - 1))
  IN written[Len(txs)]

(* Offset of the header, and of the transactions' areas.                   *)
BlockViewer(d) ==
  LET off == WordAt(d, 8)
      len == WordAt(d, 12)
      entries == IF IsValidOffset(d, off, len) THEN len \div 8 ELSE 0
  IN [Header |-> WordAt(d, 4),
      Transactions |-> [i \in 1..entries |-> off + 8 * (i - 1)]]

BlockRead(d) ==
  IF ~Valid(d, 0) THEN Garbage
  ELSE LET view == BlockViewer(d)
       IN [Header |-> BlockHeaderRead(d, view.Header),
           Transactions |-> [i \in DOMAIN view.Transactions |->
                               TransactionRead(d, view.Transactions[i])]]

DataCommandWrite(x, w) ==
  Root(x, w, 48, 40, <<Slot("Opt", 4), Slot("Key", 16), Slot("Value", 28)>>)

DataCommandViewer ==
  [Opt |-> Slice(4), Key |-> Slice(16), Value |-> Slice(28)]

DataCommandRead(d) == Read(d, 0, DataCommandViewer)

SyncStatusMsgWrite(x, w) ==
  Root(x, w, 64, 60, <<Inline("LatestHeight", 4), Inline("LatestHash", 12),
                       Inline("BufferedStartHeight", 44),
                       Inline("BufferedEndHeight", 52)>>)

SyncStatusMsgViewer ==
  [LatestHeight |-> Int64(4), LatestHash |-> Array(12, 32),
   BufferedStartHeight |-> Int64(44), BufferedEndHeight |-> Int64(52)]

SyncStatusMsgRead(d) == Read(d, 0, SyncStatusMsgViewer)

TimeSyncMsgWrite(x, w) ==
  Root(x, w, 40, 37, <<Inline("Code", 4), Inline("ReqTime", 5),
                       Inline("RecReqTime", 13), Inline("RspTime", 21),
                       Inline("RecRspTime", 29)>>)

TimeSyncMsgViewer ==
  [Code |-> Array(4, 1), ReqTime |-> Int64(5), RecReqTime |-> Int64(13),
   RspTime |-> Int64(21), RecRspTime |-> Int64(29)]

TimeSyncMsgRead(d) == Read(d, 0, TimeSyncMsgViewer)

MessageWrite(x, w) ==
  Root(x, w, 32, 29, <<Inline("Code", 4), Inline("Size", 5), Slot("Payload", 9),
                       Inline("ReceiveAt", 21)>>)

MessageViewer ==
  [Code |-> Array(4, 1), Size |-> Array(5, 4), Payload |-> Slice(9),
   ReceiveAt |-> Int64(21)]

MessageRead(d) == Read(d, 0, MessageViewer)

BroadcastMessageWrite(x, w) == Root(x, w, 32, 28, <<Slot("ID", 4), Slot("Data", 16)>>)

BroadcastMessageViewer == [ID |-> Slice(4), Data |-> Slice(16)]

BroadcastMessageRead(d) == Read(d, 0, BroadcastMessageViewer)

-----------------------------------------------------------------------------
(* utils/serializer.go: every call has a writer of its own.                *)
SerializeBlock(x) == Bytes(BlockWrite(x, NewWriter))
SerializeTransaction(x) == Bytes(TransactionWrite(x, NewWriter, 0))
SerializeBlockHeader(x) == Bytes(BlockHeaderWrite(x, NewWriter, 0))
SerializeStatusMsg(x) == Bytes(SyncStatusMsgWrite(x, NewWriter))
SerializeGenesisParams(x) == Bytes(GenesisParamsWrite(x, NewWriter))
SerializeGeneralParams(x) == Bytes(GeneralParamsWrite(x, NewWriter))
SerializeTimeSyncMsg(x) == Bytes(TimeSyncMsgWrite(x, NewWriter))
SerializeDataCommand(x) == Bytes(DataCommandWrite(x, NewWriter))
SerializeBroadcastMessage(x) == Bytes(BroadcastMessageWrite(x, NewWriter))
SerializeMessage(x) == Bytes(MessageWrite(x, NewWriter))

(* utils/deseralizer.go.                                                   *)
DeserializeBlock(d) == BlockRead(d)
DeserializeTransaction(d) == TransactionRead(d, 0)
DeserializeBroadcastMessage(d) == BroadcastMessageRead(d)
DeserializeStatusMsg(d) == SyncStatusMsgRead(d)
DeserializeGeneralParams(d) == GeneralParamsRead(d)
DeserializeGenesisParams(d) == GenesisParamsRead(d)
DeserializeTimeSyncMsg(d) == TimeSyncMsgRead(d)
DeserializeDataCommand(d) == DataCommandRead(d)
DeserializeMessage(d) == MessageRead(d)

(* int64 as binary.LittleEndian writes it, for heights and times below     *)
(* 2^24.                                                                   *)
LittleEndian(n) == Word(n) \o Zeros(4)
=============================================================================
