---------------------------- MODULE ServingProofs ----------------------------
(***************************************************************************)
(* From the client to the RPC reply, for every run of Wire in which no two *)
(* different texts have the same digest: Verify accepts what was signed    *)
(* and nothing else, what is served is what was stored, and the data       *)
(* processor gets the commands of the transactions whose data came whole.  *)
(*                                                                         *)
(* In this order: what clients build; the copies a node can have of it;    *)
(* the commands in a copy; what is pooled and packaged; what is stored and *)
(* became a task; what is served.                                          *)
(***************************************************************************)
EXTENDS NetworkProofs

-----------------------------------------------------------------------------
(* What clients build.                                                     *)

(* Signed by the key in it, over the digest of everything else.            *)
Sealed(x) ==
  /\ x.Hash = DigestOf(x)
  /\ x.Signature = SignASN1(Unmarshal(x.Public), DigestOf(x))

(* The bodies that differ in the hash and the signature at most.           *)
LEMMA SameBody ==
  ASSUME NEW x \in Bodies, NEW y \in Bodies,
         \A name \in DOMAIN TransactionBodyViewer : x[name] = y[name]
  PROVE  x = y
  BY DEF Bodies, Values

LEMMA StrippedKeeps ==
  ASSUME NEW x \in Bodies
  PROVE  /\ \A name \in DOMAIN TransactionBodyViewer \ {"Hash", "Signature"} :
              Stripped(x)[name] = x[name]
         /\ Stripped(x).Hash = NoHash /\ Stripped(x).Signature = <<>>
  <1>1. {"Hash", "Signature"} \subseteq DOMAIN TransactionBodyViewer
    BY DEF TransactionBodyViewer
  <1> QED
    BY <1>1 DEF Bodies, Values, Stripped

LEMMA StrippedTells ==
  ASSUME NEW x \in Bodies, NEW y \in Bodies, Stripped(x) = Stripped(y),
         x.Hash = y.Hash, x.Signature = y.Signature
  PROVE  x = y
  <1>1. ASSUME NEW name \in DOMAIN TransactionBodyViewer
        PROVE  x[name] = y[name]
    <2>1. CASE name = "Hash" \/ name = "Signature"
      BY <2>1
    <2>2. CASE name \notin {"Hash", "Signature"}
      BY <2>2, StrippedKeeps
    <2> QED
      BY <2>1, <2>2
  <1> QED
    BY <1>1, SameBody

LEMMA SignedFacts ==
  ASSUME NEW key \in Scalars, NEW body \in Bodies, body.Hash = NoHash,
         body.Signature = <<>>, body.Public = PublicKey2Bytes(key),
         NEW x, x = Signed(key, body)
  PROVE  /\ x \in Bodies /\ Sealed(x) /\ Len(x.Signature) <= 73
         /\ \A name \in DOMAIN TransactionBodyViewer \ {"Hash", "Signature"} :
              x[name] = body[name]
  <1>1. x \in Bodies
    BY SignedType
  <1>2. PICK digest : digest = Sha256(Bytes(TransactionBodyWrite(body, NewWriter, 0)))
    OBVIOUS
  <1>3. {"Hash", "Signature"} \subseteq DOMAIN TransactionBodyViewer
    BY DEF TransactionBodyViewer
  <1>4. /\ x.Hash = digest /\ x.Signature = SignASN1(key, digest)
        /\ \A name \in DOMAIN TransactionBodyViewer \ {"Hash", "Signature"} :
             x[name] = body[name]
    BY <1>2, <1>3 DEF Signed, Bodies, Values
  <1>5. Stripped(x) = body
    <2>1. ASSUME NEW name \in DOMAIN TransactionBodyViewer
          PROVE  Stripped(x)[name] = body[name]
      BY <1>1, <1>4, StrippedKeeps
    <2> QED
      BY <1>1, <2>1, StrippedFacts, SameBody
  <1>6. DigestOf(x) = digest
    BY <1>2, <1>5 DEF DigestOf
  <1>7. Unmarshal(x.Public) = key
    <2>1. x.Public = body.Public
      <3>1. "Public" \in DOMAIN TransactionBodyViewer \ {"Hash", "Signature"}
        BY DEF TransactionBodyViewer
      <3> QED
        BY <1>4, <3>1
    <2> QED
      BY <2>1, KeyHas, MarshalFacts DEF PublicKey2Bytes
  <1>8. Sealed(x)
    BY <1>4, <1>6, <1>7 DEF Sealed
  <1>9. Len(x.Signature) <= 73
    <2>1. PICK V : V = TransactionBodyViewer /\ x \in Values(V)
      BY <1>1 DEF Bodies
    <2>2. "Signature" \in DOMAIN V /\ V["Signature"].slot /\ V["Signature"].n = 73
      BY <2>1 DEF TransactionBodyViewer, SliceUpTo
    <2> QED
      BY <2>1, <2>2 DEF Values
  <1> QED
    BY <1>1, <1>4, <1>8, <1>9

(* What a client has built: it fits, is sealed and has no place yet.       *)
Built(x) ==
  /\ x \in Bodies /\ Fit(x) /\ Sealed(x)
  /\ x.Height = Zeros(8) /\ x.BlockHash = NoHash /\ x.Index = Zeros(8)

LEMMA BuiltFacts ==
  ASSUME NEW key \in Scalars, NEW receiver, NEW data, NEW clock \in Nat,
         Has(receiver, 20), data \in Seq(Nat), Small(337 + Len(data)),
         NEW x, x = Signed(key, NewBody(key, receiver, data, clock))
  PROVE  Built(x) /\ x.Data = data
  <1>1. HasAtMost(data, MaxWord)
    <2>1. PICK n \in Nat : n = Len(data)
      OBVIOUS
    <2>2. n <= MaxWord
      BY <2>1 DEF Small, MaxWord
    <2> QED
      BY <2>1, <2>2 DEF HasAtMost
  <1>2. PICK body \in Bodies : body = NewBody(key, receiver, data, clock)
    BY <1>1, BodyType
  <1>3. /\ body.Hash = NoHash /\ body.Signature = <<>> /\ body.Public = PublicKey2Bytes(key)
        /\ body.Height = Zeros(8) /\ body.BlockHash = NoHash /\ body.Index = Zeros(8)
        /\ body.Data = data /\ body.Event = <<>> /\ body.Opt = <<>> /\ body.State = <<>>
    BY <1>2 DEF NewBody
  <1>4. /\ x \in Bodies /\ Sealed(x) /\ Len(x.Signature) <= 73
        /\ \A name \in DOMAIN TransactionBodyViewer \ {"Hash", "Signature"} :
             x[name] = body[name]
    BY <1>2, <1>3, SignedFacts
  <1>5. {"Height", "BlockHash", "Index", "Data", "Event", "Opt", "State"} \subseteq
          DOMAIN TransactionBodyViewer \ {"Hash", "Signature"}
    BY DEF TransactionBodyViewer
  <1>6. /\ x.Height = Zeros(8) /\ x.BlockHash = NoHash /\ x.Index = Zeros(8)
        /\ x.Data = data /\ x.Event = <<>> /\ x.Opt = <<>> /\ x.State = <<>>
    BY <1>3, <1>4, <1>5
  <1>7. Fit(x)
    <2>1. PICK e \in Nat, o \in Nat, s \in Nat, d \in Nat, g \in Nat :
            /\ e = Len(x.Event) /\ o = Len(x.Opt) /\ s = Len(x.State) /\ d = Len(x.Data)
            /\ g = Len(x.Signature)
      BY <1>4, BodyFields
    <2>2. e = 0 /\ o = 0 /\ s = 0 /\ g <= 73 /\ Small(337 + d)
      BY <1>4, <1>6, <2>1
    <2>3. Weight(x) = e + o + s + d + g
      BY <2>1, Zenon DEF Weight
    <2>4. 264 + (e + o + s + d + g) <= MaxWord
      BY <2>2 DEF Small, MaxWord
    <2> QED
      BY <2>3, <2>4 DEF Fit, Small
  <1> QED
    BY <1>4, <1>6, <1>7 DEF Built

-----------------------------------------------------------------------------
(* What a node can have of a transaction: all of it, or what came in a     *)
(* datagram.                                                               *)
Copy(x, y) == x = y \/ x = Datagram(y)

LEMMA PartLen ==
  ASSUME NEW x \in Bodies, NEW y \in Bodies, Part(x, y), NEW name,
         name \in DOMAIN TransactionBodyViewer
  PROVE  Len(x[name]) <= Len(y[name])
  <1>1. PICK a \in Seq(Nat), b \in Seq(Nat) : a = x[name] /\ b = y[name]
    BY DEF Bodies, Values
  <1>2. a = b \/ a = <<>>
    BY <1>1, Zenon DEF Part
  <1>3. Len(a) <= Len(b)
    BY <1>1, <1>2
  <1> QED
    BY <1>1, <1>3

LEMMA PartFits ==
  ASSUME NEW x \in Bodies, NEW y \in Bodies, Part(x, y), Fit(y)
  PROVE  Fit(x)
  <1>1. {"Event", "Opt", "State", "Data", "Signature"} \subseteq DOMAIN TransactionBodyViewer
    BY DEF TransactionBodyViewer
  <1>2. PICK e \in Nat, o \in Nat, s \in Nat, d \in Nat, g \in Nat :
          /\ e = Len(x.Event) /\ o = Len(x.Opt) /\ s = Len(x.State) /\ d = Len(x.Data)
          /\ g = Len(x.Signature)
    BY BodyFields
  <1>3. PICK e2 \in Nat, o2 \in Nat, s2 \in Nat, d2 \in Nat, g2 \in Nat :
          /\ e2 = Len(y.Event) /\ o2 = Len(y.Opt) /\ s2 = Len(y.State) /\ d2 = Len(y.Data)
          /\ g2 = Len(y.Signature)
    BY BodyFields
  <1>4. e <= e2 /\ o <= o2 /\ s <= s2 /\ d <= d2 /\ g <= g2
    BY <1>1, <1>2, <1>3, PartLen
  <1>5. Weight(x) = e + o + s + d + g /\ Weight(y) = e2 + o2 + s2 + d2 + g2
    BY <1>2, <1>3, Zenon DEF Weight
  <1> QED
    BY <1>4, <1>5 DEF Fit, Small, MaxWord

LEMMA CopyFacts ==
  ASSUME NEW y, Built(y), NEW x, Copy(x, y)
  PROVE  /\ x \in Bodies /\ Fit(x)
         /\ x.Hash = y.Hash /\ x.Public = y.Public
         /\ x.Height = Zeros(8) /\ x.BlockHash = NoHash /\ x.Index = Zeros(8)
         /\ x.Data = y.Data \/ x.Data = <<>>
  <1>1. y \in Bodies /\ Fit(y)
    BY DEF Built
  <1>2. x \in Bodies /\ Part(x, y)
    <2>1. CASE x = y
      BY <1>1, <2>1 DEF Part
    <2>2. CASE x = Datagram(y)
      BY <1>1, <2>2, DatagramFacts
    <2> QED
      BY <2>1, <2>2 DEF Copy
  <1>3. Fit(x)
    BY <1>1, <1>2, PartFits
  <1>4. PICK V : V = TransactionBodyViewer
    OBVIOUS
  <1>5. /\ {"Hash", "Public", "Height", "BlockHash", "Index", "Data"} \subseteq DOMAIN V
        /\ ~V["Hash"].slot /\ ~V["Public"].slot /\ ~V["Height"].slot
        /\ ~V["BlockHash"].slot /\ ~V["Index"].slot
    BY <1>4 DEF TransactionBodyViewer, Array, Int64
  <1>6. \A name \in DOMAIN V : x[name] = y[name] \/ (V[name].slot /\ x[name] = <<>>)
    BY <1>2, <1>4, Zenon DEF Part
  <1>7. /\ x["Hash"] = y["Hash"] /\ x["Public"] = y["Public"] /\ x["Height"] = y["Height"]
        /\ x["BlockHash"] = y["BlockHash"] /\ x["Index"] = y["Index"]
        /\ x["Data"] = y["Data"] \/ x["Data"] = <<>>
    BY <1>5, <1>6
  <1> QED
    BY <1>2, <1>3, <1>7 DEF Built

(* A digest that tells two texts apart.                                    *)
Distinct(x, y) == DigestOf(x) = y.Hash => Stripped(x) = Stripped(y)

(* Of the copies of a transaction, Verify accepts the whole one.           *)
LEMMA CopyVerifies ==
  ASSUME NEW y, Built(y), NEW x, Copy(x, y), Distinct(x, y)
  PROVE  Verify(x) <=> x = y
  <1>1. /\ x \in Bodies /\ Fit(x) /\ x.Hash = y.Hash /\ x.Public = y.Public
        /\ y \in Bodies /\ Fit(y) /\ Sealed(y)
    BY CopyFacts DEF Built
  <1>2. ASSUME x = y
        PROVE  Verify(x)
    BY <1>1, <1>2, VerifyExact DEF Sealed
  <1>3. ASSUME Verify(x)
        PROVE  x = y
    <2>1. x.Hash = DigestOf(x) /\ x.Signature = SignASN1(Unmarshal(x.Public), DigestOf(x))
      BY <1>1, <1>3, VerifyExact
    <2>2. Stripped(x) = Stripped(y)
      BY <1>1, <2>1 DEF Distinct
    <2>3. x.Signature = y.Signature
      BY <1>1, <2>1 DEF Sealed
    <2> QED
      BY <1>1, <2>2, <2>3, StrippedTells
  <1> QED
    BY <1>2, <1>3

-----------------------------------------------------------------------------
(* A transaction with its place.                                           *)
LEMMA StampedFacts ==
  ASSUME NEW x \in Bodies, Fit(x), NEW header \in Values(BlockHeaderViewer),
         NEW n \in Nat, n # 0, NEW z, z = Stamped(x, header, n)
  PROVE  /\ z \in Bodies /\ Fit(z)
         /\ z.Height = header.Height /\ z.BlockHash = header.BlockHash
         /\ z.Index = LittleEndian(n - 1)
         /\ \A name \in DOMAIN TransactionBodyViewer \ {"Height", "BlockHash", "Index"} :
              z[name] = x[name]
  <1>1. PICK V, W : /\ V = TransactionBodyViewer /\ x \in Values(V)
                    /\ W = BlockHeaderViewer /\ header \in Values(W)
    BY DEF Bodies
  <1>2. /\ {"Height", "BlockHash", "Index"} \subseteq DOMAIN V
        /\ ~V["Height"].slot /\ V["Height"].n = 8 /\ ~V["BlockHash"].slot
        /\ V["BlockHash"].n = 32 /\ ~V["Index"].slot /\ V["Index"].n = 8
    BY <1>1 DEF TransactionBodyViewer, Array, Int64
  <1>3. /\ {"Height", "BlockHash"} \subseteq DOMAIN W
        /\ ~W["Height"].slot /\ W["Height"].n = 8 /\ ~W["BlockHash"].slot
        /\ W["BlockHash"].n = 32
    BY <1>1 DEF BlockHeaderViewer, Array, Int64
  <1>4. PICK height \in Seq(Nat), hash \in Seq(Nat), index \in Seq(Nat) :
          /\ height = header["Height"] /\ hash = header["BlockHash"]
          /\ index = LittleEndian(n - 1)
          /\ Len(height) = 8 /\ Len(hash) = 32 /\ Len(index) = 8
    <2>1. n - 1 \in Nat
      OBVIOUS
    <2>2. Has(LittleEndian(n - 1), 8)
      BY <2>1, BytesHave
    <2>3. /\ header["Height"] \in Seq(Nat) /\ header["BlockHash"] \in Seq(Nat)
          /\ Len(header["Height"]) = 8 /\ Len(header["BlockHash"]) = 32
      BY <1>1, <1>3 DEF Values
    <2> QED
      BY <2>2, <2>3 DEF Has
  <1>5. PICK a \in Values(V) : a = [x EXCEPT !["Height"] = height]
    BY <1>1, <1>2, <1>4, ValueExcept
  <1>6. PICK b \in Values(V) : b = [a EXCEPT !["BlockHash"] = hash]
    BY <1>2, <1>4, ValueExcept
  <1>7. PICK c \in Values(V) : c = [b EXCEPT !["Index"] = index]
    BY <1>2, <1>4, ValueExcept
  <1>8. z = c
    BY <1>4, <1>5, <1>6, <1>7 DEF Stamped
  <1>9. /\ z.Height = height /\ z.BlockHash = hash /\ z.Index = index
        /\ \A name \in DOMAIN V \ {"Height", "BlockHash", "Index"} : z[name] = x[name]
    BY <1>1, <1>2, <1>5, <1>6, <1>7, <1>8 DEF Values
  <1>10. z \in Bodies
    BY <1>1, <1>7, <1>8 DEF Bodies
  <1>11. Weight(z) = Weight(x)
    <2>1. {"Event", "Opt", "State", "Data", "Signature"} \subseteq
            DOMAIN V \ {"Height", "BlockHash", "Index"}
      BY <1>1 DEF TransactionBodyViewer
    <2>2. /\ z.Event = x.Event /\ z.Opt = x.Opt /\ z.State = x.State /\ z.Data = x.Data
          /\ z.Signature = x.Signature
      BY <1>9, <2>1
    <2> QED
      BY <2>2, Zenon DEF Weight
  <1>12. Fit(z)
    BY <1>11 DEF Fit
  <1> QED
    BY <1>1, <1>4, <1>9, <1>10, <1>12

(* Without its place it is what it was.                                    *)
LEMMA UnplacedStamped ==
  ASSUME NEW x \in Bodies, Fit(x), NEW header \in Values(BlockHeaderViewer),
         NEW n \in Nat, n # 0,
         x.Height = Zeros(8), x.BlockHash = NoHash, x.Index = Zeros(8)
  PROVE  Unplaced(Stamped(x, header, n)) = x
  <1>1. PICK z \in Bodies :
          /\ z = Stamped(x, header, n)
          /\ \A name \in DOMAIN TransactionBodyViewer \ {"Height", "BlockHash", "Index"} :
               z[name] = x[name]
    BY StampedFacts
  <1>2. PICK V : V = TransactionBodyViewer
    OBVIOUS
  <1>3. {"Height", "BlockHash", "Index"} \subseteq DOMAIN V
    BY <1>2 DEF TransactionBodyViewer
  <1>4. x \in [DOMAIN V -> Seq(Nat)] /\ z \in [DOMAIN V -> Seq(Nat)]
    BY <1>2 DEF Bodies, Values
  <1>5. PICK u : u = Unplaced(z)
    OBVIOUS
  <1>6. /\ u = [name \in DOMAIN V |-> u[name]] /\ u.Height = Zeros(8) /\ u.BlockHash = NoHash
        /\ u.Index = Zeros(8)
        /\ \A name \in DOMAIN V \ {"Height", "BlockHash", "Index"} : u[name] = z[name]
    BY <1>3, <1>4, <1>5 DEF Unplaced
  <1>7. ASSUME NEW name \in DOMAIN V
        PROVE  u[name] = x[name]
    <2>1. CASE name \in {"Height", "BlockHash", "Index"}
      BY <1>6, <2>1
    <2>2. CASE name \notin {"Height", "BlockHash", "Index"}
      BY <1>1, <1>2, <1>6, <2>2
    <2> QED
      BY <2>1, <2>2
  <1>8. x = [name \in DOMAIN V |-> x[name]]
    BY <1>4
  <1>9. u = x
    BY <1>6, <1>7, <1>8
  <1> QED
    BY <1>1, <1>5, <1>9

(* With its place, a transaction does not verify.                          *)
LEMMA PlacedFails ==
  ASSUME NEW y, Built(y), NEW z \in Bodies, Fit(z), z.Hash = y.Hash, z.Height # Zeros(8),
         Distinct(z, y)
  PROVE  ~Verify(z)
  <1>1. SUFFICES ASSUME Verify(z)
                 PROVE  FALSE
    OBVIOUS
  <1>2. z.Hash = DigestOf(z)
    BY <1>1, VerifyExact
  <1>3. Stripped(z) = Stripped(y)
    BY <1>2 DEF Distinct
  <1>4. "Height" \in DOMAIN TransactionBodyViewer \ {"Hash", "Signature"}
    BY DEF TransactionBodyViewer
  <1>5. z["Height"] = y["Height"]
    BY <1>3, <1>4, StrippedKeeps DEF Built
  <1> QED
    BY <1>5 DEF Built

-----------------------------------------------------------------------------
(* The commands that a transaction carries.                                *)

(* What the bytes of every request need; data of the sender tool are no    *)
(* command by chance.                                                      *)
RequestsFit ==
  \A r \in Requests : /\ Small(337 + Len(r.Value))
                      /\ Small(337 + Len(CommandData(r.Type, r.Key, r.Value)))

Commands == {setCommandString, appendCommandString}

NoStray ==
  \A r \in Requests : r.Type = <<>> => DeserializeDataCommand(r.Value).Opt \notin Commands

Carries(x, r) ==
  /\ r \in Requests
  /\ IF r.Type = <<>> THEN x.Data = r.Value
     ELSE r.Type \in Commands /\ x.Data = CommandData(r.Type, r.Key, r.Value)

LEMMA CommandRead ==
  ASSUME RequestsFit, NEW r \in Requests, r.Type \in Commands,
         NEW d, d = CommandData(r.Type, r.Key, r.Value)
  PROVE  /\ d # <<>> /\ d \in Seq(Nat) /\ r.Type # <<>>
         /\ DeserializeDataCommand(d) = [Opt |-> r.Type, Key |-> r.Key, Value |-> r.Value]
  <1>1. PICK type \in Commands, k \in Seq(Nat), v \in Seq(Nat) :
          /\ type = r.Type /\ k = r.Key /\ v = r.Value
          /\ Len(k) <= MaxWord /\ Len(v) <= MaxWord
          /\ type \in {setCommandString, appendCommandString}
    <2>1. /\ r.Key \in Seq(Nat) /\ r.Value \in Seq(Nat)
          /\ Len(r.Key) <= MaxWord /\ Len(r.Value) <= MaxWord
      BY Given, Zenon
    <2> QED
      BY <2>1 DEF Commands
  <1>2. d \in Seq(Nat) /\ d # <<>>
    BY <1>1, CommandDataType
  <1>3. Small(Len(d))
    <2>1. PICK n \in Nat : n = Len(d)
      BY <1>2
    <2>2. Small(337 + n)
      BY <2>1 DEF RequestsFit
    <2> QED
      BY <2>1, <2>2 DEF Small, MaxWord
  <1>4. PICK x \in Values(DataCommandViewer) : x = [Opt |-> type, Key |-> k, Value |-> v]
    BY <1>1, CommandValue
  <1>5. d = SerializeDataCommand(x)
    BY <1>1, <1>4, Zenon DEF CommandData
  <1>6. DeserializeDataCommand(d) = x
    BY <1>3, <1>5, MessagesReadAsWritten
  <1>7. type # <<>>
    <2>1. setCommandString # <<>> /\ appendCommandString # <<>>
      BY DEF setCommandString, appendCommandString
    <2> QED
      BY <1>1, <2>1, Zenon
  <1> QED
    BY <1>1, <1>2, <1>4, <1>6, <1>7

(* The task for a request, of a transaction with the hash h.               *)
TaskFor(t, r, h) == t.Hash = h /\ t.Type = r.Type /\ t.Key = r.Key /\ t.Value = r.Value

(* The command of r came with the copy x of y.                             *)
Came(x, y, r) == r.Type # <<>> /\ x.Data = y.Data

LEMMA CopyTask ==
  ASSUME RequestsFit, NoStray, NEW y, Built(y), NEW r, Carries(y, r),
         NEW x, Copy(x, y), NEW header
  PROVE  /\ Came(x, y, r) => \E t : Task(x, header) = <<t>> /\ TaskFor(t, r, y.Hash)
         /\ ~Came(x, y, r) => Task(x, header) = <<>>
  <1>1. PICK dc : dc = DeserializeDataCommand(x.Data)
    OBVIOUS
  <1>2. PICK t : t = [Type |-> dc.Opt, Hash |-> x.Hash, Height |-> header.Height,
                      Address |-> x.Receiver, Key |-> dc.Key, Value |-> dc.Value]
    OBVIOUS
  <1>3. Task(x, header) = IF x.Data # <<>> /\ dc.Opt \in Commands THEN <<t>> ELSE <<>>
    BY <1>1, <1>2, Zenon DEF Task, Commands
  <1>4. x.Hash = y.Hash /\ (x.Data = y.Data \/ x.Data = <<>>)
    BY CopyFacts
  <1>5. ASSUME Came(x, y, r)
        PROVE  Task(x, header) = <<t>> /\ TaskFor(t, r, y.Hash)
    <2>1. r \in Requests /\ r.Type \in Commands /\ x.Data = CommandData(r.Type, r.Key, r.Value)
      BY <1>5 DEF Came, Carries
    <2>2. x.Data # <<>> /\ dc = [Opt |-> r.Type, Key |-> r.Key, Value |-> r.Value]
      BY <1>1, <2>1, CommandRead
    <2>3. dc.Opt = r.Type /\ dc.Key = r.Key /\ dc.Value = r.Value
      BY <2>2
    <2> QED
      BY <1>2, <1>3, <1>4, <2>1, <2>2, <2>3 DEF TaskFor
  <1>6. ASSUME ~Came(x, y, r)
        PROVE  Task(x, header) = <<>>
    <2>1. CASE x.Data = <<>>
      BY <1>3, <2>1
    <2>2. CASE x.Data # <<>>
      <3>1. x.Data = y.Data /\ r.Type = <<>>
        BY <1>4, <1>6, <2>2 DEF Came
      <3>2. r \in Requests /\ x.Data = r.Value
        BY <3>1 DEF Carries
      <3>3. dc.Opt \notin Commands
        BY <1>1, <3>1, <3>2 DEF NoStray
      <3> QED
        BY <1>3, <3>3
    <2> QED
      BY <2>1, <2>2
  <1> QED
    BY <1>5, <1>6

(* What is in a sequence, and in sequences that are put together.          *)
Lists(s, t) == \E m \in DOMAIN s : s[m] = t

LEMMA ListsJoin ==
  ASSUME NEW S, NEW a \in Seq(S), NEW b \in Seq(S), NEW t
  PROVE  /\ a \o b \in Seq(S)
         /\ Lists(a \o b, t) <=> Lists(a, t) \/ Lists(b, t)
  <1>1. PICK k \in Nat, n \in Nat : k = Len(a) /\ n = Len(b)
    OBVIOUS
  <1>2. PICK c \in Seq(S) : /\ c = a \o b /\ Len(c) = k + n
                            /\ \A i \in 1..(k + n) : c[i] = IF i <= k THEN a[i] ELSE b[i - k]
    <2>1. /\ a \o b \in Seq(S) /\ Len(a \o b) = Len(a) + Len(b)
          /\ \A i \in 1..(Len(a) + Len(b)) :
               (a \o b)[i] = IF i <= Len(a) THEN a[i] ELSE b[i - Len(a)]
      BY ConcatProperties
    <2> QED
      BY <1>1, <2>1
  <1>3. DOMAIN a = 1..k /\ DOMAIN b = 1..n /\ DOMAIN c = 1..(k + n)
    BY <1>1, <1>2
  <1>4. ASSUME Lists(c, t)
        PROVE  Lists(a, t) \/ Lists(b, t)
    <2>1. PICK i \in 1..(k + n) : c[i] = t
      BY <1>3, <1>4 DEF Lists
    <2>2. CASE i <= k
      <3>1. i \in 1..k /\ a[i] = t
        BY <1>2, <2>1, <2>2
      <3> QED
        BY <1>3, <3>1 DEF Lists
    <2>3. CASE ~(i <= k)
      <3>1. i - k \in 1..n /\ b[i - k] = t
        BY <1>2, <2>1, <2>3
      <3> QED
        BY <1>3, <3>1 DEF Lists
    <2> QED
      BY <2>2, <2>3
  <1>5. ASSUME Lists(a, t)
        PROVE  Lists(c, t)
    <2>1. PICK i \in 1..k : a[i] = t
      BY <1>3, <1>5 DEF Lists
    <2>2. i \in 1..(k + n) /\ c[i] = t
      BY <1>2, <2>1
    <2> QED
      BY <1>3, <2>2 DEF Lists
  <1>6. ASSUME Lists(b, t)
        PROVE  Lists(c, t)
    <2>1. PICK i \in 1..n : b[i] = t
      BY <1>3, <1>6 DEF Lists
    <2>2. k + i \in 1..(k + n) /\ ~(k + i <= k) /\ k + i - k = i
      BY <2>1
    <2>3. c[k + i] = t
      BY <1>2, <2>1, <2>2
    <2> QED
      BY <1>3, <2>2, <2>3 DEF Lists
  <1> QED
    BY <1>2, <1>4, <1>5, <1>6

LEMMA Flattened ==
  ASSUME NEW S, NEW ss \in Seq(Seq(S))
  PROVE  /\ FlattenSeq(ss) \in Seq(S)
         /\ \A t : Lists(FlattenSeq(ss), t) <=> \E i \in DOMAIN ss : Lists(ss[i], t)
  <1>1. PICK n \in Nat : n = Len(ss) /\ DOMAIN ss = 1..n
    OBVIOUS
  <1>2. CASE n = 0
    <2>1. FlattenSeq(ss) = ss /\ ss = <<>>
      BY <1>1, <1>2 DEF FlattenSeq
    <2> QED
      BY <1>1, <1>2, <2>1 DEF Lists
  <1>3. CASE n # 0
    <2>1. PICK V, e : V = Seq(S) /\ e = <<>> /\ e \in V
      <3>1. <<>> \in Seq(S)
        OBVIOUS
      <3> QED
        BY <3>1, Zenon
    <2>2. PICK step \in Steps(V, n) : \A i \in 1..n, a \in V : step[i][a] = a \o ss[i]
      <3> DEFINE g == [i \in 1..n |-> [a \in V |-> a \o ss[i]]]
      <3>1. \A i \in 1..n, a \in V : a \o ss[i] \in V
        BY <1>1, <2>1
      <3>2. g \in [1..n -> [V -> V]] /\ \A i \in 1..n, a \in V : g[i][a] = a \o ss[i]
        BY <3>1
      <3> HIDE DEF g
      <3> QED
        BY <3>2 DEF Steps
    <2>3. PICK f : Solves(f, V, n, e, step)
      BY <2>1, StepsExist
    <2>4. /\ \A i \in 0..n : f[i] \in V
          /\ f[0] = e /\ \A i \in 1..n : f[i] = step[i][f[i - 1]]
      BY <2>3 DEF Solves
    <2>5. ASSUME NEW i \in 1..n
          PROVE  f[i] = IF i = 1 THEN ss[i] ELSE f[i - 1] \o ss[i]
      <3>1. i - 1 \in 0..n /\ f[i] = f[i - 1] \o ss[i]
        <4>1. i - 1 \in 0..n
          OBVIOUS
        <4> QED
          BY <2>2, <2>4, <4>1, Zenon
      <3>2. CASE i = 1
        <4>1. i - 1 = 0 /\ ss[i] \in Seq(S)
          BY <1>1, <3>2
        <4>2. f[i] = e \o ss[i]
          BY <2>4, <3>1, <4>1, Zenon
        <4>3. <<>> \o ss[i] = ss[i]
          BY <4>1
        <4> QED
          BY <2>1, <3>2, <4>2, <4>3, Zenon
      <3> QED
        BY <3>1, <3>2
    <2>6. PICK g : g = [i \in 1..n |-> IF i = 1 THEN ss[i] ELSE g[i - 1] \o ss[i]]
                   /\ FlattenSeq(ss) = g[n]
      <3> DEFINE h == [i \in 1..n |-> f[i]]
      <3>1. h = [i \in 1..n |-> IF i = 1 THEN ss[i] ELSE h[i - 1] \o ss[i]]
        <4>1. \A i \in 1..n : i # 1 => i - 1 \in 1..n
          OBVIOUS
        <4> QED
          BY <2>5, <4>1
      <3> HIDE DEF h
      <3> QED
        BY <1>1, <1>3, <3>1 DEF FlattenSeq
    <2>7. ASSUME NEW i \in 1..n
          PROVE  g[i] = IF i = 1 THEN ss[i] ELSE g[i - 1] \o ss[i]
      BY <2>6
    <2> DEFINE Up(i) == /\ g[i] \in Seq(S)
                        /\ \A t : Lists(g[i], t) <=> \E j \in 1..i : Lists(ss[j], t)
               T == {i \in 0..n : i # 0 => Up(i)}
    <2>8. 0 \in T
      OBVIOUS
    <2>9. ASSUME NEW i \in 1..n, i - 1 \in T
          PROVE  i \in T
      <3>1. ss[i] \in Seq(S)
        BY <1>1
      <3>2. CASE i = 1
        <4>1. g[i] = ss[i] /\ \A j \in 1..i : j = i
          BY <2>7, <3>2
        <4> QED
          BY <3>1, <4>1
      <3>3. CASE i # 1
        <4>1. PICK k \in 1..n : k = i - 1 /\ g[i] = g[k] \o ss[i] /\ Up(k)
          <5>1. i - 1 \in 1..n /\ i - 1 # 0
            BY <3>3
          <5>2. g[i] = g[i - 1] \o ss[i]
            BY <2>7, <3>3, Zenon
          <5>3. Up(i - 1)
            BY <2>9, <5>1
          <5> QED
            BY <5>1, <5>2, <5>3
        <4>2. \A j \in 1..i : j \in 1..k \/ j = i
          BY <4>1
        <4>3. 1..k \subseteq 1..i /\ i \in 1..i
          BY <4>1
        <4>4. g[i] \in Seq(S) /\ \A t : Lists(g[i], t) <=> Lists(g[k], t) \/ Lists(ss[i], t)
          BY <3>1, <4>1, ListsJoin
        <4>5. Up(i)
          BY <4>1, <4>2, <4>3, <4>4
        <4> QED
          BY <4>5
      <3> QED
        BY <3>2, <3>3
    <2>10. n \in T
      <3>1. \A i \in 0..n : i \in T
        <4> HIDE DEF T
        <4> QED
          BY <2>8, <2>9, Upward
      <3>2. n \in 0..n
        OBVIOUS
      <3> QED
        BY <3>1, <3>2, Zenon
    <2>11. Up(n)
      BY <1>3, <2>10
    <2> QED
      BY <1>1, <2>6, <2>11
  <1> QED
    BY <1>2, <1>3

-----------------------------------------------------------------------------
(* What is pooled and packaged.                                            *)

Places(i) == DOMAIN blocks[i].Transactions
Tx(i, n) == blocks[i].Transactions[n]

Served(x) == \E k \in DOMAIN made : Copy(x, made[k])
Whole(x) == \E k \in DOMAIN made : x = made[k]

(* A transaction was built for each request.                               *)
MadeInv ==
  /\ asked \in Seq(Requests) /\ Len(asked) = Len(made)
  /\ \A k \in DOMAIN made : Built(made[k]) /\ Carries(made[k], asked[k])

(* Copies are pooled under their hashes and packaged, one in a block; the  *)
(* node knows their hashes.                                                *)
PoolServed ==
  \A h \in DOMAIN txPool : h \in known /\ txPool[h].Hash = h /\ Served(txPool[h])

BlocksServed ==
  \A i \in DOMAIN blocks :
    /\ \A n \in Places(i) : Tx(i, n).Hash \in known /\ Served(Tx(i, n))
    /\ \A n, m \in Places(i) : Tx(i, n).Hash = Tx(i, m).Hash => n = m

(* A datagram is refused if its hash is known: of a transaction that was   *)
(* packaged, what is pooled again or packaged again is whole.              *)
WholeLater ==
  /\ \A i, j \in DOMAIN blocks : i < j =>
       \A n \in Places(i), m \in Places(j) :
         Tx(i, n).Hash = Tx(j, m).Hash => Whole(Tx(j, m))
  /\ \A i \in DOMAIN blocks : \A n \in Places(i), h \in DOMAIN txPool :
       Tx(i, n).Hash = h => Whole(txPool[h])

ServedInv == MadeInv /\ PoolServed /\ BlocksServed /\ WholeLater

MadeGrows == \A k \in DOMAIN made : k \in DOMAIN made' /\ made'[k] = made[k]

LEMMA GrownServes ==
  ASSUME MadeGrows, NEW x
  PROVE  (Served(x) => Served(x)') /\ (Whole(x) => Whole(x)')
  BY DEF MadeGrows, Served, Whole

LEMMA WholeServed ==
  ASSUME NEW x, Whole(x)
  PROVE  Served(x)
  BY DEF Served, Whole, Copy

LEMMA AppendFacts ==
  ASSUME NEW S, NEW s \in Seq(S), NEW x \in S, NEW n \in Nat, n = Len(s),
         NEW t, t = Append(s, x)
  PROVE  /\ t \in Seq(S) /\ Len(t) = n + 1 /\ DOMAIN s = 1..n /\ DOMAIN t = 1..(n + 1)
         /\ t[n + 1] = x /\ \A k \in 1..n : t[k] = s[k]
  OBVIOUS

LEMMA MakeFacts ==
  ASSUME made \in Seq(Bodies), MadeInv, NEW r \in Requests, NEW tx, Built(tx), Carries(tx, r),
         Make(r, tx)
  PROVE  MadeInv' /\ MadeGrows /\ Whole(tx)' /\ UNCHANGED <<blocks, db, tasks>>
  <1>1. made' = Append(made, tx) /\ asked' = Append(asked, r) /\ UNCHANGED <<blocks, db, tasks>>
    BY DEF Make
  <1>2. PICK n \in Nat : n = Len(made) /\ n = Len(asked)
    BY DEF MadeInv
  <1>3. tx \in Bodies /\ asked \in Seq(Requests)
    BY DEF Built, MadeInv
  <1>4. /\ DOMAIN made = 1..n /\ DOMAIN made' = 1..(n + 1) /\ Len(made') = n + 1
        /\ made'[n + 1] = tx /\ \A k \in 1..n : made'[k] = made[k]
    <2>1. made \in Seq(Bodies) /\ tx \in Bodies /\ n = Len(made) /\ made' = Append(made, tx)
      BY <1>1, <1>2, <1>3
    <2> QED
      BY <2>1, AppendFacts
  <1>5. /\ asked' \in Seq(Requests) /\ Len(asked') = n + 1
        /\ asked'[n + 1] = r /\ \A k \in 1..n : asked'[k] = asked[k]
    BY <1>1, <1>2, <1>3, AppendFacts
  <1>6. ASSUME NEW k \in 1..(n + 1)
        PROVE  Built(made'[k]) /\ Carries(made'[k], asked'[k])
    <2>1. CASE k = n + 1
      BY <1>4, <1>5, <2>1
    <2>2. CASE k \in 1..n
      BY <1>4, <1>5, <2>2 DEF MadeInv
    <2> QED
      BY <2>1, <2>2
  <1>7. MadeInv'
    BY <1>4, <1>5, <1>6 DEF MadeInv
  <1>8. MadeGrows
    BY <1>4 DEF MadeGrows
  <1>9. Whole(tx)'
    <2>1. n + 1 \in DOMAIN made' /\ tx = made'[n + 1]
      BY <1>4
    <2> QED
      BY <2>1 DEF Whole
  <1> QED
    BY <1>1, <1>7, <1>8, <1>9

LEMMA CommandBuilt ==
  ASSUME RequestsFit, NEW r \in Requests, r.Type \in Commands, NEW clock \in Nat,
         NEW tx, tx = CommandTransaction(r.Client, Contract, r.Type, r.Key, r.Value, clock)
  PROVE  Built(tx) /\ Carries(tx, r)
  <1>1. PICK d \in Seq(Nat) : d = CommandData(r.Type, r.Key, r.Value)
    BY CommandRead
  <1>2. r.Client \in Scalars /\ Has(Contract, 20)
    BY Given
  <1>3. Small(337 + Len(d))
    BY <1>1 DEF RequestsFit
  <1>4. tx = Signed(r.Client, NewBody(r.Client, Contract, d, clock))
    BY <1>1, Zenon DEF CommandTransaction
  <1>5. Built(tx) /\ tx.Data = d
    BY <1>2, <1>3, <1>4, BuiltFacts
  <1>6. r.Type # <<>>
    BY CommandRead
  <1> QED
    BY <1>1, <1>5, <1>6 DEF Carries

LEMMA SenderBuilt ==
  ASSUME RequestsFit, NEW r \in Requests, r.Type = <<>>, NEW clock \in Nat,
         NEW tx, tx = buildTransaction(r.Client, r.Value, clock)
  PROVE  Built(tx) /\ Carries(tx, r)
  <1>1. r.Client \in Scalars /\ r.Value \in Seq(Nat)
    BY Given
  <1>2. Has(NoAddress, 20)
    BY BytesHave
  <1>3. Small(337 + Len(r.Value))
    BY DEF RequestsFit
  <1>4. tx = Signed(r.Client, NewBody(r.Client, NoAddress, r.Value, clock))
    BY Zenon DEF buildTransaction
  <1>5. Built(tx) /\ tx.Data = r.Value
    BY <1>1, <1>2, <1>3, <1>4, BuiltFacts
  <1> QED
    BY <1>5 DEF Carries

(* A transaction is pooled: whole, or with a hash that is new.             *)
LEMMA AddServes ==
  ASSUME PoolServed, BlocksServed, WholeLater, MadeGrows, UNCHANGED blocks,
         NEW tx, AddTransaction(tx), Served(tx)', tx.Hash \notin known \/ Whole(tx)'
  PROVE  PoolServed' /\ BlocksServed' /\ WholeLater'
  <1>1. PICK g : g = tx.Hash
    OBVIOUS
  <1>2. known' = known \cup {g} /\ txPool' = Overlay(txPool, [k \in {g} |-> tx])
    BY <1>1 DEF AddTransaction
  <1>3. /\ DOMAIN txPool' = DOMAIN txPool \cup {g} /\ txPool'[g] = tx
        /\ \A h \in DOMAIN txPool : h # g => txPool'[h] = txPool[h]
    BY <1>2 DEF Overlay
  <1>4. \A i : Places(i)' = Places(i) /\ \A n : Tx(i, n)' = Tx(i, n)
    BY DEF Places, Tx
  <1>5. ASSUME NEW h \in DOMAIN txPool'
        PROVE  h \in known' /\ (txPool[h].Hash = h)' /\ Served(txPool[h])'
    <2>1. CASE h = g
      BY <1>1, <1>2, <1>3, <2>1
    <2>2. CASE h # g
      <3>1. PICK x : x = txPool[h]
        OBVIOUS
      <3>2. h \in DOMAIN txPool /\ txPool'[h] = x /\ h \in known /\ x.Hash = h /\ Served(x)
        BY <1>3, <2>2, <3>1 DEF PoolServed
      <3>3. Served(x)'
        BY <3>2, GrownServes
      <3> QED
        BY <1>2, <3>2, <3>3
    <2> QED
      BY <2>1, <2>2
  <1>6. PoolServed'
    BY <1>5 DEF PoolServed
  <1>7. BlocksServed'
    <2>1. ASSUME NEW i \in DOMAIN blocks, NEW n \in Places(i)
          PROVE  Tx(i, n).Hash \in known' /\ Served(Tx(i, n))'
      <3>1. PICK x : x = Tx(i, n)
        OBVIOUS
      <3>2. x.Hash \in known /\ Served(x)
        BY <3>1 DEF BlocksServed
      <3>3. Served(x)'
        BY <3>2, GrownServes
      <3>4. (x = Tx(i, n))'
        BY <1>4, <3>1
      <3> QED
        BY <1>2, <3>1, <3>2, <3>3, <3>4
    <2> QED
      BY <1>4, <2>1 DEF BlocksServed
  <1>8. WholeLater'
    <2>1. ASSUME NEW i \in DOMAIN blocks, NEW j \in DOMAIN blocks, i < j,
                 NEW n \in Places(i), NEW m \in Places(j), Tx(i, n).Hash = Tx(j, m).Hash
          PROVE  Whole(Tx(j, m))'
      <3>1. PICK x : x = Tx(j, m) /\ Whole(x)
        BY <2>1 DEF WholeLater
      <3>2. Whole(x)'
        BY <3>1, GrownServes
      <3> QED
        BY <1>4, <3>1, <3>2
    <2>2. ASSUME NEW i \in DOMAIN blocks, NEW n \in Places(i), NEW h \in DOMAIN txPool',
                 Tx(i, n).Hash = h
          PROVE  Whole(txPool[h])'
      <3>1. CASE h = g
        <4>1. g \in known
          BY <2>2, <3>1 DEF BlocksServed
        <4> QED
          BY <1>1, <1>3, <3>1, <4>1
      <3>2. CASE h # g
        <4>1. PICK x : x = txPool[h]
          OBVIOUS
        <4>2. h \in DOMAIN txPool /\ txPool'[h] = x
          BY <1>3, <3>2, <4>1
        <4>3. Whole(x)
          BY <2>2, <4>1, <4>2 DEF WholeLater
        <4> QED
          BY <4>2, <4>3, GrownServes
      <3> QED
        BY <3>1, <3>2
    <2> QED
      BY <1>4, <2>1, <2>2 DEF WholeLater
  <1> QED
    BY <1>6, <1>7, <1>8

LEMMA SameMade ==
  ASSUME UNCHANGED made
  PROVE  MadeGrows
  BY DEF MadeGrows

(* Nothing is pooled and nothing is packaged.                              *)
LEMMA LeaveServes ==
  ASSUME PoolServed, BlocksServed, WholeLater, MadeGrows, UNCHANGED <<blocks, known>>,
         DOMAIN txPool' \subseteq DOMAIN txPool,
         \A h \in DOMAIN txPool' : txPool'[h] = txPool[h]
  PROVE  PoolServed' /\ BlocksServed' /\ WholeLater'
  <1>1. \A i : Places(i)' = Places(i) /\ \A n : Tx(i, n)' = Tx(i, n)
    BY DEF Places, Tx
  <1>2. ASSUME NEW h \in DOMAIN txPool'
        PROVE  h \in known' /\ (txPool[h].Hash = h)' /\ Served(txPool[h])'
    <2>1. PICK x : x = txPool[h] /\ x = txPool'[h]
      OBVIOUS
    <2>2. h \in known /\ x.Hash = h /\ Served(x)
      BY <2>1 DEF PoolServed
    <2>3. Served(x)'
      BY <2>2, GrownServes
    <2> QED
      BY <2>1, <2>2, <2>3
  <1>3. PoolServed'
    BY <1>2 DEF PoolServed
  <1>4. ASSUME NEW i \in DOMAIN blocks, NEW n \in Places(i)
        PROVE  Tx(i, n).Hash \in known' /\ Served(Tx(i, n))'
    <2>1. PICK x : x = Tx(i, n)
      OBVIOUS
    <2>2. x.Hash \in known /\ Served(x)
      BY <2>1 DEF BlocksServed
    <2>3. Served(x)'
      BY <2>2, GrownServes
    <2>4. (x = Tx(i, n))'
      BY <1>1, <2>1
    <2> QED
      BY <2>1, <2>2, <2>3, <2>4
  <1>5. BlocksServed'
    BY <1>1, <1>4 DEF BlocksServed
  <1>6. ASSUME NEW i \in DOMAIN blocks, NEW j \in DOMAIN blocks, i < j,
               NEW n \in Places(i), NEW m \in Places(j), Tx(i, n).Hash = Tx(j, m).Hash
        PROVE  Whole(Tx(j, m))'
    <2>1. PICK x : x = Tx(j, m) /\ Whole(x)
      BY <1>6 DEF WholeLater
    <2>2. Whole(x)'
      BY <2>1, GrownServes
    <2> QED
      BY <1>1, <2>1, <2>2
  <1>7. ASSUME NEW i \in DOMAIN blocks, NEW n \in Places(i), NEW h \in DOMAIN txPool',
               Tx(i, n).Hash = h
        PROVE  Whole(txPool[h])'
    <2>1. PICK x : x = txPool[h] /\ x = txPool'[h]
      OBVIOUS
    <2>2. Whole(x)
      BY <1>7, <2>1 DEF WholeLater
    <2> QED
      BY <2>1, <2>2, GrownServes
  <1>8. WholeLater'
    BY <1>1, <1>6, <1>7 DEF WholeLater
  <1> QED
    BY <1>3, <1>5, <1>8

(* What is packaged was pooled, each hash once.                            *)
LEMMA PackagedFacts ==
  ASSUME PoolInv, PoolServed, NEW hashes \in Packaged, NEW txs, IsPacked(txs, hashes)
  PROVE  \E n \in Nat :
           /\ DOMAIN txs = 1..n /\ txs \in Seq(Bodies)
           /\ \A i \in 1..n : /\ txs[i].Hash \in DOMAIN txPool
                              /\ txs[i] = txPool[txs[i].Hash]
           /\ \A i, j \in 1..n : txs[i].Hash = txs[j].Hash => i = j
  <1>1. PICK S : S = {h \in DOMAIN txPool : <<"tx", h>> \notin DOMAIN db}
    OBVIOUS
  <1>2. PICK n \in Nat : n = Cardinality(S)
    <2>1. S \subseteq DOMAIN txPool
      BY <1>1
    <2>2. IsFiniteSet(S)
      BY <2>1, FS_Subset DEF PoolInv
    <2> QED
      BY <2>2, FS_CardinalityType
  <1>3. hashes \in [1..n -> S] /\ \A i, j \in 1..n : i # j => hashes[i] # hashes[j]
    BY <1>1, <1>2 DEF Packaged, SetToSeqs
  <1>4. DOMAIN txs = 1..n /\ \A i \in 1..n : txs[i] = txPool[hashes[i]]
    BY <1>3 DEF IsPacked
  <1>5. \A i \in 1..n : hashes[i] \in DOMAIN txPool /\ txs[i].Hash = hashes[i]
    BY <1>1, <1>3, <1>4 DEF PoolServed
  <1>6. txs \in Seq(Bodies)
    <2>1. PICK hs : IsHashes(hs, txs)
      BY DEF IsHashes
    <2> QED
      BY <2>1, PackagedType, Zenon
  <1> QED
    BY <1>3, <1>4, <1>5, <1>6

LEMMA PackageServes ==
  ASSUME WireInv, PoolServed, BlocksServed, WholeLater,
         NEW seed \in Seeds, NEW local \in Randoms, NEW r \in Randoms, Package(seed, local, r)
  PROVE  PoolServed' /\ BlocksServed' /\ WholeLater'
  <1>1. PICK hashes \in Packaged :
          LET txs == [i \in DOMAIN hashes |-> txPool[hashes[i]]]
          IN blocks' = Append(blocks, PackageNewBlock(txs, Clock, Params(seed, r)))
    BY Zenon DEF Package
  <1>2. PICK txs : IsPacked(txs, hashes)
    BY DEF IsPacked
  <1>3. PICK block : block = PackageNewBlock(txs, Clock, Params(seed, r)) /\ block.Transactions = txs
    <2>1. PICK header : PackageNewBlock(txs, Clock, Params(seed, r)) =
                          [Header |-> header, Transactions |-> txs]
      BY Zenon DEF PackageNewBlock
    <2>2. PICK block : block = [Header |-> header, Transactions |-> txs]
      OBVIOUS
    <2> QED
      BY <2>1, <2>2
  <1>4. blocks' = Append(blocks, block)
    BY <1>1, <1>2, <1>3 DEF IsPacked
  <1>5. PICK n \in Nat : n = Len(blocks) /\ DOMAIN blocks = 1..n
    BY DEF WireInv, BlocksInv
  <1>6. /\ DOMAIN blocks' = 1..(n + 1) /\ blocks'[n + 1] = block
        /\ \A i \in 1..n : blocks'[i] = blocks[i]
    BY <1>4, <1>5 DEF WireInv, BlocksInv
  <1>7. UNCHANGED <<made, known>> /\ txPool' = <<>>
    BY DEF Package
  <1>8. MadeGrows
    BY <1>7, SameMade
  <1>9. PICK k \in Nat :
          /\ DOMAIN txs = 1..k
          /\ \A i \in 1..k : txs[i].Hash \in DOMAIN txPool /\ txs[i] = txPool[txs[i].Hash]
          /\ \A i, j \in 1..k : txs[i].Hash = txs[j].Hash => i = j
    BY <1>2, PackagedFacts DEF WireInv
  <1>10. /\ \A i \in 1..n : Places(i)' = Places(i) /\ \A m : Tx(i, m)' = Tx(i, m)
         /\ Places(n + 1)' = 1..k /\ \A m \in 1..k : Tx(n + 1, m)' = txs[m]
    BY <1>3, <1>6, <1>9 DEF Places, Tx
  <1>11. PoolServed'
    BY <1>7 DEF PoolServed
  <1>12. ASSUME NEW i \in 1..n, NEW m \in Places(i)
         PROVE  Tx(i, m).Hash \in known' /\ Served(Tx(i, m))'
    <2>1. PICK x : x = Tx(i, m)
      OBVIOUS
    <2>2. x.Hash \in known /\ Served(x)
      BY <1>5, <2>1 DEF BlocksServed
    <2>3. Served(x)'
      BY <1>8, <2>2, GrownServes
    <2>4. (x = Tx(i, m))'
      BY <1>10, <2>1
    <2> QED
      BY <1>7, <2>1, <2>2, <2>3, <2>4
  <1>13. ASSUME NEW m \in 1..k
         PROVE  txs[m].Hash \in known' /\ Served(txs[m])'
    <2>1. PICK x : x = txs[m]
      OBVIOUS
    <2>2. x.Hash \in known /\ Served(x)
      BY <1>9, <2>1 DEF PoolServed
    <2>3. Served(x)'
      BY <1>8, <2>2, GrownServes
    <2> QED
      BY <1>7, <2>1, <2>2, <2>3
  <1>14. BlocksServed'
    <2>1. ASSUME NEW i \in 1..(n + 1)
          PROVE  /\ \A m \in Places(i)' : (Tx(i, m).Hash)' \in known' /\ Served(Tx(i, m))'
                 /\ \A m, l \in Places(i)' : (Tx(i, m).Hash)' = (Tx(i, l).Hash)' => m = l
      <3>1. CASE i = n + 1
        <4>1. Places(i)' = 1..k /\ \A m \in 1..k : Tx(i, m)' = txs[m]
          BY <1>10, <3>1
        <4>2. ASSUME NEW m \in 1..k
              PROVE  (Tx(i, m).Hash)' \in known' /\ Served(Tx(i, m))'
          BY <1>13, <4>1
        <4> QED
          BY <1>9, <4>1, <4>2
      <3>2. CASE i \in 1..n
        <4>1. Places(i)' = Places(i) /\ \A m : Tx(i, m)' = Tx(i, m)
          BY <1>10, <3>2
        <4>2. ASSUME NEW m \in Places(i)
              PROVE  (Tx(i, m).Hash)' \in known' /\ Served(Tx(i, m))'
          BY <1>12, <3>2, <4>1
        <4>3. \A m, l \in Places(i) : Tx(i, m).Hash = Tx(i, l).Hash => m = l
          BY <1>5, <3>2 DEF BlocksServed
        <4> QED
          BY <4>1, <4>2, <4>3
      <3> QED
        BY <3>1, <3>2
    <2> QED
      BY <1>6, <2>1 DEF BlocksServed
  <1>15. ASSUME NEW i \in 1..(n + 1), NEW j \in 1..(n + 1), i < j,
                NEW a \in Places(i)', NEW m \in Places(j)', (Tx(i, a).Hash)' = (Tx(j, m).Hash)'
         PROVE  Whole(Tx(j, m))'
    <2>1. i \in 1..n /\ a \in Places(i) /\ (Tx(i, a).Hash)' = Tx(i, a).Hash
      BY <1>10, <1>15
    <2>2. PICK x : x = Tx(j, m)' /\ Whole(x)
      <3>1. CASE j = n + 1
        <4>1. m \in 1..k /\ Tx(j, m)' = txs[m]
          BY <1>10, <1>15, <3>1
        <4>2. PICK h \in DOMAIN txPool : h = txs[m].Hash /\ txs[m] = txPool[h]
          BY <1>9, <4>1
        <4>3. Tx(i, a).Hash = h
          BY <1>15, <2>1, <4>1, <4>2
        <4>4. Whole(txPool[h])
          BY <1>5, <2>1, <4>3 DEF WholeLater
        <4> QED
          BY <4>1, <4>2, <4>4
      <3>2. CASE j \in 1..n
        <4>1. m \in Places(j) /\ Tx(j, m)' = Tx(j, m)
          BY <1>10, <1>15, <3>2
        <4>2. Whole(Tx(j, m))
          BY <1>5, <1>15, <2>1, <3>2, <4>1 DEF WholeLater
        <4> QED
          BY <4>1, <4>2
      <3> QED
        BY <3>1, <3>2
    <2>3. Whole(x)'
      BY <1>8, <2>2, GrownServes
    <2> QED
      BY <2>2, <2>3
  <1>16. WholeLater'
    BY <1>6, <1>7, <1>15 DEF WholeLater
  <1> QED
    BY <1>11, <1>14, <1>16

LEMMA ServedStarts ==
  ASSUME WireInit
  PROVE  ServedInv
  <1>1. /\ made = <<>> /\ asked = <<>> /\ txPool = <<>> /\ Len(blocks) = 1
        /\ blocks[1] = NewGenesisBlock /\ DOMAIN blocks = {1}
    BY DEF WireInit
  <1>2. MadeInv
    BY <1>1 DEF MadeInv
  <1>3. PoolServed
    BY <1>1 DEF PoolServed
  <1>4. \A i \in DOMAIN blocks : i = 1 /\ Places(i) = {}
    <2>1. blocks[1].Transactions = <<>>
      BY <1>1 DEF NewGenesisBlock
    <2> QED
      BY <1>1, <2>1 DEF Places
  <1>5. BlocksServed
    BY <1>4 DEF BlocksServed
  <1>6. WholeLater
    BY <1>4 DEF WholeLater
  <1> QED
    BY <1>2, <1>3, <1>5, <1>6 DEF ServedInv

LEMMA ServedSteps ==
  ASSUME RequestsFit, WireInv, ServedInv, [WireNext]_wireVars
  PROVE  ServedInv'
  <1>1. made \in Seq(Bodies) /\ MadeInv /\ PoolServed /\ BlocksServed /\ WholeLater
    BY DEF WireInv, ServedInv
  <1>2. ASSUME UNCHANGED <<asked, made>>
        PROVE  MadeInv' /\ MadeGrows
    BY <1>1, <1>2, SameMade DEF MadeInv
  <1>3. PICK c \in Nat : c = Clock
    BY <1>1, ClockType
  <1>4. ASSUME NEW r \in Requests, NEW here \in BOOLEAN, SendTransactionWithData(r, here)
        PROVE  ServedInv'
    <2>1. PICK tx : tx = CommandTransaction(r.Client, Contract, r.Type, r.Key, r.Value, c)
      OBVIOUS
    <2>2. /\ Make(r, tx) /\ (IF here THEN AddTransaction(tx) ELSE UNCHANGED <<txPool, known>>)
          /\ r.Type \in Commands
      BY <1>3, <1>4, <2>1, Zenon DEF SendTransactionWithData, Commands
    <2>3. Built(tx) /\ Carries(tx, r)
      BY <2>1, <2>2, CommandBuilt
    <2>4. MadeInv' /\ MadeGrows /\ Whole(tx)' /\ UNCHANGED <<blocks, db, tasks>>
      BY <1>1, <2>2, <2>3, MakeFacts
    <2>5. PoolServed' /\ BlocksServed' /\ WholeLater'
      <3>1. CASE here
        <4>1. Served(tx)'
          BY <2>4 DEF Served, Whole, Copy
        <4> QED
          BY <1>1, <2>2, <2>4, <3>1, <4>1, AddServes
      <3>2. CASE ~here
        <4>1. UNCHANGED <<blocks, known>> /\ txPool' = txPool
          BY <2>2, <2>4, <3>2
        <4> QED
          BY <1>1, <2>4, <4>1, LeaveServes
      <3> QED
        BY <3>1, <3>2
    <2> QED
      BY <2>4, <2>5 DEF ServedInv
  <1>5. ASSUME NEW r \in Requests, SenderBuilds(r)
        PROVE  ServedInv'
    <2>1. PICK tx : tx = buildTransaction(r.Client, r.Value, c)
      OBVIOUS
    <2>2. Make(r, tx) /\ UNCHANGED <<txPool, known>> /\ r.Type = <<>>
      BY <1>3, <1>5, <2>1, Zenon DEF SenderBuilds
    <2>3. Built(tx) /\ Carries(tx, r)
      BY <2>1, <2>2, SenderBuilt
    <2>4. MadeInv' /\ MadeGrows /\ UNCHANGED <<blocks, db, tasks>>
      BY <1>1, <2>2, <2>3, MakeFacts
    <2>5. UNCHANGED <<blocks, known>> /\ txPool' = txPool
      BY <2>2, <2>4
    <2>6. PoolServed' /\ BlocksServed' /\ WholeLater'
      BY <1>1, <2>4, <2>5, LeaveServes
    <2> QED
      BY <2>4, <2>6 DEF ServedInv
  <1>6. ASSUME NEW k \in DOMAIN made, TransactionUDP(made[k])
        PROVE  ServedInv'
    <2>1. PICK got : got = Datagram(made[k])
      OBVIOUS
    <2>2. got.Hash \notin known /\ AddTransaction(got) /\ UNCHANGED <<asked, made, blocks>>
      BY <1>6, <2>1 DEF TransactionUDP
    <2>3. MadeInv' /\ MadeGrows
      BY <1>2, <2>2
    <2>4. Served(got)'
      <3>1. Served(got)
        BY <2>1 DEF Served, Copy
      <3> QED
        BY <2>3, <3>1, GrownServes
    <2>5. PoolServed' /\ BlocksServed' /\ WholeLater'
      BY <1>1, <2>2, <2>3, <2>4, AddServes
    <2> QED
      BY <2>3, <2>5 DEF ServedInv
  <1>7. ASSUME NEW k \in DOMAIN made, SubmitTransaction(made[k])
        PROVE  ServedInv'
    <2>1. PICK tx : tx = made[k] /\ Built(tx)
      BY <1>1 DEF MadeInv
    <2>2. DeserializeTransaction(SerializeTransaction(tx)) = tx
      BY <2>1, SentFacts DEF Built
    <2>3. AddTransaction(tx) /\ UNCHANGED <<asked, made, blocks>>
      BY <1>7, <2>1, <2>2 DEF SubmitTransaction
    <2>4. MadeInv' /\ MadeGrows
      BY <1>2, <2>3
    <2>5. Served(tx)' /\ Whole(tx)'
      <3>1. Served(tx) /\ Whole(tx)
        BY <2>1 DEF Served, Whole, Copy
      <3> QED
        BY <2>4, <3>1, GrownServes
    <2>6. PoolServed' /\ BlocksServed' /\ WholeLater'
      BY <1>1, <2>3, <2>4, <2>5, AddServes
    <2> QED
      BY <2>4, <2>6 DEF ServedInv
  <1>8. ASSUME NEW seed \in Seeds, NEW local \in Randoms, NEW r \in Randoms,
               Package(seed, local, r)
        PROVE  ServedInv'
    <2>1. UNCHANGED <<asked, made>>
      BY <1>8 DEF Package
    <2> QED
      BY <1>1, <1>2, <1>8, <2>1, PackageServes DEF ServedInv
  <1>9. ASSUME NEW i \in DOMAIN blocks, InsertBlock(i)
        PROVE  ServedInv'
    <2>1. PICK S : txPool' = [h \in DOMAIN txPool \ S |-> txPool[h]]
      BY <1>9, Zenon DEF InsertBlock
    <2>2. UNCHANGED <<asked, made>> /\ UNCHANGED <<blocks, known>>
      BY <1>9 DEF InsertBlock
    <2>3. DOMAIN txPool' \subseteq DOMAIN txPool /\ \A h \in DOMAIN txPool' : txPool'[h] = txPool[h]
      BY <2>1
    <2> QED
      BY <1>1, <1>2, <2>2, <2>3, LeaveServes DEF ServedInv
  <1>10. CASE UNCHANGED wireVars
    <2>1. UNCHANGED <<asked, made>> /\ UNCHANGED <<blocks, known>> /\ txPool' = txPool
      BY <1>10 DEF wireVars
    <2> QED
      BY <1>1, <1>2, <2>1, LeaveServes DEF ServedInv
  <1> QED
    BY <1>4, <1>5, <1>6, <1>7, <1>8, <1>9, <1>10 DEF WireNext

-----------------------------------------------------------------------------
(* What is stored of the transactions, and what became tasks.              *)

(* What a batch writes for the transactions.                               *)
Enters(b, block) ==
  LET txs == block.Transactions
  IN /\ <<"latest">> \in DOMAIN b /\ b[<<"latest">>] = block.Header.BlockHash
     /\ \A n \in DOMAIN txs : <<"tx", txs[n].Hash>> \in DOMAIN b
     /\ \A k \in DOMAIN b : k[1] = "tx" =>
          \E n \in DOMAIN txs :
            /\ k = <<"tx", txs[n].Hash>>
            /\ b[k] = SerializeTransaction(Stamped(txs[n], block.Header, n))

LEMMA BatchEntries ==
  ASSUME NEW block
  PROVE  Enters(Batch(block), block)
  <1> DEFINE txs == block.Transactions
             Key(i) == <<"tx", txs[i].Hash>>
             keys == {<<"block", block.Header.BlockHash>>, <<"latest">>,
                      <<"height", block.Header.Height>>}
             all == keys \cup {Key(i) : i \in DOMAIN txs}
             At(k) == CHOOSE n \in DOMAIN txs : Key(n) = k
             Val(k) == CASE k[1] = "block" -> SerializeBlock(block)
                         [] k[1] = "tx" ->
                              LET i == CHOOSE n \in DOMAIN txs : Key(n) = k
                              IN SerializeTransaction(Stamped(txs[i], block.Header, i))
                         [] OTHER -> block.Header.BlockHash
  <1>1. PICK b : b = Batch(block)
    OBVIOUS
  <1>2. b = [k \in all |-> Val(k)]
    BY <1>1 DEF Batch
  <1>3. \A k : k[1] = "latest" => Val(k) = block.Header.BlockHash
    OBVIOUS
  <1>4. ASSUME NEW k, k[1] = "tx"
        PROVE  Val(k) = SerializeTransaction(Stamped(txs[At(k)], block.Header, At(k)))
    <2>1. k[1] # "block"
      BY <1>4
    <2> QED
      BY <1>4, <2>1, Zenon
  <1>5. ASSUME NEW k \in all, k[1] = "tx"
        PROVE  \E n \in DOMAIN txs : k = Key(n)
    <2>1. \A x : <<"block", x>>[1] # "tx" /\ <<"height", x>>[1] # "tx"
      OBVIOUS
    <2>2. <<"latest">>[1] # "tx"
      OBVIOUS
    <2> QED
      BY <1>5, <2>1, <2>2, Zenon
  <1>6. <<"latest">> \in all /\ \A n \in DOMAIN txs : Key(n) \in all
    OBVIOUS
  <1>7. \A k : (\E n \in DOMAIN txs : k = Key(n)) => At(k) \in DOMAIN txs /\ Key(At(k)) = k
    BY Zenon
  <1> HIDE DEF Val, all, At, Key
  <1>8. DOMAIN b = all /\ \A k \in all : b[k] = Val(k)
    BY <1>2
  <1>9. <<"latest">> \in DOMAIN b /\ b[<<"latest">>] = block.Header.BlockHash
    <2>1. <<"latest">>[1] = "latest"
      OBVIOUS
    <2> QED
      BY <1>3, <1>6, <1>8, <2>1
  <1>10. \A n \in DOMAIN txs : Key(n) \in DOMAIN b
    BY <1>6, <1>8
  <1>11. ASSUME NEW k \in DOMAIN b, k[1] = "tx"
         PROVE  \E n \in DOMAIN txs :
                  k = Key(n) /\ b[k] = SerializeTransaction(Stamped(txs[n], block.Header, n))
    <2>1. k \in all
      BY <1>8, <1>11
    <2>2. At(k) \in DOMAIN txs /\ Key(At(k)) = k
      BY <1>5, <1>7, <1>11, <2>1
    <2>3. b[k] = SerializeTransaction(Stamped(txs[At(k)], block.Header, At(k)))
      BY <1>4, <1>8, <1>11, <2>1
    <2> QED
      BY <2>2, <2>3
  <1>12. Enters(b, block)
    BY <1>9, <1>10, <1>11, Zenon DEF Enters, Key
  <1> QED
    BY <1>1, <1>12, Zenon

TaskRecord(tx, header) ==
  LET dc == DeserializeDataCommand(tx.Data)
  IN [Type |-> dc.Opt, Hash |-> tx.Hash, Height |-> header.Height,
      Address |-> tx.Receiver, Key |-> dc.Key, Value |-> dc.Value]

LEMMA TaskFacts ==
  ASSUME NEW tx, NEW header
  PROVE  Task(tx, header) = <<>> \/ Task(tx, header) = <<TaskRecord(tx, header)>>
  BY Zenon DEF Task, TaskRecord

LEMMA TasksOfFacts ==
  ASSUME NEW block \in BlockValues
  PROVE  \E S : /\ TasksOf(block) \in Seq(S)
                /\ \A t : Lists(TasksOf(block), t) <=>
                     \E n \in DOMAIN block.Transactions :
                       Lists(Task(block.Transactions[n], block.Header), t)
  <1>1. PICK header : header = block.Header
    OBVIOUS
  <1>2. PICK txs \in Seq(Values(TransactionBodyViewer)) :
          txs = block.Transactions /\ header = block.Header
    BY <1>1 DEF BlockValues
  <1>3. PICK k \in Nat : k = Len(txs) /\ DOMAIN txs = 1..k
    OBVIOUS
  <1>4. PICK S : S = {TaskRecord(txs[n], header) : n \in 1..k}
    OBVIOUS
  <1>5. ASSUME NEW n \in 1..k
        PROVE  Task(txs[n], header) \in Seq(S)
    <2>1. PICK t \in S : t = TaskRecord(txs[n], header)
      BY <1>4
    <2>2. <<>> \in Seq(S) /\ <<t>> \in Seq(S)
      OBVIOUS
    <2> QED
      BY <2>1, <2>2, TaskFacts, Zenon
  <1>6. PICK ss : ss = [n \in 1..k |-> Task(txs[n], header)]
    OBVIOUS
  <1>7. ss \in Seq(Seq(S)) /\ DOMAIN ss = 1..k /\ \A n \in 1..k : ss[n] = Task(txs[n], header)
    <2>1. ss \in [1..k -> Seq(S)]
      BY <1>5, <1>6
    <2> QED
      BY <1>6, <2>1
  <1>8. TasksOf(block) = FlattenSeq(ss)
    BY <1>2, <1>3, <1>6, Zenon DEF TasksOf
  <1>9. /\ FlattenSeq(ss) \in Seq(S)
        /\ \A t : Lists(FlattenSeq(ss), t) <=> \E i \in DOMAIN ss : Lists(ss[i], t)
    BY <1>7, Flattened
  <1>10. \A t : Lists(FlattenSeq(ss), t) <=> \E n \in DOMAIN txs : Lists(Task(txs[n], header), t)
    BY <1>3, <1>7, <1>9
  <1> QED
    BY <1>2, <1>8, <1>9, <1>10

LEMMA SeqWiden ==
  ASSUME NEW S, NEW U, S \subseteq U, NEW s \in Seq(S)
  PROVE  s \in Seq(U)
  OBVIOUS

Inserted(i) == BlockKey(i) \in DOMAIN db

(* The blocks are inserted in the order in which they were packaged.       *)
InOrder ==
  /\ \E k \in 1..Len(blocks) : /\ db[<<"latest">>] = HashOf(k)
                               /\ \A i \in 1..Len(blocks) : Inserted(i) <=> i <= k
  /\ \A i \in 2..Len(blocks) : blocks[i].Header.PrevBlockHash = HashOf(i - 1)

(* A stored transaction is that of the block which was inserted last.      *)
IsEntry(key, i, n) ==
  /\ Inserted(i) /\ key = <<"tx", Tx(i, n).Hash>>
  /\ db[key] = SerializeTransaction(Stamped(Tx(i, n), blocks[i].Header, n))
  /\ \A j \in 1..Len(blocks) : i < j /\ Inserted(j) =>
       \A m \in Places(j) : Tx(j, m).Hash # Tx(i, n).Hash

EntriesInv ==
  \A key \in DOMAIN db : key[1] = "tx" =>
    \E i \in 1..Len(blocks) : \E n \in Places(i) : IsEntry(key, i, n)

(* Every block that was inserted has sent its commands, nothing else has.  *)
TasksInv ==
  /\ \E S : tasks \in Seq(S)
  /\ \A t : Lists(tasks, t) <=>
       \E i \in 1..Len(blocks) :
         Inserted(i) /\ \E n \in Places(i) : Lists(Task(Tx(i, n), blocks[i].Header), t)

KeptInv == InOrder /\ EntriesInv /\ TasksInv

LEMMA KeptStarts ==
  ASSUME WireInit
  PROVE  KeptInv
  <1>1. PICK g : g = NewGenesisBlock
    OBVIOUS
  <1>2. blocks = <<g>> /\ db = Batch(g) /\ tasks = <<>>
    BY <1>1, Zenon DEF WireInit
  <1>3. Len(blocks) = 1 /\ blocks[1] = g /\ DOMAIN blocks = {1}
    BY <1>2
  <1>4. g.Transactions = <<>>
    BY <1>1 DEF NewGenesisBlock
  <1>5. DOMAIN g.Transactions = {} /\ Places(1) = {}
    BY <1>3, <1>4 DEF Places
  <1>6. Enters(db, g)
    BY <1>2, BatchEntries, Zenon
  <1>7. db[<<"latest">>] = HashOf(1)
    BY <1>3, <1>6, Zenon DEF Enters, HashOf
  <1>8. Inserted(1)
    BY StoreStarts DEF StoreInv, Inserted
  <1>9. InOrder
    <2>1. 1 \in 1..1 /\ 1 <= 1 /\ \A i \in 1..1 : i = 1
      OBVIOUS
    <2>2. \A i \in 2..1 : FALSE
      OBVIOUS
    <2> QED
      BY <1>3, <1>7, <1>8, <2>1, <2>2 DEF InOrder
  <1>10. EntriesInv
    <2>1. \A key \in DOMAIN db : key[1] # "tx"
      BY <1>5, <1>6, Zenon DEF Enters
    <2> QED
      BY <2>1 DEF EntriesInv
  <1>11. TasksInv
    <2>1. <<>> \in Seq({}) /\ \A t : ~Lists(<<>>, t)
      BY DEF Lists
    <2>2. \A i \in 1..Len(blocks) : Places(i) = {}
      BY <1>3, <1>5
    <2> QED
      BY <1>2, <2>1, <2>2 DEF TasksInv
  <1> QED
    BY <1>9, <1>10, <1>11 DEF KeptInv

LEMMA KeptPackages ==
  ASSUME WireInv, StoreInv, KeptInv, HashesDiffer', NEW seed \in Seeds, NEW local \in Randoms,
         NEW r \in Randoms, Package(seed, local, r), WireInv'
  PROVE  KeptInv'
  <1>1. PICK hashes \in Packaged :
          LET txs == [i \in DOMAIN hashes |-> txPool[hashes[i]]]
          IN blocks' = Append(blocks, PackageNewBlock(txs, Clock, Params(seed, r)))
    BY Zenon DEF Package
  <1>2. PICK block : /\ block = PackageNewBlock([i \in DOMAIN hashes |-> txPool[hashes[i]]],
                                               Clock, Params(seed, r))
                     /\ blocks' = Append(blocks, block)
    BY <1>1
  <1>3. PICK n \in Nat : n = Len(blocks) /\ n >= 1
    BY DEF WireInv, BlocksInv
  <1>4. /\ Len(blocks') = n + 1 /\ DOMAIN blocks' = 1..(n + 1) /\ blocks'[n + 1] = block
        /\ \A i \in 1..n : blocks'[i] = blocks[i]
    BY <1>2, <1>3 DEF WireInv, BlocksInv
  <1>5. db' = db /\ tasks' = tasks
    BY DEF Package
  <1>6. \A i \in 1..n : /\ HashOf(i)' = HashOf(i) /\ BlockKey(i)' = BlockKey(i)
                        /\ Places(i)' = Places(i) /\ \A m : Tx(i, m)' = Tx(i, m)
    BY <1>4 DEF HashOf, BlockKey, Places, Tx
  <1>7. \A i \in 1..n : Inserted(i)' <=> Inserted(i)
    BY <1>5, <1>6 DEF Inserted
  <1>8. ~Inserted(n + 1)'
    <2>1. SUFFICES ASSUME BlockKey(n + 1)' \in DOMAIN db
                   PROVE  FALSE
      BY <1>5 DEF Inserted
    <2>2. PICK h : h = HashOf(n + 1)' /\ <<"block", h>> \in DOMAIN db
      BY <2>1 DEF BlockKey
    <2>3. PICK i \in 1..n : h = HashOf(i)
      BY <1>3, <2>2 DEF StoreInv
    <2>4. HashOf(i)' = HashOf(n + 1)'
      BY <1>6, <2>2, <2>3
    <2>6. i \in DOMAIN blocks' /\ n + 1 \in DOMAIN blocks' /\ i # n + 1
      BY <1>4
    <2> QED
      BY <2>4, <2>6, Zenon DEF HashesDiffer
  <1>9. block.Header.PrevBlockHash = HashOf(n)
    <2>1. PICK h : /\ block.Header = Hashed(h) /\ h.PrevBlockHash = HashOf(n)
                   /\ DOMAIN h = {"Timestamp", "PrevBlockHash", "BlockHash", "MerkleRoot",
                                  "Height", "PublicKey", "Params", "GasLimit"}
      <3>1. PICK root, params, clock, prev :
              /\ block.Header = Hashed(Header(prev, n, root, params, clock))
              /\ prev = HashOf(n)
        BY <1>2, <1>3 DEF PackageNewBlock, HashOf
      <3>2. PICK h : h = Header(prev, n, root, params, clock)
        OBVIOUS
      <3> QED
        BY <3>1, <3>2 DEF Header
    <2>2. Hashed(h).PrevBlockHash = h.PrevBlockHash
      BY <2>1 DEF Hashed
    <2> QED
      BY <2>1, <2>2
  <1>10. InOrder'
    <2>1. PICK k \in 1..n : /\ db[<<"latest">>] = HashOf(k)
                            /\ \A i \in 1..n : Inserted(i) <=> i <= k
      BY <1>3 DEF KeptInv, InOrder
    <2>2. k \in 1..(n + 1) /\ db'[<<"latest">>] = HashOf(k)'
      BY <1>5, <1>6, <2>1
    <2>3. ASSUME NEW i \in 1..(n + 1)
          PROVE  Inserted(i)' <=> i <= k
      <3>1. CASE i = n + 1
        BY <1>8, <3>1
      <3>2. CASE i \in 1..n
        BY <1>7, <2>1, <3>2
      <3> QED
        BY <3>1, <3>2
    <2>4. ASSUME NEW i \in 2..(n + 1)
          PROVE  blocks'[i].Header.PrevBlockHash = HashOf(i - 1)'
      <3>1. CASE i = n + 1
        <4>1. i - 1 = n /\ n \in 1..n
          BY <1>3, <3>1
        <4> QED
          BY <1>4, <1>6, <1>9, <3>1, <4>1
      <3>2. CASE i \in 2..n
        <4>1. i \in 1..n /\ i - 1 \in 1..n
          BY <3>2
        <4>2. blocks[i].Header.PrevBlockHash = HashOf(i - 1)
          BY <1>3, <3>2 DEF KeptInv, InOrder
        <4> QED
          BY <1>4, <1>6, <4>1, <4>2
      <3> QED
        BY <3>1, <3>2
    <2> QED
      BY <1>4, <2>2, <2>3, <2>4 DEF InOrder
  <1>11. EntriesInv'
    <2>1. ASSUME NEW key \in DOMAIN db', key[1] = "tx"
          PROVE  \E i \in 1..(n + 1) : \E m \in Places(i)' : IsEntry(key, i, m)'
      <3>1. PICK i \in 1..n : \E m \in Places(i) : IsEntry(key, i, m)
        BY <1>3, <1>5, <2>1 DEF KeptInv, EntriesInv
      <3>2. PICK m \in Places(i) : IsEntry(key, i, m)
        BY <3>1
      <3>3. ASSUME NEW j \in 1..(n + 1), i < j, Inserted(j)', NEW l \in Places(j)'
            PROVE  (Tx(j, l).Hash)' # Tx(i, m).Hash
        <4>1. j \in 1..n
          BY <1>8, <3>3
        <4> QED
          BY <1>3, <1>6, <1>7, <3>2, <3>3, <4>1 DEF IsEntry
      <3>4. Tx(i, m)' = Tx(i, m) /\ Places(i)' = Places(i) /\ blocks'[i] = blocks[i]
        BY <1>4, <1>6
      <3>5. IsEntry(key, i, m)'
        BY <1>4, <1>5, <1>7, <3>2, <3>3, <3>4 DEF IsEntry
      <3>6. i \in 1..(n + 1)
        OBVIOUS
      <3> QED
        BY <3>4, <3>5, <3>6
    <2> QED
      BY <1>4, <2>1 DEF EntriesInv
  <1>12. TasksInv'
    <2>1. ASSUME NEW t
          PROVE  Lists(tasks', t) <=>
                   \E i \in 1..(n + 1) :
                     Inserted(i)' /\ \E m \in Places(i)' : Lists(Task(Tx(i, m), blocks[i].Header), t)'
      <3>1. Lists(tasks, t) <=>
              \E i \in 1..n :
                Inserted(i) /\ \E m \in Places(i) : Lists(Task(Tx(i, m), blocks[i].Header), t)
        BY <1>3 DEF KeptInv, TasksInv
      <3>2. \A i \in 1..n : blocks'[i].Header = blocks[i].Header
        BY <1>4
      <3>3. \A i \in 1..(n + 1) : i \in 1..n \/ i = n + 1
        OBVIOUS
      <3>4. 1..n \subseteq 1..(n + 1)
        OBVIOUS
      <3>5. \A i \in 1..n : \A m : Lists(Task(Tx(i, m), blocks[i].Header), t)'
                                     <=> Lists(Task(Tx(i, m), blocks[i].Header), t)
        BY <1>6, <3>2 DEF Lists, Task
      <3> QED
        BY <1>5, <1>6, <1>7, <1>8, <3>1, <3>3, <3>4, <3>5
    <2> QED
      BY <1>4, <1>5, <2>1 DEF KeptInv, TasksInv
  <1> QED
    BY <1>10, <1>11, <1>12 DEF KeptInv

LEMMA KeptInserts ==
  ASSUME WireInv, StoreInv, KeptInv, BlocksFit, HashesDiffer, NEW i \in DOMAIN blocks,
         InsertBlock(i)
  PROVE  KeptInv'
  <1>1. PICK n \in Nat : n = Len(blocks) /\ n >= 1 /\ DOMAIN blocks = 1..n
    BY DEF WireInv, BlocksInv
  <1>2. i \in 1..n
    BY <1>1
  <1>3. PICK x \in BlockValues : x = blocks[i]
    BY <1>1, <1>2 DEF WireInv, BlocksInv
  <1>4. Gossiped(i) = x
    <2>1. Small(Len(SerializeBlock(x)))
      BY <1>1, <1>2, <1>3 DEF BlocksFit
    <2> QED
      BY <1>3, <2>1, BlocksReadAsWritten DEF Gossiped
  <1>5. PICK b : b = Batch(x)
    OBVIOUS
  <1>6. /\ BlockKey(i) \notin DOMAIN db /\ db[<<"latest">>] = x.Header.PrevBlockHash
        /\ db' = Overlay(db, b) /\ tasks' = tasks \o TasksOf(x) /\ blocks' = blocks
    <2>1. /\ <<"block", x.Header.BlockHash>> \notin DOMAIN db
          /\ db[<<"latest">>] = x.Header.PrevBlockHash
          /\ db' = Overlay(db, b) /\ tasks' = tasks \o TasksOf(x) /\ blocks' = blocks
      BY <1>4, <1>5, Zenon DEF InsertBlock
    <2> QED
      BY <1>3, <2>1 DEF BlockKey, HashOf
  <1>7. \A j : /\ HashOf(j)' = HashOf(j) /\ BlockKey(j)' = BlockKey(j)
               /\ Places(j)' = Places(j) /\ \A m : Tx(j, m)' = Tx(j, m)
    BY <1>6 DEF HashOf, BlockKey, Places, Tx
  <1>8. /\ Places(i) = DOMAIN x.Transactions /\ \A m : Tx(i, m) = x.Transactions[m]
        /\ HashOf(i) = x.Header.BlockHash
    BY <1>3 DEF Places, Tx, HashOf
  <1>9. /\ DOMAIN db' = DOMAIN db \cup DOMAIN b
        /\ \A k \in DOMAIN b : db'[k] = b[k]
        /\ \A k \in DOMAIN db : k \notin DOMAIN b => db'[k] = db[k]
    <2>1. IsOverlay(db', db, b)
      BY <1>6, OverlaidFacts, Zenon
    <2> QED
      BY <2>1, Zenon DEF IsOverlay
  <1>10. /\ <<"latest">> \in DOMAIN b /\ b[<<"latest">>] = HashOf(i)
         /\ \A m \in Places(i) : <<"tx", Tx(i, m).Hash>> \in DOMAIN b
         /\ \A k \in DOMAIN b : k[1] = "tx" =>
              \E m \in Places(i) :
                /\ k = <<"tx", Tx(i, m).Hash>>
                /\ b[k] = SerializeTransaction(Stamped(Tx(i, m), x.Header, m))
    <2>1. Enters(b, x)
      BY <1>5, BatchEntries, Zenon
    <2>2. PICK txs, header : txs = x.Transactions /\ header = x.Header
      OBVIOUS
    <2>3. /\ <<"latest">> \in DOMAIN b /\ b[<<"latest">>] = header.BlockHash
          /\ \A m \in DOMAIN txs : <<"tx", txs[m].Hash>> \in DOMAIN b
          /\ \A k \in DOMAIN b : k[1] = "tx" =>
               \E m \in DOMAIN txs :
                 /\ k = <<"tx", txs[m].Hash>>
                 /\ b[k] = SerializeTransaction(Stamped(txs[m], header, m))
      BY <2>1, <2>2, Zenon DEF Enters
    <2>4. /\ Places(i) = DOMAIN txs /\ \A m : Tx(i, m) = txs[m]
          /\ HashOf(i) = header.BlockHash
      BY <1>8, <2>2
    <2> QED
      BY <2>2, <2>3, <2>4
  <1>11. /\ BlockKey(i) \in DOMAIN b
         /\ \A h : <<"block", h>> \in DOMAIN b => h = HashOf(i)
    <2>1. Writes(b, x)
      BY <1>5, BatchFacts, Zenon
    <2>2. BlockKey(i) = <<"block", x.Header.BlockHash>>
      BY <1>8 DEF BlockKey
    <2> QED
      BY <1>8, <2>1, <2>2, Zenon DEF Writes
  <1>12. ASSUME NEW j \in 1..n
         PROVE  Inserted(j)' <=> Inserted(j) \/ j = i
    <2>1. BlockKey(j) \in DOMAIN b => j = i
      <3>1. BlockKey(j) \in DOMAIN b => HashOf(j) = HashOf(i)
        BY <1>11 DEF BlockKey
      <3> QED
        BY <1>1, <1>2, <3>1 DEF HashesDiffer
    <2> QED
      BY <1>7, <1>9, <1>11, <2>1 DEF Inserted
  <1>13. PICK k \in 1..n : /\ db[<<"latest">>] = HashOf(k)
                           /\ \A j \in 1..n : Inserted(j) <=> j <= k
    BY <1>1 DEF KeptInv, InOrder
  <1>14. i = k + 1
    <2>1. i # 1
      <3>1. BlockKey(1) \in DOMAIN db
        BY DEF StoreInv
      <3> QED
        BY <1>6, <3>1
    <2>2. PICK p \in 1..n : p = i - 1
      BY <1>2, <2>1
    <2>3. x.Header.PrevBlockHash = HashOf(p)
      BY <1>1, <1>2, <1>3, <2>1, <2>2 DEF KeptInv, InOrder
    <2>4. p = k
      BY <1>1, <1>6, <1>13, <2>3 DEF HashesDiffer
    <2> QED
      BY <1>2, <2>2, <2>4
  <1>15. \A j \in 1..n : Inserted(j)' <=> j <= i
    BY <1>2, <1>12, <1>13, <1>14
  <1>16. InOrder'
    <2>1. db'[<<"latest">>] = HashOf(i)'
      BY <1>7, <1>9, <1>10
    <2>2. \A j \in 2..n : blocks'[j].Header.PrevBlockHash = HashOf(j - 1)'
      BY <1>1, <1>6, <1>7 DEF KeptInv, InOrder
    <2> QED
      BY <1>1, <1>2, <1>6, <1>15, <2>1, <2>2 DEF InOrder
  <1>17. EntriesInv'
    <2>1. ASSUME NEW key \in DOMAIN db', key[1] = "tx"
          PROVE  \E j \in 1..n : \E m \in Places(j)' : IsEntry(key, j, m)'
      <3>1. CASE key \in DOMAIN b
        <4>1. PICK m \in Places(i) :
                /\ key = <<"tx", Tx(i, m).Hash>>
                /\ b[key] = SerializeTransaction(Stamped(Tx(i, m), x.Header, m))
          BY <1>10, <2>1, <3>1
        <4>2. db'[key] = SerializeTransaction(Stamped(Tx(i, m), blocks[i].Header, m))
          BY <1>3, <1>9, <3>1, <4>1
        <4>3. \A j \in 1..n : ~(i < j /\ Inserted(j)')
          BY <1>2, <1>15
        <4>4. Inserted(i)'
          BY <1>2, <1>12
        <4>5. IsEntry(key, i, m)'
          BY <1>1, <1>6, <1>7, <4>1, <4>2, <4>3, <4>4 DEF IsEntry
        <4> QED
          BY <1>2, <1>7, <4>5
      <3>2. CASE key \notin DOMAIN b
        <4>1. key \in DOMAIN db /\ db'[key] = db[key]
          BY <1>9, <2>1, <3>2
        <4>2. PICK j \in 1..n : \E m \in Places(j) : IsEntry(key, j, m)
          BY <1>1, <2>1, <4>1 DEF KeptInv, EntriesInv
        <4>3. PICK m \in Places(j) : IsEntry(key, j, m)
          BY <4>2
        <4>4. ASSUME NEW q \in 1..n, j < q, Inserted(q)', NEW l \in Places(q)
              PROVE  Tx(q, l).Hash # Tx(j, m).Hash
          <5>1. CASE Inserted(q)
            BY <1>1, <4>3, <4>4, <5>1 DEF IsEntry
          <5>2. CASE q = i
            <6>1. <<"tx", Tx(q, l).Hash>> \in DOMAIN b
              BY <1>10, <4>4, <5>2
            <6>2. key = <<"tx", Tx(j, m).Hash>>
              BY <4>3 DEF IsEntry
            <6> QED
              BY <3>2, <6>1, <6>2
          <5> QED
            BY <1>12, <4>4, <5>1, <5>2
        <4>5. Inserted(j)'
          BY <1>12, <4>3 DEF IsEntry
        <4>6. IsEntry(key, j, m)'
          BY <1>1, <1>6, <1>7, <4>1, <4>3, <4>4, <4>5 DEF IsEntry
        <4> QED
          BY <1>7, <4>6
      <3> QED
        BY <3>1, <3>2
    <2> QED
      BY <1>1, <1>6, <2>1 DEF EntriesInv
  <1>18. TasksInv'
    <2>1. PICK S, T, new : /\ tasks \in Seq(S) /\ new \in Seq(T) /\ new = TasksOf(x)
                           /\ \A t : Lists(new, t) <=>
                                \E m \in Places(i) : Lists(Task(Tx(i, m), blocks[i].Header), t)
      <3>1. PICK S : tasks \in Seq(S)
        BY DEF KeptInv, TasksInv
      <3>2. PICK T : /\ TasksOf(x) \in Seq(T)
                     /\ \A t : Lists(TasksOf(x), t) <=>
                          \E m \in DOMAIN x.Transactions :
                            Lists(Task(x.Transactions[m], x.Header), t)
        BY TasksOfFacts
      <3> QED
        BY <1>3, <1>8, <3>1, <3>2
    <2>2. PICK U : U = S \cup T /\ tasks \in Seq(U) /\ new \in Seq(U)
      <3>1. PICK U : U = S \cup T
        OBVIOUS
      <3>2. S \subseteq U /\ T \subseteq U
        BY <3>1
      <3>3. tasks \in Seq(U) /\ new \in Seq(U)
        BY <2>1, <3>2, SeqWiden
      <3> QED
        BY <3>1, <3>3
    <2>3. tasks' = tasks \o new
      BY <1>6, <2>1
    <2>4. tasks' \in Seq(U) /\ \A t : Lists(tasks', t) <=> Lists(tasks, t) \/ Lists(new, t)
      BY <2>2, <2>3, ListsJoin
    <2>5. \A j, m, t : Lists(Task(Tx(j, m), blocks[j].Header), t)'
                         <=> Lists(Task(Tx(j, m), blocks[j].Header), t)
      BY <1>6, <1>7 DEF Lists, Task
    <2>6. ASSUME NEW t
          PROVE  Lists(tasks', t) <=>
                   \E j \in 1..n :
                     Inserted(j)' /\ \E m \in Places(j)' : Lists(Task(Tx(j, m), blocks[j].Header), t)'
      <3>1. Lists(tasks, t) <=>
              \E j \in 1..n :
                Inserted(j) /\ \E m \in Places(j) : Lists(Task(Tx(j, m), blocks[j].Header), t)
        BY <1>1 DEF KeptInv, TasksInv
      <3> QED
        BY <1>2, <1>7, <1>12, <2>1, <2>4, <2>5, <3>1
    <2> QED
      BY <1>1, <1>6, <2>4, <2>6 DEF TasksInv
  <1> QED
    BY <1>16, <1>17, <1>18 DEF KeptInv

LEMMA KeptSteps ==
  ASSUME WireInv, WireInv', StoreInv, KeptInv, BlocksFit, HashesDiffer, HashesDiffer',
         [WireNext]_wireVars
  PROVE  KeptInv'
  <1>1. ASSUME UNCHANGED <<blocks, db, tasks>>
        PROVE  KeptInv'
    <2>1. /\ \A i : /\ HashOf(i)' = HashOf(i) /\ Places(i)' = Places(i)
                    /\ Inserted(i)' <=> Inserted(i)
          /\ \A i, m : Tx(i, m)' = Tx(i, m)
      BY <1>1 DEF Inserted, Places, Tx, BlockKey, HashOf
    <2>2. \A key, i, m : IsEntry(key, i, m)' <=> IsEntry(key, i, m)
      BY <1>1, <2>1 DEF IsEntry
    <2>3. \A i, m, t : /\ Lists(Task(Tx(i, m), blocks[i].Header), t)'
                           <=> Lists(Task(Tx(i, m), blocks[i].Header), t)
                       /\ Lists(tasks, t)' <=> Lists(tasks, t)
      BY <1>1, <2>1 DEF Lists, Task
    <2>4. InOrder'
      BY <1>1, <2>1 DEF KeptInv, InOrder
    <2>5. EntriesInv'
      BY <1>1, <2>1, <2>2 DEF KeptInv, EntriesInv
    <2>6. TasksInv'
      <3>1. \E S : tasks' \in Seq(S)
        BY <1>1 DEF KeptInv, TasksInv
      <3>2. ASSUME NEW t
            PROVE  Lists(tasks, t)' <=>
                     \E i \in 1..Len(blocks) :
                       /\ Inserted(i)
                       /\ \E n \in Places(i) : Lists(Task(Tx(i, n), blocks[i].Header), t)'
        BY <2>3 DEF KeptInv, TasksInv
      <3> QED
        BY <1>1, <2>1, <3>1, <3>2 DEF TasksInv
    <2> QED
      BY <2>4, <2>5, <2>6 DEF KeptInv
  <1>2. ASSUME NEW r \in Requests, NEW here \in BOOLEAN, SendTransactionWithData(r, here)
        PROVE  UNCHANGED <<blocks, db, tasks>>
    <2>1. PICK tx : Make(r, tx)
      BY <1>2, Zenon DEF SendTransactionWithData
    <2> QED
      BY <2>1 DEF Make
  <1>3. ASSUME NEW r \in Requests, SenderBuilds(r)
        PROVE  UNCHANGED <<blocks, db, tasks>>
    <2>1. PICK tx : Make(r, tx)
      BY <1>3, Zenon DEF SenderBuilds
    <2> QED
      BY <2>1 DEF Make
  <1>4. ASSUME NEW i \in DOMAIN made, TransactionUDP(made[i]) \/ SubmitTransaction(made[i])
        PROVE  UNCHANGED <<blocks, db, tasks>>
    BY <1>4 DEF TransactionUDP, SubmitTransaction
  <1>5. ASSUME NEW seed \in Seeds, NEW local \in Randoms, NEW r \in Randoms,
               Package(seed, local, r)
        PROVE  KeptInv'
    BY <1>5, KeptPackages
  <1>6. ASSUME NEW i \in DOMAIN blocks, InsertBlock(i)
        PROVE  KeptInv'
    BY <1>6, KeptInserts
  <1>7. CASE UNCHANGED wireVars
    BY <1>1, <1>7 DEF wireVars
  <1> QED
    BY <1>1, <1>2, <1>3, <1>4, <1>5, <1>6, <1>7 DEF WireNext

-----------------------------------------------------------------------------
(* What is served.                                                         *)

(* Transactions that were built have different hashes, and the digest of   *)
(* no text a node has is the hash of another transaction.                  *)
DigestsDiffer ==
  /\ \A i, k \in DOMAIN made : made[i].Hash = made[k].Hash => i = k
  /\ \A i, k \in DOMAIN made : Distinct(Datagram(made[i]), made[k])
  /\ \A h \in StoredHashes, k \in DOMAIN made : Distinct(GetTransactionByHash(h), made[k])

LEMMA NumberRead ==
  ASSUME NEW n \in Nat, Small(n)
  PROVE  /\ WordAt(LittleEndian(n), 0) = n
         /\ LittleEndian(n) = Zeros(8) => n = 0
  <1>1. PICK u \in Seq(Nat), z \in Seq(Nat) : u = Word(n) /\ z = Zeros(4) /\ Len(u) = 4
    <2>1. Zeros(4) \in Seq(Nat)
      BY BytesHave DEF Has
    <2> QED
      BY <2>1, WordFacts
  <1>2. PICK d : d = LittleEndian(n) /\ d = u \o z
    BY <1>1, Zenon DEF LittleEndian
  <1>3. d[1] = u[1] /\ d[2] = u[2] /\ d[3] = u[3]
    <2>1. ASSUME NEW i \in 1..4
          PROVE  d[i] = u[i]
      <3>1. i \in 1..Len(u)
        BY <1>1
      <3>2. (u \o z)[i] = u[i]
        BY <3>1
      <3> QED
        BY <1>2, <3>2
    <2>2. 1 \in 1..4 /\ 2 \in 1..4 /\ 3 \in 1..4
      OBVIOUS
    <2> QED
      BY <2>1, <2>2
  <1>4. u[1] + 256 * u[2] + 65536 * u[3] = n
    BY <1>1, WordFacts
  <1>5. WordAt(d, 0) = n
    <2>1. 0 + 1 = 1 /\ 0 + 2 = 2 /\ 0 + 3 = 3
      OBVIOUS
    <2>2. WordAt(d, 0) = d[1] + 256 * d[2] + 65536 * d[3]
      BY <2>1 DEF WordAt
    <2> QED
      BY <1>3, <1>4, <2>2
  <1>6. ASSUME d = Zeros(8)
        PROVE  n = 0
    <2>1. d[1] = 0 /\ d[2] = 0 /\ d[3] = 0
      <3>1. PICK m \in Nat : m = 8 /\ 1 \in 1..m /\ 2 \in 1..m /\ 3 \in 1..m
        OBVIOUS
      <3>2. \A i \in 1..m : Zeros(m)[i] = 0
        BY ZerosFacts
      <3> QED
        BY <1>6, <3>1, <3>2
    <2> QED
      BY <1>3, <1>4, <2>1
  <1> QED
    BY <1>2, <1>5, <1>6

LEMMA PlacesSmall ==
  ASSUME NEW x \in BlockValues, Small(Len(SerializeBlock(x)))
  PROVE  \A n \in DOMAIN x.Transactions : n \in Nat /\ n # 0 /\ n - 1 \in Nat /\ Small(n - 1)
  <1>1. PICK d \in Seq(Nat), m \in Nat : d = SerializeBlock(x) /\ BlockHeld(d, x, m)
    BY BlockWritten
  <1>2. PICK txs \in Seq(Values(TransactionBodyViewer)) : txs = x.Transactions
    BY DEF BlockValues
  <1>3. PICK k \in Nat, top \in Nat : k = Len(txs) /\ top = Len(d) /\ DOMAIN txs = 1..k
    OBVIOUS
  <1>4. m + 8 * k <= top
    BY <1>1, <1>2, <1>3, Zenon DEF BlockHeld
  <1>5. k <= MaxWord
    <2>1. top <= MaxWord
      BY <1>1, <1>3 DEF Small
    <2> QED
      BY <1>4, <2>1 DEF MaxWord
  <1> QED
    BY <1>2, <1>3, <1>5 DEF Small, MaxWord

LEMMA CopyDistinct ==
  ASSUME DigestsDiffer, NEW k \in DOMAIN made, NEW x, Copy(x, made[k])
  PROVE  Distinct(x, made[k])
  <1>1. CASE x = made[k]
    BY <1>1 DEF Distinct
  <1>2. CASE x = Datagram(made[k])
    BY <1>2 DEF DigestsDiffer
  <1> QED
    BY <1>1, <1>2 DEF Copy

LEMMA MadeVerifies ==
  ASSUME made \in Seq(Bodies), MadeInv, made # <<>>
  PROVE  Verify(made[Len(made)])
  <1>1. PICK k \in DOMAIN made : k = Len(made)
    OBVIOUS
  <1>2. PICK y : y = made[k] /\ Built(y)
    BY DEF MadeInv
  <1>3. Verify(y)
    BY <1>2, CopyVerifies DEF Copy, Distinct
  <1> QED
    BY <1>1, <1>2, <1>3

LEMMA PoolVerifies ==
  ASSUME MadeInv, PoolServed, DigestsDiffer, NEW h \in DOMAIN txPool
  PROVE  \E k \in DOMAIN made : /\ made[k].Hash = h
                               /\ Verify(txPool[h]) <=> txPool[h] = made[k]
  <1>1. PICK x : x = txPool[h] /\ x.Hash = h /\ Served(x)
    BY DEF PoolServed
  <1>2. PICK k \in DOMAIN made : Copy(x, made[k])
    BY <1>1 DEF Served
  <1>3. PICK y : y = made[k] /\ Built(y) /\ Copy(x, y) /\ Distinct(x, y)
    BY <1>2, CopyDistinct DEF MadeInv
  <1>4. y.Hash = h /\ (Verify(x) <=> x = y)
    BY <1>1, <1>3, CopyFacts, CopyVerifies
  <1> QED
    BY <1>1, <1>3, <1>4

(* Where a stored transaction is in its block, and of which one it is a    *)
(* copy.                                                                   *)
StoredAt(h, i, n, k) ==
  LET x == Tx(i, n)
  IN /\ i \in DOMAIN blocks /\ n \in Places(i) /\ k \in DOMAIN made
     /\ IsEntry(<<"tx", h>>, i, n) /\ x.Hash = h
     /\ Built(made[k]) /\ Carries(made[k], asked[k]) /\ Copy(x, made[k]) /\ made[k].Hash = h

LEMMA StoredFacts ==
  ASSUME WireInv, ServedInv, KeptInv, NEW h \in StoredHashes
  PROVE  \E i, n, k : StoredAt(h, i, n, k)
  <1>1. PICK key \in DOMAIN db : key[1] = "tx" /\ key[2] = h
    BY DEF StoredHashes
  <1>2. PICK i \in 1..Len(blocks) : \E n \in Places(i) : IsEntry(key, i, n)
    BY <1>1 DEF KeptInv, EntriesInv
  <1>3. PICK n \in Places(i) : IsEntry(key, i, n)
    BY <1>2
  <1>4. PICK g : g = Tx(i, n).Hash
    OBVIOUS
  <1>5. key = <<"tx", g>>
    BY <1>3, <1>4 DEF IsEntry
  <1>6. g = h /\ key = <<"tx", h>>
    BY <1>1, <1>5
  <1>7. i \in DOMAIN blocks
    BY DEF WireInv, BlocksInv
  <1>8. PICK x : x = Tx(i, n) /\ Served(x)
    BY <1>7 DEF ServedInv, BlocksServed
  <1>9. PICK k \in DOMAIN made : Copy(x, made[k])
    BY <1>8 DEF Served
  <1>10. Built(made[k]) /\ Carries(made[k], asked[k])
    BY DEF ServedInv, MadeInv
  <1>11. made[k].Hash = x.Hash
    <2>1. PICK y : y = made[k]
      OBVIOUS
    <2> QED
      BY <1>9, <1>10, <2>1, CopyFacts
  <1>12. StoredAt(h, i, n, k)
    BY <1>3, <1>4, <1>6, <1>7, <1>8, <1>9, <1>10, <1>11, Zenon DEF StoredAt
  <1> QED
    BY <1>12

(* What is read by hash is what was pooled, at its place.                  *)
LEMMA StoredRead ==
  ASSUME WireInv, StoreInv, ServedInv, KeptInv, BlocksFit, DigestsDiffer,
         NEW h \in StoredHashes, NEW i, NEW n, NEW k, StoredAt(h, i, n, k)
  PROVE  LET tx == GetTransactionByHash(h)
             full == KarmemBlock2Protobuf(GetBlockByHeight(tx.Height)).Transactions
             alone == GetTransactionByBlockNumberAndIndex(tx.Height, WordAt(tx.Index, 0))
         IN /\ tx = full[WordAt(tx.Index, 0) + 1]
            /\ alone = Unplaced(tx)
            /\ ~Verify(tx)
            /\ alone = Tx(i, n)
            /\ Verify(alone) <=> alone = made[k]
            /\ tx.Data = Tx(i, n).Data
  <1>1. PICK x, y : x = Tx(i, n) /\ y = made[k]
    OBVIOUS
  <1>2. /\ i \in DOMAIN blocks /\ n \in Places(i) /\ k \in DOMAIN made
        /\ IsEntry(<<"tx", h>>, i, n) /\ x.Hash = h /\ Built(y) /\ Copy(x, y) /\ y.Hash = h
    BY <1>1, Zenon DEF StoredAt
  <1>3. PICK b \in BlockValues :
          /\ b = blocks[i] /\ Small(Len(SerializeBlock(b)))
    BY <1>2 DEF WireInv, BlocksInv, BlocksFit
  <1>4. PICK txs \in Seq(Values(TransactionBodyViewer)) : txs = b.Transactions
    BY DEF BlockValues
  <1>5. PICK header \in Values(BlockHeaderViewer) : header = b.Header
    BY DEF BlockValues
  <1>6. PICK p \in Nat : n \in Nat /\ n # 0 /\ p = n - 1 /\ Small(p) /\ n \in DOMAIN txs
    BY <1>2, <1>3, <1>4, PlacesSmall DEF Places
  <1>7. x = txs[n]
    BY <1>1, <1>3, <1>4 DEF Tx
  <1>8. /\ x \in Bodies /\ Fit(x) /\ x.Height = Zeros(8) /\ x.BlockHash = NoHash
        /\ x.Index = Zeros(8)
    BY <1>2, CopyFacts
  <1>9. PICK z : z = Stamped(x, header, n)
    OBVIOUS
  <1>10. /\ z \in Bodies /\ Fit(z) /\ z.Height = header.Height /\ z.Index = LittleEndian(p)
         /\ \A name \in DOMAIN TransactionBodyViewer \ {"Height", "BlockHash", "Index"} :
              z[name] = x[name]
    BY <1>6, <1>8, <1>9, StampedFacts
  <1>11. GetTransactionByHash(h) = z
    <2>1. db[<<"tx", h>>] = SerializeTransaction(z)
      BY <1>1, <1>2, <1>3, <1>5, <1>9, Zenon DEF IsEntry
    <2>2. DeserializeTransaction(SerializeTransaction(z)) = z
      BY <1>10, SentFacts
    <2> QED
      BY <2>1, <2>2, Zenon DEF GetTransactionByHash
  <1>12. WordAt(z.Index, 0) = p
    BY <1>6, <1>10, NumberRead
  <1>13. PICK q \in Nat : q = i - 1 /\ i \in 1..Len(blocks) /\ header.Height = LittleEndian(q)
    <2>1. i \in 1..Len(blocks)
      BY <1>2 DEF WireInv, BlocksInv
    <2> QED
      BY <1>3, <1>5, <2>1 DEF StoreInv
  <1>14. GetBlockByHeight(z.Height) = b
    <2>1. BlockKey(i) \in DOMAIN db
      BY <1>2 DEF IsEntry, Inserted
    <2>2. GetBlockByHeight(LittleEndian(i - 1)) = blocks[i]
      BY <1>2, <2>1, InvRoundTrip DEF RoundTrip, BlockKey, HashOf
    <2> QED
      BY <1>3, <1>10, <1>13, <2>2
  <1>15. KarmemBlock2Protobuf(b).Transactions[n] = z
    <2>1. PICK f : f = [m \in DOMAIN txs |-> Stamped(txs[m], header, m)]
      OBVIOUS
    <2>2. KarmemBlock2Protobuf(b).Transactions = f
      BY <1>4, <1>5, <2>1 DEF KarmemBlock2Protobuf
    <2>3. f[n] = Stamped(txs[n], header, n)
      BY <1>6, <2>1
    <2> QED
      BY <1>7, <1>9, <2>2, <2>3
  <1>16. p + 1 = n
    BY <1>6
  <1>17. GetTransactionByBlockNumberAndIndex(z.Height, p) = x
    BY <1>4, <1>7, <1>14, <1>16, Zenon DEF GetTransactionByBlockNumberAndIndex
  <1>18. Unplaced(z) = x
    BY <1>6, <1>8, <1>9, UnplacedStamped
  <1>19. ~Verify(z)
    <2>1. q # 0
      <3>1. Places(1) = {}
        <4>1. blocks[1].Transactions = <<>>
          BY DEF StoreInv, NewGenesisBlock
        <4> QED
          BY <4>1 DEF Places
      <3> QED
        BY <1>2, <1>13, <3>1
    <2>2. Small(q)
      <3>1. PICK l \in Nat, most \in Nat : l = Len(blocks) /\ most = MaxBlocks /\ most <= 65535
                                           /\ l <= most + 1
        <4>1. PICK l \in Nat : l = Len(blocks)
          BY DEF WireInv, BlocksInv
        <4>2. PICK most \in Nat : most = MaxBlocks /\ most <= 65535
          BY BoundAssumption
        <4>3. l <= most + 1
          BY <4>1, <4>2 DEF StoreInv
        <4> QED
          BY <4>1, <4>2, <4>3
      <3> QED
        BY <1>13, <3>1 DEF Small, MaxWord
    <2>3. z.Height # Zeros(8)
      BY <1>10, <1>13, <2>1, <2>2, NumberRead
    <2>4. z.Hash = y.Hash
      <3>1. "Hash" \in DOMAIN TransactionBodyViewer \ {"Height", "BlockHash", "Index"}
        BY DEF TransactionBodyViewer
      <3>2. z["Hash"] = x["Hash"]
        BY <1>10, <3>1
      <3> QED
        BY <1>2, <3>2
    <2>5. Distinct(z, y)
      BY <1>1, <1>2, <1>11 DEF DigestsDiffer
    <2> QED
      BY <1>2, <1>10, <2>3, <2>4, <2>5, PlacedFails
  <1>20. Verify(x) <=> x = y
    <2>1. Distinct(x, y)
      BY <1>1, <1>2, CopyDistinct
    <2> QED
      BY <1>2, <2>1, CopyVerifies
  <1>21. z.Data = x.Data
    <2>1. "Data" \in DOMAIN TransactionBodyViewer \ {"Height", "BlockHash", "Index"}
      BY DEF TransactionBodyViewer
    <2>2. z["Data"] = x["Data"]
      BY <1>10, <2>1
    <2> QED
      BY <2>2
  <1> QED
    BY <1>1, <1>11, <1>12, <1>14, <1>15, <1>16, <1>17, <1>18, <1>19, <1>20, <1>21

(* A task names the transaction whose copy sent it.                        *)
LEMMA TaskSent ==
  ASSUME RequestsFit, NoStray, DigestsDiffer, WireInv, ServedInv, KeptInv,
         NEW h \in StoredHashes, NEW i, NEW n, NEW k, StoredAt(h, i, n, k),
         NEW t, Lists(tasks, t), t.Hash = h
  PROVE  TaskFor(t, asked[k], h) /\ Came(Tx(i, n), made[k], asked[k])
  <1>1. PICK x, y, r : x = Tx(i, n) /\ y = made[k] /\ r = asked[k]
    OBVIOUS
  <1>2. /\ i \in DOMAIN blocks /\ n \in Places(i) /\ k \in DOMAIN made
        /\ IsEntry(<<"tx", h>>, i, n) /\ x.Hash = h
    BY <1>1, Zenon DEF StoredAt
  <1>3. y.Hash = h
    BY <1>1, Zenon DEF StoredAt
  <1>4. DOMAIN blocks = 1..Len(blocks)
    BY DEF WireInv, BlocksInv
  <1>5. PICK j \in 1..Len(blocks) :
          Inserted(j) /\ \E m \in Places(j) : Lists(Task(Tx(j, m), blocks[j].Header), t)
    BY DEF KeptInv, TasksInv
  <1>6. PICK m \in Places(j) : Lists(Task(Tx(j, m), blocks[j].Header), t)
    BY <1>5
  <1>7. PICK v, header : v = Tx(j, m) /\ header = blocks[j].Header
    OBVIOUS
  <1>8. Served(v)
    BY <1>4, <1>7 DEF ServedInv, BlocksServed
  <1>9. PICK l \in DOMAIN made : Copy(v, made[l])
    BY <1>8 DEF Served
  <1>10. PICK w, s : w = made[l] /\ s = asked[l] /\ Built(w) /\ Carries(w, s) /\ Copy(v, w)
    BY <1>9 DEF ServedInv, MadeInv
  <1>11. Came(v, w, s)
    <2>1. SUFFICES ASSUME ~Came(v, w, s)
                   PROVE  FALSE
      OBVIOUS
    <2>2. Task(v, header) = <<>>
      BY <1>10, <2>1, CopyTask
    <2> QED
      BY <1>6, <1>7, <2>2 DEF Lists
  <1>12. TaskFor(t, s, w.Hash)
    <2>1. PICK u : Task(v, header) = <<u>> /\ TaskFor(u, s, w.Hash)
      BY <1>10, <1>11, CopyTask
    <2>2. u = t
      BY <1>6, <1>7, <2>1 DEF Lists
    <2> QED
      BY <2>1, <2>2
  <1>13. l = k
    <2>1. made[l].Hash = made[k].Hash
      BY <1>1, <1>3, <1>10, <1>12 DEF TaskFor
    <2> QED
      BY <1>2, <2>1 DEF DigestsDiffer
  <1>14. w = y /\ s = r /\ v.Hash = h
    <2>1. v.Hash = w.Hash
      BY <1>10, CopyFacts
    <2> QED
      BY <1>1, <1>3, <1>10, <1>13, <2>1
  <1>15. x.Data = y.Data
    <2>1. CASE j = i
      <3>1. m = n
        <4>1. Tx(i, m).Hash = Tx(i, n).Hash /\ m \in Places(i)
          BY <1>1, <1>2, <1>7, <1>14, <2>1
        <4> QED
          BY <1>2, <4>1 DEF ServedInv, BlocksServed
      <3> QED
        BY <1>1, <1>7, <1>11, <1>14, <2>1, <3>1 DEF Came
    <2>2. CASE i < j
      BY <1>1, <1>2, <1>5, <1>7, <1>14, <2>2 DEF IsEntry
    <2>3. CASE j < i
      <3>1. Tx(j, m).Hash = Tx(i, n).Hash
        BY <1>1, <1>2, <1>7, <1>14
      <3>2. Whole(x)
        BY <1>1, <1>2, <1>4, <2>3, <3>1 DEF ServedInv, WholeLater
      <3>3. PICK q \in DOMAIN made : x = made[q]
        BY <3>2 DEF Whole
      <3>4. q = k
        BY <1>1, <1>2, <1>3, <3>3 DEF DigestsDiffer
      <3> QED
        BY <1>1, <3>3, <3>4
    <2>4. i \in Int /\ j \in Int
      BY <1>2, <1>4
    <2> QED
      BY <2>1, <2>2, <2>3, <2>4
  <1>16. Came(x, y, r)
    BY <1>11, <1>14, <1>15 DEF Came
  <1> QED
    BY <1>1, <1>3, <1>12, <1>14, <1>16

LEMMA CommandSent ==
  ASSUME RequestsFit, NoStray, WireInv, ServedInv, KeptInv,
         NEW h \in StoredHashes, NEW i, NEW n, NEW k, StoredAt(h, i, n, k),
         Came(Tx(i, n), made[k], asked[k])
  PROVE  \E t : Lists(tasks, t) /\ TaskFor(t, asked[k], h)
  <1>1. PICK x, y, r, header :
          x = Tx(i, n) /\ y = made[k] /\ r = asked[k] /\ header = blocks[i].Header
    OBVIOUS
  <1>2. /\ i \in DOMAIN blocks /\ n \in Places(i) /\ IsEntry(<<"tx", h>>, i, n)
        /\ Built(y) /\ Carries(y, r) /\ Copy(x, y) /\ y.Hash = h
    BY <1>1, Zenon DEF StoredAt
  <1>3. PICK t : Task(x, header) = <<t>> /\ TaskFor(t, r, h)
    BY <1>1, <1>2, CopyTask
  <1>4. Lists(Task(Tx(i, n), blocks[i].Header), t)
    <2>1. 1 \in DOMAIN <<t>> /\ <<t>>[1] = t
      OBVIOUS
    <2> QED
      BY <1>1, <1>3, <2>1 DEF Lists
  <1>5. Inserted(i) /\ i \in 1..Len(blocks)
    BY <1>2 DEF IsEntry, WireInv, BlocksInv
  <1>6. Lists(tasks, t)
    BY <1>2, <1>4, <1>5 DEF KeptInv, TasksInv
  <1> QED
    BY <1>1, <1>3, <1>6

(* The commands that were sent for a hash are those whose data are stored. *)
LEMMA CommandsKept ==
  ASSUME RequestsFit, NoStray, DigestsDiffer, WireInv, ServedInv, KeptInv,
         NEW h \in StoredHashes, NEW i, NEW n, NEW k, StoredAt(h, i, n, k),
         NEW data, data = Tx(i, n).Data
  PROVE  {<<t.Type, t.Key, t.Value>> : t \in {tasks[q] : q \in TasksFor(h)}} =
           {<<r.Type, r.Key, r.Value>> : r \in
              {asked[q] : q \in {p \in DOMAIN made :
                 /\ made[p].Hash = h /\ made[p].Data = data
                 /\ asked[p].Type # <<>>}}}
  <1>1. PICK r, y : r = asked[k] /\ y = made[k]
    OBVIOUS
  <1>2. k \in DOMAIN made /\ y.Hash = h
    BY <1>1, Zenon DEF StoredAt
  <1>3. PICK one : one = <<r.Type, r.Key, r.Value>>
    OBVIOUS
  <1>4. PICK came \in BOOLEAN : came <=> Came(Tx(i, n), y, r)
    OBVIOUS
  <1>5. came <=> r.Type # <<>> /\ y.Data = data
    BY <1>4 DEF Came
  <1>6. PICK A, B : /\ A = {p \in DOMAIN made : /\ made[p].Hash = h /\ made[p].Data = data
                                                /\ asked[p].Type # <<>>}
                    /\ B = TasksFor(h)
    OBVIOUS
  <1>7. \A p \in A : p = k /\ came
    BY <1>1, <1>2, <1>5, <1>6 DEF DigestsDiffer
  <1>8. came => k \in A
    BY <1>1, <1>2, <1>5, <1>6
  <1>9. ASSUME NEW q \in B
        PROVE  came /\ <<tasks[q].Type, tasks[q].Key, tasks[q].Value>> = one
    <2>1. PICK t : t = tasks[q] /\ Lists(tasks, t) /\ t.Hash = h
      BY <1>6 DEF TasksFor, Lists
    <2>2. TaskFor(t, r, h) /\ came
      BY <1>1, <1>4, <2>1, TaskSent
    <2> QED
      BY <1>3, <2>1, <2>2 DEF TaskFor
  <1>10. ASSUME came
         PROVE  \E q \in B : <<tasks[q].Type, tasks[q].Key, tasks[q].Value>> = one
    <2>1. PICK t : Lists(tasks, t) /\ TaskFor(t, r, h)
      BY <1>1, <1>4, <1>10, CommandSent
    <2>2. PICK q \in DOMAIN tasks : tasks[q] = t
      BY <2>1 DEF Lists
    <2>3. q \in B
      BY <1>6, <2>1, <2>2 DEF TasksFor, TaskFor
    <2> QED
      BY <1>3, <2>1, <2>2, <2>3 DEF TaskFor
  <1>11. ASSUME NEW c, c \in {<<t.Type, t.Key, t.Value>> : t \in {tasks[q] : q \in B}}
         PROVE  c \in {<<s.Type, s.Key, s.Value>> : s \in {asked[q] : q \in A}}
    <2>1. PICK q \in B : c = <<tasks[q].Type, tasks[q].Key, tasks[q].Value>>
      BY <1>11
    <2>2. c = one /\ k \in A
      BY <1>8, <1>9, <2>1
    <2> QED
      BY <1>1, <1>3, <2>2
  <1>12. ASSUME NEW c, c \in {<<s.Type, s.Key, s.Value>> : s \in {asked[q] : q \in A}}
         PROVE  c \in {<<t.Type, t.Key, t.Value>> : t \in {tasks[q] : q \in B}}
    <2>1. PICK p \in A : c = <<asked[p].Type, asked[p].Key, asked[p].Value>>
      BY <1>12
    <2>2. c = one /\ came
      BY <1>1, <1>3, <1>7, <2>1
    <2>3. PICK q \in B : <<tasks[q].Type, tasks[q].Key, tasks[q].Value>> = one
      BY <1>10, <2>2
    <2> QED
      BY <2>2, <2>3
  <1>13. {<<t.Type, t.Key, t.Value>> : t \in {tasks[q] : q \in B}} =
           {<<s.Type, s.Key, s.Value>> : s \in {asked[q] : q \in A}}
    BY <1>11, <1>12
  <1> QED
    BY <1>6, <1>13

LEMMA InvServed ==
  ASSUME RequestsFit, NoStray, WireInv, StoreInv, ServedInv, KeptInv, BlocksFit, DigestsDiffer
  PROVE  ServedAsSigned
  <1>1. made \in Seq(Bodies) /\ MadeInv /\ PoolServed
    BY DEF WireInv, ServedInv
  <1>2. made # <<>> => Verify(made[Len(made)])
    BY <1>1, MadeVerifies
  <1>3. \A h \in DOMAIN txPool :
          \E i \in DOMAIN made : /\ made[i].Hash = h
                                /\ Verify(txPool[h]) <=> txPool[h] = made[i]
    BY <1>1, PoolVerifies
  <1>4. ASSUME NEW h \in StoredHashes
        PROVE  LET tx == GetTransactionByHash(h)
                   full == KarmemBlock2Protobuf(GetBlockByHeight(tx.Height)).Transactions
                   alone == GetTransactionByBlockNumberAndIndex(tx.Height, WordAt(tx.Index, 0))
               IN /\ tx = full[WordAt(tx.Index, 0) + 1]
                  /\ alone = Unplaced(tx)
                  /\ ~Verify(tx)
                  /\ \E i \in DOMAIN made : /\ made[i].Hash = h
                                           /\ Verify(alone) <=> alone = made[i]
                  /\ {<<t.Type, t.Key, t.Value>> : t \in {tasks[n] : n \in TasksFor(h)}} =
                       {<<r.Type, r.Key, r.Value>> : r \in
                          {asked[n] : n \in {i \in DOMAIN made :
                             /\ made[i].Hash = h /\ made[i].Data = tx.Data
                             /\ asked[i].Type # <<>>}}}
    <2>1. PICK i, n, k : StoredAt(h, i, n, k)
      BY StoredFacts
    <2>2. PICK tx : tx = GetTransactionByHash(h)
      OBVIOUS
    <2>3. PICK full, alone, at :
            /\ at = WordAt(tx.Index, 0)
            /\ full = KarmemBlock2Protobuf(GetBlockByHeight(tx.Height)).Transactions
            /\ alone = GetTransactionByBlockNumberAndIndex(tx.Height, at)
      OBVIOUS
    <2>4. /\ tx = full[at + 1] /\ alone = Unplaced(tx) /\ ~Verify(tx)
          /\ Verify(alone) <=> alone = made[k]
          /\ tx.Data = Tx(i, n).Data
      BY <2>1, <2>2, <2>3, StoredRead
    <2>5. k \in DOMAIN made /\ made[k].Hash = h
      BY <2>1, Zenon DEF StoredAt
    <2>6. PICK data : data = tx.Data
      OBVIOUS
    <2>7. {<<t.Type, t.Key, t.Value>> : t \in {tasks[q] : q \in TasksFor(h)}} =
            {<<r.Type, r.Key, r.Value>> : r \in
               {asked[q] : q \in {p \in DOMAIN made :
                  /\ made[p].Hash = h /\ made[p].Data = data
                  /\ asked[p].Type # <<>>}}}
      BY <2>1, <2>4, <2>6, CommandsKept
    <2> QED
      BY <2>2, <2>3, <2>4, <2>5, <2>6, <2>7, Zenon
  <1> QED
    BY <1>2, <1>3, <1>4, Zenon DEF ServedAsSigned

(***************************************************************************)
(* Verify, TransactionUDP, SubmitTransaction, packageBlockRoutine,         *)
(* insertBlock and the replies of the server: whatever clients ask for and *)
(* however deliveries, elections and insertions interleave, what is served *)
(* verifies exactly when it is what was signed, and the data processor     *)
(* gets exactly the commands whose data came whole.  Assumed are a digest  *)
(* that tells the texts apart, sizes that the words of the model hold, and *)
(* data of the sender tool that are no command by chance.                  *)
(***************************************************************************)
THEOREM ServedWhenSigned ==
  RequestsFit /\ NoStray /\ WireSpec /\ []BlocksFit /\ []HashesDiffer /\ []DigestsDiffer
    => []ServedAsSigned
  <1>1. WireInit => StoreInv /\ ServedInv /\ KeptInv
    BY StoreStarts, ServedStarts, KeptStarts
  <1>2. SUFFICES ASSUME RequestsFit, NoStray
                 PROVE  WireSpec /\ []BlocksFit /\ []HashesDiffer /\ []DigestsDiffer
                          => []ServedAsSigned
    OBVIOUS
  <1>3. /\ WireInv /\ WireInv' /\ StoreInv /\ ServedInv /\ KeptInv
        /\ BlocksFit /\ HashesDiffer /\ HashesDiffer' /\ [WireNext]_wireVars
        => StoreInv' /\ ServedInv' /\ KeptInv'
    BY <1>2, StoreSteps, ServedSteps, KeptSteps
  <1>4. WireInv /\ StoreInv /\ ServedInv /\ KeptInv /\ BlocksFit /\ DigestsDiffer
        => ServedAsSigned
    BY <1>2, InvServed
  <1> QED
    BY <1>1, <1>3, <1>4, WireTyped, PTL DEF WireSpec
=============================================================================
