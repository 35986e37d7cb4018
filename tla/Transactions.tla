---------------------------- MODULE Transactions -----------------------------
(***************************************************************************)
(* How a transaction is built and verified: buildTransaction of the sender *)
(* tool, SendTransactionWithData of the RPC server and Transaction.Verify. *)
(* All three hash a serialised body.  A transaction is its body.           *)
(***************************************************************************)
EXTENDS Codec, Crypto

setCommandString == <<115, 101, 116>>
appendCommandString == <<97, 112, 112, 101, 110, 100>>

NoHash == Zeros(32)
NoAddress == Zeros(20)

(* A body before it is signed; it expires after 3 seconds.                 *)
NewBody(key, receiver, data, clock) ==
  LET pub == PublicKey2Bytes(key)
  IN [Hash |-> NoHash, Address |-> PublicKeyBytes2Address(pub),
      Receiver |-> receiver, Gas |-> Zeros(8), Nonce |-> Zeros(8),
      Event |-> <<>>, Opt |-> <<>>, State |-> <<>>, Data |-> data,
      Expire |-> LittleEndian(clock + 3000), Height |-> Zeros(8),
      Index |-> Zeros(8), BlockHash |-> NoHash,
      Timestamp |-> LittleEndian(clock), Public |-> pub, Signature |-> <<>>]

(* The digest of the body as it is fills in its hash, and is signed.       *)
Signed(key, body) ==
  LET digest == Sha256(Bytes(TransactionBodyWrite(body, NewWriter, 0)))
  IN [body EXCEPT !.Hash = digest, !.Signature = SignASN1(key, digest)]

(* The sender tool sends random data to nobody.                            *)
buildTransaction(key, data, clock) == Signed(key, NewBody(key, NoAddress, data, clock))

(* The data of a command for a contract; the server refuses other types.   *)
(* Requests without key or value, whose data stay empty, are left out.     *)
CommandData(type, k, v) ==
  SerializeDataCommand([Opt |-> type, Key |-> k, Value |-> v])

CommandTransaction(key, receiver, type, k, v, clock) ==
  Signed(key, NewBody(key, receiver, CommandData(type, k, v), clock))

-----------------------------------------------------------------------------
(* The copy that Verify takes by writing the body and reading it, without  *)
(* its hash and its signature.                                             *)
Unsigned(written) ==
  [TransactionBodyRead(Bytes(written), 0) EXCEPT !.Hash = NoHash, !.Signature = <<>>]

(* Mutant: the writer is not reset between the two bodies.                 *)
RewrittenBehind(written) == TransactionBodyWrite(Unsigned(written), written, 0)

(* The same writer writes the copy over what it wrote before.              *)
Rewritten(written) == TransactionBodyWrite(Unsigned(written), Reset(written), 0)

(* Transaction.Verify                                                      *)
Verify(tx) ==
  LET written == TransactionBodyWrite(tx, NewWriter, 0)
      digest == Sha256(Bytes(Rewritten(written)))
  IN digest = tx.Hash /\ VerifyASN1(Unmarshal(tx.Public), digest, tx.Signature)
=============================================================================
