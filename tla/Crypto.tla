------------------------------- MODULE Crypto --------------------------------
(***************************************************************************)
(* Hashes, keys and the verifiable random function of crypto/vrf.go that   *)
(* elects the nodes that may package.  The packages of the Go library are  *)
(* modelled by what the code relies on: a point of the curve is its        *)
(* logarithm to the base point O, below the order of a small curve; the    *)
(* hash mixes every byte into 32; a signature is of one key over one       *)
(* digest.                                                                 *)
(***************************************************************************)
EXTENDS Integers, Sequences

CONSTANTS
  CurveOrder,       \* N, the order of the curve
  ConsensusFloor    \* in thousandths; an output must exceed it

ASSUME CurveAssumption ==
  /\ CurveOrder \in 5..255
  /\ \A n \in 2..(CurveOrder - 1) : CurveOrder % n # 0
  /\ ConsensusFloor \in 0..999

Scalars == 1..(CurveOrder - 1)

(* A sequence as digits to the base b, modulo m.                           *)
Digits(s, b, m) ==
  LET value[i \in 0..Len(s)] == IF i = 0 THEN 0 ELSE (value[i - 1] * b + s[i]) % m
  IN value[Len(s)]

(* Digests of parts of 32 bytes are mixed, behind the length, as a longer  *)
(* recursion is too deep for TLC.                                          *)
Mix(bs, b, m) ==
  LET parts == [n \in 1..((Len(bs) + 31) \div 32) |->
                  Digits(SubSeq(bs, 32 * n - 31, IF 32 * n < Len(bs) THEN 32 * n
                                                 ELSE Len(bs)), b, m)]
  IN (Digits(<<Len(bs)>> \o parts, b + 22, m) * 30011) % m

Sha256(bs) ==
  LET mixed == <<Mix(bs, 251, 65521), Mix(bs, 509, 65519)>>
  IN [i \in 1..32 |-> (mixed[1 + (i % 2)] \div i) % 256]

(* big.Int.SetBytes modulo the order, and big.Int.Bytes, which drops       *)
(* leading zeros.                                                          *)
SetBytes(bs) == Digits(bs, 256, CurveOrder)
BigBytes(n) == IF n = 0 THEN <<>> ELSE <<n>>

(* elliptic.MarshalCompressed and UnmarshalCompressed of the point nO.     *)
Marshal(n) == <<2>> \o [i \in 1..31 |-> 0] \o <<n>>
Unmarshal(bs) == bs[33]

(* A digest as a scalar; that it is 0 modulo the order is left out.        *)
AsScalar(digest) == 1 + ((256 * digest[1] + digest[2]) % (CurveOrder - 1))

(* crypto/convertor.go; a private key is the logarithm of its public key.  *)
PublicKey2Bytes(key) == Marshal(key)
PublicKeyBytes2Address(pub) == SubSeq(Sha256(pub), 1, 20)
Bytes2PublicKey(pub) == Unmarshal(pub)

SignASN1(key, digest) == <<48, key>> \o digest \o digest \o <<0, 0, 0, 0, 0>>
VerifyASN1(pub, digest, signature) == signature = SignASN1(pub, digest)

-----------------------------------------------------------------------------
(* s = marshal(rM) * marshal(rO) mod N                                     *)
Challenge(rM, rO) == (SetBytes(Marshal(rM)) * SetBytes(Marshal(rO))) % CurveOrder

(* Mutant: t is computed from the message's point instead of the key.      *)
ResponseOfPoint(r, s, k) == (r - s) % CurveOrder

(* t = (r - sk) mod N                                                      *)
Response(r, s, k) == (r - s * k) % CurveOrder

(* The output V = kM for a message under the key k, and its proof by the   *)
(* random number r.  That rand.Int draws 0 is left out.                    *)
VRFCalculate(k, msg, r) ==
  LET xM == AsScalar(Sha256(msg))
      s == Challenge((r * xM) % CurveOrder, r)
  IN [value |-> Marshal((k * xM) % CurveOrder), s |-> s, t |-> Response(r, s, k)]

(* u1 = tM + sV, u2 = tO + sY.  A value that encodes no point (nil         *)
(* coordinates) is left out, and so is what marshals a sum at infinity.    *)
VRFVerify(key, msg, s, t, value) ==
  LET xM == AsScalar(Sha256(msg))
      u1 == (t * xM + s * Unmarshal(value)) % CurveOrder
      u2 == (t + s * key) % CurveOrder
  IN s = Challenge(u1, u2)

(* The digest of the output in thousandths of 2^256, of its first bytes.   *)
VRFCheckOutputConsensus(value) ==
  LET digest == Sha256(value)
  IN ((256 * digest[1] + digest[2]) * 1000) \div 65536 > ConsensusFloor

VRFCheckLocalConsensus(k, msg, r) ==
  VRFCheckOutputConsensus(VRFCalculate(k, msg, r).value)

VRFCheckRemoteConsensus(key, msg, s, t, value) ==
  VRFVerify(key, msg, s, t, value) /\ VRFCheckOutputConsensus(value)
=============================================================================
