------------------------------- MODULE Merkle --------------------------------
(***************************************************************************)
(* core/merkle.go: the tree of hashes over the transactions of a block.    *)
(* A node is the bytes of its data; the null node has none.                *)
(***************************************************************************)
EXTENDS Crypto, FiniteSets

mergeHash(left, right) == Sha256(left \o right)

(* Mutant: the loop goes over the pairs of the level below.                *)
LevelWhole(nodes) ==
  [j \in 1..((Len(nodes) + 1) \div 2) |->
     mergeHash(nodes[2 * j - 1], IF 2 * j > Len(nodes) THEN <<>> ELSE nodes[2 * j])]

(* One round of the loop.  It steps through the first levelLength nodes of *)
(* the level below, and not through all of them: entries of the new level  *)
(* behind the middle stay null nodes.                                      *)
Level(nodes) ==
  LET levelLength == (Len(nodes) + 1) \div 2
  IN [j \in 1..levelLength |->
        CASE 2 * j <= levelLength -> mergeHash(nodes[2 * j - 1], nodes[2 * j])
          [] 2 * j - 1 = levelLength -> mergeHash(nodes[levelLength], <<>>)
          [] OTHER -> <<>>]

(* int(log2(length)) + 1 rounds, or until one node is left; one round      *)
(* always runs.                                                            *)
Height(n) ==
  LET power[i \in 0..n] == IF i = 0 THEN 1 ELSE 2 * power[i - 1]
  IN Cardinality({i \in 0..n : power[i] <= n})

MerkleLevels(hashes) ==
  LET level[i \in 0..Height(Len(hashes))] ==
        CASE i = 0 -> hashes
          [] i > 1 /\ Len(level[i - 1]) = 1 -> level[i - 1]
          [] OTHER -> Level(level[i - 1])
  IN level

BuildMerkleTree(hashes) ==
  IF hashes = <<>> THEN [i \in 1..32 |-> 0]
  ELSE MerkleLevels(hashes)[Height(Len(hashes))][1]
=============================================================================
