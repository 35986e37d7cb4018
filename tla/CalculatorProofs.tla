--------------------------- MODULE CalculatorProofs --------------------------
(***************************************************************************)
(* The calculator, for every number of blocks and every capacity: seeds    *)
(* wait in order and at most one VDF step ahead of the published one, each *)
(* keeps its proof though the two travel through different channels, and   *)
(* the published seed advances by single steps.                            *)
(***************************************************************************)
EXTENDS Calculator, SequenceTheorems, TLAPS

(* A seed that comes with a block is at most MaxSeed, so that a result     *)
(* still is a seed.                                                        *)
Given == 0..MaxSeed

TypeInv ==
  /\ seedChannel \in Seq(Given) /\ prevProofChannel \in Seq(Given)
  /\ resultChannel \in Seq(Seeds) /\ proofChannel \in Seq(Seeds)
  /\ prevSeed \in Given /\ seed \in Given /\ proof \in Given
  /\ changed \in BOOLEAN
  /\ writer \in Appender \cup {"none"}
  /\ readers \subseteq {"run", "pack"}
  /\ runPc \in {"select", "rlock", "proof", "calc", "result", "pi"}
  /\ runSeed \in Given
  /\ appPc \in [Appender -> {"idle", "append", "seed", "proof"}]
  /\ appSeed \in [Appender -> Given]
  /\ appProof \in [Appender -> Given]
  /\ packPc \in {"idle", "pi", "locked"}
  /\ params \in [seed : Seeds, proof : Seeds]
  /\ blocks \in Nat

(* changeLock: an appender writes while it sends, run reads between seed   *)
(* and proof, so that no seed is appended while a proof is awaited.        *)
LockInv ==
  /\ \A a \in Appender : appPc[a] \in {"seed", "proof"} => writer = a
  /\ writer # "none" => readers = {}
  /\ runPc = "proof" => "run" \in readers

(***************************************************************************)
(* Before the genesis seed is published only that seed can be appended: a  *)
(* block that passed VerifyBlockVDF with another one found a seed.         *)
(***************************************************************************)
OrderInv ==
  /\ seed = 0 => prevSeed = 0
  /\ appSeed["genesis"] = Genesis /\ appProof["genesis"] = Genesis
  /\ appPc["buffer"] = "append" /\ appSeed["buffer"] # 0 => seed # 0
  /\ \A a \in Appender :
       /\ appPc[a] \in {"seed", "proof"} => appProof[a] = appSeed[a]
       /\ appPc[a] = "seed" => appSeed[a] = seed + 1
  /\ \A i \in 1..Len(seedChannel) :
       /\ seedChannel[i] \in {seed, seed + 1}
       /\ runPc = "rlock" => runSeed <= seedChannel[i]
       /\ \A j \in 1..i : seedChannel[j] <= seedChannel[i]
  /\ runPc = "rlock" => runSeed \in {seed, seed + 1}
  /\ runPc = "proof" => runSeed = seed
  /\ runPc \in {"calc", "result", "pi", "select"} => proof = seed

(* The seed that run has taken and whose proof it has not.                 *)
Carried == IF runPc \in {"rlock", "proof"} THEN 1 ELSE 0
Owed == IF \E a \in Appender : appPc[a] = "proof" THEN 1 ELSE 0

(* The proofs in their channel are those of the seed carried and of the    *)
(* seeds in theirs, except the last one's while it is being sent.          *)
PairInv ==
  /\ Len(seedChannel) + Carried = Len(prevProofChannel) + Owed
  /\ Carried = 1 /\ Len(prevProofChannel) >= 1 => prevProofChannel[1] = runSeed
  /\ \A i \in 1..Len(seedChannel) :
       i + Carried <= Len(prevProofChannel)
         => prevProofChannel[i + Carried] = seedChannel[i]
  /\ \A a \in Appender : appPc[a] = "proof" =>
       appProof[a] = IF seedChannel = <<>> THEN runSeed
                     ELSE seedChannel[Len(seedChannel)]

(* The same on the way back: the result GetSeedParams holds, and the proof *)
(* that run is about to send.                                              *)
HeldResult == IF packPc = "pi" THEN 1 ELSE 0
OwedPi == IF runPc = "pi" THEN 1 ELSE 0

ResultInv ==
  /\ Len(resultChannel) + HeldResult = Len(proofChannel) + OwedPi
  /\ HeldResult = 1 /\ Len(proofChannel) >= 1 => proofChannel[1] = params.seed
  /\ \A i \in 1..Len(resultChannel) :
       i + HeldResult <= Len(proofChannel)
         => proofChannel[i + HeldResult] = resultChannel[i]
  /\ OwedPi = 1 =>
       VDF(runSeed) = IF resultChannel = <<>> THEN params.seed
                      ELSE resultChannel[Len(resultChannel)]

IInv == TypeInv /\ LockInv /\ OrderInv /\ PairInv /\ ResultInv


LEMMA SeedsFacts ==
  /\ MaxSeed \in Nat /\ 1 \in Given /\ 0 \in Given
  /\ Given \subseteq Seeds /\ Given \subseteq Nat /\ Seeds \subseteq Nat
  /\ \A s \in Given : VDF(s) \in Seeds
  BY CalculatorAssumption DEF Given, Seeds, VDF

LEMMA InitInv ==
  ASSUME Init
  PROVE  IInv
  <1> USE SeedsFacts DEF Init
  <1>1. TypeInv
    <2>1. <<>> \in Seq(Given) /\ <<>> \in Seq(Seeds)
      OBVIOUS
    <2>2. params \in [seed : Seeds, proof : Seeds]
      OBVIOUS
    <2>3. /\ appPc \in [Appender -> {"idle", "append", "seed", "proof"}]
          /\ appSeed \in [Appender -> Given]
          /\ appProof \in [Appender -> Given]
      BY DEF Genesis
    <2>4. blocks \in Nat
      BY CalculatorAssumption
    <2> QED
      BY <2>1, <2>2, <2>3, <2>4 DEF TypeInv
  <1>2. LockInv
    BY DEF LockInv, Appender
  <1>3. OrderInv
    BY DEF OrderInv, Appender, Genesis
  <1>4. PairInv
    BY DEF PairInv, Appender, Carried, Owed
  <1>5. ResultInv
    BY DEF ResultInv, HeldResult, OwedPi
  <1> QED
    BY <1>1, <1>2, <1>3, <1>4, <1>5 DEF IInv

-----------------------------------------------------------------------------
(***************************************************************************)
(* What Next preserves, one part of the invariant after the other.         *)
(***************************************************************************)
LEMMA TypeStep ==
  ASSUME IInv, [Next]_vars
  PROVE  TypeInv'
  <1> USE SeedsFacts DEF IInv, TypeInv
  <1>1. ASSUME NEW s \in 0..MaxSeed, NEW pi \in {s, BadProof}, CheckBlock(s, pi)
        PROVE  TypeInv'
    <2>1. pi \in Given
      BY DEF BadProof, Given
    <2>2. s \in Given
      BY DEF Given
    <2> QED
      BY <1>1, <2>1, <2>2, SMTT(30)
         DEF CheckBlock, chanVars, calcVars, lockVars, runVars, packVars, appVars
  <1>2. ASSUME NEW a \in Appender, AppendSkip(a)
        PROVE  TypeInv'
    BY <1>2 DEF AppendSkip, chanVars, calcVars, lockVars, runVars, packVars
  <1>3. ASSUME NEW a \in Appender, AppendNewSeed(a)
        PROVE  TypeInv'
    BY <1>3 DEF AppendNewSeed, chanVars, calcVars, runVars, packVars
  <1>4. ASSUME NEW a \in Appender, SendSeed(a)
        PROVE  TypeInv'
    BY <1>4 DEF SendSeed, calcVars, lockVars, runVars, packVars
  <1>5. ASSUME NEW a \in Appender, SendProof(a)
        PROVE  TypeInv'
    BY <1>5 DEF SendProof, calcVars, runVars, packVars
  <1>6. CASE TakeSeed
    BY <1>6 DEF TakeSeed, AfterTake, calcVars, lockVars, appVars, packVars
  <1>7. CASE PublishSeed
    BY <1>7 DEF PublishSeed, chanVars, appVars, packVars
  <1>8. CASE PublishProof
    BY <1>8 DEF PublishProof, Received, appVars, packVars
  <1>9. CASE Interrupt \/ Finish
    BY <1>9 DEF Interrupt, Finish, chanVars, calcVars, lockVars, appVars,
                packVars
  <1>10. CASE PushResult
    <2>1. resultChannel' \in Seq(Seeds)
      BY <1>10 DEF PushResult
    <2> QED
      BY <1>10, <2>1 DEF PushResult, calcVars, lockVars, appVars, packVars
  <1>11. CASE PushPi
    <2>1. proofChannel' \in Seq(Seeds)
      BY <1>11 DEF PushPi
    <2> QED
      BY <1>11, <2>1 DEF PushPi, calcVars, lockVars, appVars, packVars
  <1>12. CASE GetResult
    <2>1. /\ Head(resultChannel) \in Seeds
          /\ Tail(resultChannel) \in Seq(Seeds)
      BY <1>12, SMTT(30) DEF GetResult
    <2> QED
      BY <1>12, <2>1 DEF GetResult, calcVars, lockVars, runVars, appVars
  <1>13. CASE GetPi
    <2>1. /\ Head(proofChannel) \in Seeds
          /\ Tail(proofChannel) \in Seq(Seeds)
      BY <1>13, SMTT(30) DEF GetPi
    <2> QED
      BY <1>13, <2>1 DEF GetPi, calcVars, lockVars, runVars, appVars
  <1>14. CASE ReadSeed \/ ReadProof
    <2>1. CASE ReadSeed
      BY <2>1 DEF ReadSeed, chanVars, calcVars, lockVars, runVars, appVars
    <2>2. CASE ReadProof
      BY <2>2 DEF ReadProof, chanVars, calcVars, lockVars, runVars, appVars
    <2> QED
      BY <1>14, <2>1, <2>2
  <1>15. CASE UNCHANGED vars
    BY <1>15 DEF vars, chanVars, calcVars, lockVars, runVars, appVars,
                 packVars
  <1> QED
    BY <1>1, <1>2, <1>3, <1>4, <1>5, <1>6, <1>7, <1>8, <1>9, <1>10, <1>11,
       <1>12, <1>13, <1>14, <1>15 DEF Next, Append1, Run, Package

LEMMA LockStep ==
  ASSUME IInv, [Next]_vars
  PROVE  LockInv'
  <1> USE DEF IInv, LockInv, CanLock, CanRLock
  <1>0. /\ appPc \in [Appender -> {"idle", "append", "seed", "proof"}]
        /\ readers \subseteq {"run", "pack"}
        /\ "none" \notin Appender
    BY DEF TypeInv, Appender
  <1>1. ASSUME NEW s \in 0..MaxSeed, NEW pi \in {s, BadProof}, CheckBlock(s, pi)
        PROVE  LockInv'
    BY <1>0, <1>1 DEF CheckBlock, lockVars, runVars, appVars
  <1>2. ASSUME NEW a \in Appender, AppendSkip(a)
        PROVE  LockInv'
    BY <1>0, <1>2 DEF AppendSkip, lockVars, runVars
  <1>3. ASSUME NEW a \in Appender, AppendNewSeed(a)
        PROVE  LockInv'
    BY <1>0, <1>3 DEF AppendNewSeed, runVars
  <1>4. ASSUME NEW a \in Appender, SendSeed(a)
        PROVE  LockInv'
    BY <1>0, <1>4 DEF SendSeed, lockVars, runVars
  <1>5. ASSUME NEW a \in Appender, SendProof(a)
        PROVE  LockInv'
    BY <1>0, <1>5 DEF SendProof, runVars
  <1>6. CASE Run
    BY <1>0, <1>6 DEF Run, TakeSeed, AfterTake, PublishSeed, PublishProof,
         Interrupt, Finish, PushResult, PushPi, lockVars, appVars
  <1>7. CASE Package
    BY <1>0, <1>7 DEF Package, GetResult, GetPi, ReadSeed, ReadProof, lockVars,
         runVars, appVars
  <1>8. CASE UNCHANGED vars
    BY <1>8 DEF vars, lockVars, runVars, appVars
  <1> QED
    BY <1>1, <1>2, <1>3, <1>4, <1>5, <1>6, <1>7, <1>8 DEF Next, Append1

(***************************************************************************)
(* While an appender sends, the published seed stands still; when run      *)
(* publishes the seed it took, that one is the smallest of those waiting.  *)
(***************************************************************************)
LEMMA OrderStep ==
  ASSUME IInv, [Next]_vars
  PROVE  OrderInv'
  <1> USE SeedsFacts DEF IInv, OrderInv
  <1>0. /\ seed \in Nat /\ prevSeed \in Nat /\ runSeed \in Nat
        /\ seedChannel \in Seq(Given) /\ Len(seedChannel) \in Nat
        /\ prevProofChannel \in Seq(Given)
        /\ \A i \in 1..Len(seedChannel) : seedChannel[i] \in Nat
        /\ appPc \in [Appender -> {"idle", "append", "seed", "proof"}]
        /\ appSeed \in [Appender -> Given] /\ appProof \in [Appender -> Given]
        /\ "genesis" \in Appender /\ "buffer" \in Appender
        /\ \A a \in Appender : a \in {"genesis", "buffer"}
    BY DEF TypeInv, Appender
  <1>1. ASSUME NEW s \in 0..MaxSeed, NEW pi \in {s, BadProof}, CheckBlock(s, pi)
        PROVE  OrderInv'
    <2>1. UNCHANGED <<chanVars, calcVars, runVars>>
      BY <1>1 DEF CheckBlock
    <2>2. CASE UNCHANGED appVars
      BY <2>1, <2>2 DEF chanVars, calcVars, runVars, appVars
    <2>3. CASE ~UNCHANGED appVars
      <3>1. /\ VerifyBlockVDF(s, pi)
            /\ appPc' = [appPc EXCEPT !["buffer"] = "append"]
            /\ appSeed' = [appSeed EXCEPT !["buffer"] = s]
            /\ appProof' = [appProof EXCEPT !["buffer"] = pi]
        BY <1>1, <2>3 DEF CheckBlock
      <3>2. s # 0 => seed # 0
        BY <1>0, <3>1 DEF VerifyBlockVDF
      <3>3. \A a \in Appender : appPc'[a] \in {"seed", "proof"} =>
              /\ a # "buffer" /\ appPc[a] = appPc'[a]
              /\ appSeed'[a] = appSeed[a] /\ appProof'[a] = appProof[a]
        BY <1>0, <3>1
      <3>4. \A a \in Appender :
              /\ appPc'[a] \in {"seed", "proof"} => appProof'[a] = appSeed'[a]
              /\ appPc'[a] = "seed" => appSeed'[a] = seed + 1
        BY <3>3
      <3>5. /\ appSeed'["genesis"] = Genesis /\ appProof'["genesis"] = Genesis
            /\ appSeed'["buffer"] = s
        BY <1>0, <3>1
      <3> QED
        BY <2>1, <3>2, <3>4, <3>5 DEF chanVars, calcVars, runVars
    <2> QED
      BY <2>2, <2>3
  <1>2. ASSUME NEW a \in Appender, AppendSkip(a)
        PROVE  OrderInv'
    BY <1>0, <1>2 DEF AppendSkip, chanVars, calcVars, runVars
  <1>3. ASSUME NEW a \in Appender, AppendNewSeed(a)
        PROVE  OrderInv'
    <2>1. /\ appPc[a] = "append" /\ ~Skip(appSeed[a], appProof[a])
          /\ appPc' = [appPc EXCEPT ![a] = "seed"]
          /\ UNCHANGED <<chanVars, calcVars, runVars, appSeed, appProof>>
      BY <1>3 DEF AppendNewSeed
    <2>2. appSeed[a] = seed + 1 /\ appProof[a] = appSeed[a]
      <3>1. CASE seed = 0
        <4>1. a = "genesis"
          BY <1>0, <2>1, <3>1 DEF Skip
        <4> QED
          BY <3>1, <4>1 DEF Genesis
      <3>2. CASE seed # 0
        BY <1>0, <2>1, <3>2 DEF Skip, Verify
      <3> QED
        BY <3>1, <3>2
    <2>3. \A x \in Appender :
            /\ appPc'[x] \in {"seed", "proof"} => appProof[x] = appSeed[x]
            /\ appPc'[x] = "seed" => appSeed[x] = seed + 1
      BY <1>0, <2>1, <2>2
    <2>4. appPc'["buffer"] = "append" => appPc["buffer"] = "append"
      BY <1>0, <2>1
    <2> QED
      BY <2>1, <2>3, <2>4 DEF chanVars, calcVars, runVars
  <1>4. ASSUME NEW a \in Appender, SendSeed(a)
        PROVE  OrderInv'
    <2>1. /\ appPc[a] = "seed" /\ seedChannel' = Append(seedChannel, appSeed[a])
          /\ appPc' = [appPc EXCEPT ![a] = "proof"]
          /\ UNCHANGED <<calcVars, runVars, appSeed, appProof>>
      BY <1>4 DEF SendSeed
    <2>2. appSeed[a] = seed + 1
      BY <2>1
    <2>3. /\ Len(seedChannel') = Len(seedChannel) + 1
          /\ seedChannel'[Len(seedChannel) + 1] = seed + 1
          /\ \A i \in 1..Len(seedChannel) : seedChannel'[i] = seedChannel[i]
      BY <1>0, <2>1, <2>2
    <2>4. ASSUME NEW i \in 1..Len(seedChannel')
          PROVE  /\ seedChannel'[i] \in {seed, seed + 1}
                 /\ runPc = "rlock" => runSeed <= seedChannel'[i]
                 /\ \A j \in 1..i : seedChannel'[j] <= seedChannel'[i]
      <3>1. CASE i \in 1..Len(seedChannel)
        BY <1>0, <2>3, <3>1, SMTT(30)
      <3>2. CASE i = Len(seedChannel) + 1
        <4>1. \A j \in 1..Len(seedChannel) : seedChannel'[j] <= seed + 1
          BY <1>0, <2>3
        <4> QED
          BY <1>0, <2>3, <3>2, <4>1
      <3> QED
        BY <1>0, <2>3, <3>1, <3>2
    <2>5. \A x \in Appender :
            /\ appPc'[x] \in {"seed", "proof"} => appProof[x] = appSeed[x]
            /\ appPc'[x] = "seed" => appSeed[x] = seed + 1
      BY <1>0, <2>1
    <2>6. appPc'["buffer"] = "append" => appPc["buffer"] = "append"
      BY <1>0, <2>1
    <2> QED
      BY <2>1, <2>4, <2>5, <2>6 DEF calcVars, runVars
  <1>5. ASSUME NEW a \in Appender, SendProof(a)
        PROVE  OrderInv'
    BY <1>0, <1>5 DEF SendProof, calcVars, runVars
  <1>6. CASE TakeSeed
    <2>1. /\ runPc = "select" /\ runPc' = "rlock" /\ seedChannel # <<>>
          /\ runSeed' = Head(seedChannel) /\ seedChannel' = Tail(seedChannel)
          /\ UNCHANGED <<calcVars, appVars>>
      BY <1>6 DEF TakeSeed, AfterTake
    <2>2. /\ runSeed' = seedChannel[1] /\ 1 \in 1..Len(seedChannel)
          /\ Len(seedChannel') = Len(seedChannel) - 1
          /\ \A i \in 1..Len(seedChannel') :
               /\ seedChannel'[i] = seedChannel[i + 1]
               /\ i + 1 \in 1..Len(seedChannel)
      BY <1>0, <2>1
    <2>3. ASSUME NEW i \in 1..Len(seedChannel')
          PROVE  /\ seedChannel'[i] \in {seed, seed + 1}
                 /\ runSeed' <= seedChannel'[i]
                 /\ \A j \in 1..i : seedChannel'[j] <= seedChannel'[i]
      <3>1. \A j \in 1..i : j \in 1..Len(seedChannel')
        BY <1>0, <2>2
      <3>2. \A j \in 1..i : j + 1 \in 1..(i + 1)
        OBVIOUS
      <3>3. 1 \in 1..(i + 1)
        OBVIOUS
      <3> QED
        BY <2>2, <3>1, <3>2, <3>3
    <2>4. runSeed' \in {seed, seed + 1}
      BY <2>2
    <2> QED
      BY <2>1, <2>3, <2>4 DEF calcVars, appVars
  <1>7. CASE PublishSeed
    <2>1. /\ runPc = "rlock" /\ runPc' = "proof" /\ writer = "none"
          /\ prevSeed' = seed /\ seed' = runSeed
          /\ UNCHANGED <<chanVars, proof, runSeed, appVars>>
      BY <1>7 DEF PublishSeed, CanRLock
    <2>2. \A a \in Appender : appPc[a] \notin {"seed", "proof"}
      BY <2>1, <1>0 DEF LockInv, Appender
    <2>3. \A i \in 1..Len(seedChannel) : seedChannel[i] \in {seed', seed' + 1}
      BY <1>0, <2>1
    <2>4. seed' \in {seed, seed + 1}
      BY <2>1
    <2>5. (seed' = 0 => prevSeed' = 0) /\ (seed # 0 => seed' # 0)
      BY <1>0, <2>1, <2>4
    <2> QED
      BY <2>1, <2>2, <2>3, <2>5 DEF chanVars, appVars
  <1>8. CASE PublishProof
    <2>1. /\ runPc = "proof" /\ runPc' = "calc" /\ prevProofChannel # <<>>
          /\ proof' = Head(prevProofChannel)
          /\ UNCHANGED <<seedChannel, prevSeed, seed, runSeed, appVars>>
      BY <1>8 DEF PublishProof
    <2>2. proof' = seed
      BY <1>0, <2>1 DEF PairInv, Carried
    <2> QED
      BY <2>1, <2>2 DEF appVars
  <1>9. CASE Interrupt \/ Finish \/ PushResult \/ PushPi
    <2>1. /\ runPc \in {"calc", "result", "pi"}
          /\ runPc' \in {"select", "result", "pi"}
          /\ UNCHANGED <<seedChannel, calcVars, runSeed, appVars>>
      BY <1>9 DEF Interrupt, Finish, PushResult, PushPi, chanVars
    <2> QED
      BY <2>1 DEF calcVars, appVars
  <1>10. CASE Package
    BY <1>10 DEF Package, GetResult, GetPi, ReadSeed, ReadProof, chanVars,
         calcVars, runVars, appVars
  <1>11. CASE UNCHANGED vars
    BY <1>11 DEF vars, chanVars, calcVars, runVars, appVars
  <1> QED
    BY <1>1, <1>2, <1>3, <1>4, <1>5, <1>6, <1>7, <1>8, <1>9, <1>10, <1>11
       DEF Next, Append1, Run

(***************************************************************************)
(* The proof of the seed just sent is the one still owed.  While run waits *)
(* for a proof it holds changeLock, so nothing is owed then and the proof  *)
(* it receives is that of the seed it took.                                *)
(***************************************************************************)
LEMMA PairStep ==
  ASSUME IInv, [Next]_vars
  PROVE  PairInv'
  <1> USE SeedsFacts DEF IInv, PairInv
  <1>0. /\ seedChannel \in Seq(Given) /\ Len(seedChannel) \in Nat
        /\ prevProofChannel \in Seq(Given) /\ Len(prevProofChannel) \in Nat
        /\ appPc \in [Appender -> {"idle", "append", "seed", "proof"}]
        /\ appSeed \in [Appender -> Given] /\ appProof \in [Appender -> Given]
        /\ "none" \notin Appender
        /\ Carried \in 0..1 /\ Owed \in 0..1
    BY DEF TypeInv, Appender, Carried, Owed
  <1>1. ASSUME NEW s \in 0..MaxSeed, NEW pi \in {s, BadProof}, CheckBlock(s, pi)
        PROVE  PairInv'
    <2>1. UNCHANGED <<chanVars, runVars>>
      BY <1>1 DEF CheckBlock
    <2>2. \A a \in Appender : /\ appPc'[a] = "proof" <=> appPc[a] = "proof"
                              /\ appPc[a] = "proof" => appProof'[a] = appProof[a]
      BY <1>0, <1>1 DEF CheckBlock, appVars
    <2> QED
      BY <2>1, <2>2 DEF chanVars, runVars, Carried, Owed
  <1>2. ASSUME NEW a \in Appender, AppendSkip(a) \/ AppendNewSeed(a)
        PROVE  PairInv'
    <2>1. UNCHANGED <<chanVars, runVars, appProof>>
      BY <1>2 DEF AppendSkip, AppendNewSeed
    <2>2. \A x \in Appender : appPc'[x] = "proof" <=> appPc[x] = "proof"
      BY <1>0, <1>2 DEF AppendSkip, AppendNewSeed
    <2> QED
      BY <2>1, <2>2 DEF chanVars, runVars, Carried, Owed
  <1>3. ASSUME NEW a \in Appender, SendSeed(a)
        PROVE  PairInv'
    <2>1. /\ appPc[a] = "seed" /\ appPc' = [appPc EXCEPT ![a] = "proof"]
          /\ seedChannel' = Append(seedChannel, appSeed[a])
          /\ appSeed[a] = appProof[a]
          /\ UNCHANGED <<prevProofChannel, runVars, appProof>>
      BY <1>3 DEF SendSeed, OrderInv
    <2>2. \A x \in Appender : x # a => appPc[x] \notin {"seed", "proof"}
      BY <2>1 DEF LockInv
    <2>3. Owed = 0 /\ Owed' = 1 /\ Carried' = Carried
      BY <1>0, <2>1, <2>2 DEF Owed, Carried, runVars
    <2>4. /\ Len(seedChannel') = Len(seedChannel) + 1 /\ seedChannel' # <<>>
          /\ seedChannel'[Len(seedChannel')] = appProof[a]
          /\ \A i \in 1..Len(seedChannel) : seedChannel'[i] = seedChannel[i]
      BY <1>0, <2>1
    <2>5. \A x \in Appender : appPc'[x] = "proof" => x = a
      BY <1>0, <2>1, <2>2
    <2> QED
      BY <1>0, <2>1, <2>3, <2>4, <2>5 DEF runVars
  <1>4. ASSUME NEW a \in Appender, SendProof(a)
        PROVE  PairInv'
    <2>1. /\ appPc[a] = "proof" /\ appPc' = [appPc EXCEPT ![a] = "idle"]
          /\ prevProofChannel' = Append(prevProofChannel, appProof[a])
          /\ UNCHANGED <<seedChannel, runVars, appProof>>
      BY <1>4 DEF SendProof
    <2>2. \A x \in Appender : x # a => appPc[x] \notin {"seed", "proof"}
      BY <2>1 DEF LockInv
    <2>3. Owed = 1 /\ Owed' = 0 /\ Carried' = Carried
      BY <1>0, <2>1, <2>2 DEF Owed, Carried, runVars
    <2>4. /\ Len(prevProofChannel') = Len(prevProofChannel) + 1
          /\ prevProofChannel'[Len(prevProofChannel) + 1] = appProof[a]
          /\ \A i \in 1..Len(prevProofChannel) :
               prevProofChannel'[i] = prevProofChannel[i]
      BY <1>0, <2>1
    <2>5. \A x \in Appender : appPc'[x] # "proof"
      BY <1>0, <2>1, <2>2
    <2>6. Len(seedChannel) + Carried = Len(prevProofChannel) + 1
      BY <2>3
    <2>7. Carried = 1 => prevProofChannel'[1] = runSeed
      <3>1. CASE Len(prevProofChannel) >= 1
        BY <1>0, <2>4, <3>1
      <3>2. CASE Len(prevProofChannel) = 0 /\ Carried = 1
        BY <1>0, <2>1, <2>4, <2>6, <3>2
      <3> QED
        BY <1>0, <3>1, <3>2
    <2>8. ASSUME NEW i \in 1..Len(seedChannel)
          PROVE  prevProofChannel'[i + Carried] = seedChannel[i]
      <3>1. CASE i + Carried <= Len(prevProofChannel)
        BY <1>0, <2>4, <3>1
      <3>2. CASE i + Carried > Len(prevProofChannel)
        <4>1. i = Len(seedChannel) /\ i + Carried = Len(prevProofChannel) + 1
          BY <1>0, <2>6, <3>2
        <4> QED
          BY <1>0, <2>1, <2>4, <4>1
      <3> QED
        BY <1>0, <3>1, <3>2
    <2> QED
      BY <1>0, <2>1, <2>3, <2>4, <2>5, <2>6, <2>7, <2>8 DEF runVars
  <1>5. CASE TakeSeed
    <2>1. /\ runPc = "select" /\ runPc' = "rlock" /\ seedChannel # <<>>
          /\ runSeed' = Head(seedChannel) /\ seedChannel' = Tail(seedChannel)
          /\ UNCHANGED <<prevProofChannel, appVars>>
      BY <1>5 DEF TakeSeed, AfterTake
    <2>2. Carried = 0 /\ Carried' = 1 /\ Owed' = Owed
      BY <2>1 DEF Carried, Owed, appVars
    <2>3. /\ runSeed' = seedChannel[1] /\ Len(seedChannel) >= 1
          /\ Len(seedChannel') = Len(seedChannel) - 1
          /\ \A i \in 1..Len(seedChannel') : seedChannel'[i] = seedChannel[i + 1]
      BY <1>0, <2>1
    <2>4. \A i \in 1..Len(seedChannel') : i + 1 \in 1..Len(seedChannel)
      BY <1>0, <2>3
    <2>5. ASSUME NEW a \in Appender, appPc[a] = "proof"
          PROVE  appProof[a] = IF seedChannel' = <<>> THEN runSeed'
                               ELSE seedChannel'[Len(seedChannel')]
      <3>1. appProof[a] = seedChannel[Len(seedChannel)]
        BY <2>1, <2>5
      <3>2. CASE seedChannel' = <<>>
        <4>1. Len(seedChannel) = 1
          BY <1>0, <2>3, <3>2
        <4> QED
          BY <2>3, <3>1, <3>2, <4>1
      <3>3. CASE seedChannel' # <<>>
        <4>1. Len(seedChannel') \in 1..Len(seedChannel')
          BY <1>0, <2>1, <3>3
        <4> QED
          BY <1>0, <2>3, <3>1, <3>3, <4>1
      <3> QED
        BY <3>2, <3>3
    <2>6. Len(prevProofChannel) >= 1 => prevProofChannel[1] = runSeed'
      BY <1>0, <2>2, <2>3
    <2>7. \A i \in 1..Len(seedChannel') :
            i + 1 <= Len(prevProofChannel)
              => prevProofChannel[i + 1] = seedChannel'[i]
      BY <1>0, <2>2, <2>3, <2>4
    <2>8. Len(seedChannel') + 1 = Len(prevProofChannel) + Owed
      BY <1>0, <2>2, <2>3
    <2>9. UNCHANGED <<prevProofChannel, appPc, appProof>>
      BY <2>1 DEF appVars
    <2> QED
      BY <2>2, <2>5, <2>6, <2>7, <2>8, <2>9
  <1>6. CASE PublishSeed
    BY <1>6 DEF PublishSeed, chanVars, appVars, Carried, Owed
  <1>7. CASE PublishProof
    <2>1. /\ runPc = "proof" /\ runPc' = "calc" /\ prevProofChannel # <<>>
          /\ prevProofChannel' = Tail(prevProofChannel)
          /\ "run" \in readers
          /\ UNCHANGED <<seedChannel, runSeed, appVars>>
      BY <1>7 DEF PublishProof, Received, LockInv
    <2>2. \A a \in Appender : appPc[a] # "proof"
      BY <1>0, <2>1 DEF LockInv
    <2>3. Carried = 1 /\ Carried' = 0 /\ Owed = 0 /\ Owed' = 0
      BY <2>1, <2>2 DEF Carried, Owed, appVars
    <2>4. /\ Len(prevProofChannel) >= 1
          /\ Len(prevProofChannel') = Len(prevProofChannel) - 1
          /\ \A i \in 1..Len(prevProofChannel') :
               prevProofChannel'[i] = prevProofChannel[i + 1]
      BY <1>0, <2>1
    <2> QED
      BY <1>0, <2>1, <2>2, <2>3, <2>4 DEF appVars
  <1>8. CASE Interrupt \/ Finish \/ PushResult \/ PushPi
    BY <1>8 DEF Interrupt, Finish, PushResult, PushPi, chanVars, appVars,
         Carried, Owed
  <1>9. CASE Package
    BY <1>9 DEF Package, GetResult, GetPi, ReadSeed, ReadProof, chanVars,
         runVars, appVars, Carried, Owed
  <1>10. CASE UNCHANGED vars
    BY <1>10 DEF vars, chanVars, runVars, appVars, Carried, Owed
  <1> QED
    BY <1>1, <1>2, <1>3, <1>4, <1>5, <1>6, <1>7, <1>8, <1>9, <1>10
       DEF Next, Append1, Run

(* run sends a result, then its proof; GetSeedParams receives them so.     *)
LEMMA ResultStep ==
  ASSUME IInv, [Next]_vars
  PROVE  ResultInv'
  <1> USE SeedsFacts DEF IInv, ResultInv
  <1>0. /\ resultChannel \in Seq(Seeds) /\ Len(resultChannel) \in Nat
        /\ proofChannel \in Seq(Seeds) /\ Len(proofChannel) \in Nat
        /\ params \in [seed : Seeds, proof : Seeds]
        /\ HeldResult \in 0..1 /\ OwedPi \in 0..1
    BY DEF TypeInv, HeldResult, OwedPi
  <1>1. CASE PushResult
    <2>1. /\ runPc = "result" /\ runPc' = "pi"
          /\ resultChannel' = Append(resultChannel, VDF(runSeed))
          /\ UNCHANGED <<proofChannel, runSeed, packPc, params>>
      BY <1>1 DEF PushResult, packVars
    <2>2. OwedPi = 0 /\ OwedPi' = 1 /\ HeldResult' = HeldResult
      BY <2>1 DEF OwedPi, HeldResult
    <2>3. VDF(runSeed) \in Seeds /\ VDF(runSeed)' = VDF(runSeed)
      BY <2>1 DEF TypeInv, VDF
    <2>4. /\ Len(resultChannel') = Len(resultChannel) + 1
          /\ resultChannel' # <<>>
          /\ resultChannel'[Len(resultChannel')] = VDF(runSeed)
          /\ \A i \in 1..Len(resultChannel) : resultChannel'[i] = resultChannel[i]
      BY <1>0, <2>1, <2>3
    <2> QED
      BY <1>0, <2>1, <2>2, <2>3, <2>4
  <1>2. CASE PushPi
    <2>1. /\ runPc = "pi" /\ runPc' = "select"
          /\ proofChannel' = Append(proofChannel, VDF(runSeed))
          /\ UNCHANGED <<resultChannel, packPc, params>>
      BY <1>2 DEF PushPi, packVars
    <2>2. OwedPi = 1 /\ OwedPi' = 0 /\ HeldResult' = HeldResult
      BY <2>1 DEF OwedPi, HeldResult
    <2>3. VDF(runSeed) \in Seeds
      BY DEF TypeInv
    <2>4. /\ Len(proofChannel') = Len(proofChannel) + 1
          /\ proofChannel'[Len(proofChannel) + 1] = VDF(runSeed)
          /\ \A i \in 1..Len(proofChannel) : proofChannel'[i] = proofChannel[i]
      BY <1>0, <2>1, <2>3
    <2>5. HeldResult = 1 => proofChannel'[1] = params.seed
      BY <1>0, <2>2, <2>4
    <2>6. ASSUME NEW i \in 1..Len(resultChannel)
          PROVE  proofChannel'[i + HeldResult] = resultChannel[i]
      <3>1. CASE i + HeldResult <= Len(proofChannel)
        BY <1>0, <2>4, <3>1
      <3>2. CASE i + HeldResult > Len(proofChannel)
        <4>1. i = Len(resultChannel) /\ i + HeldResult = Len(proofChannel) + 1
          BY <1>0, <2>2, <3>2
        <4> QED
          BY <1>0, <2>2, <2>4, <4>1
      <3> QED
        BY <1>0, <3>1, <3>2
    <2> QED
      BY <1>0, <2>1, <2>2, <2>4, <2>5, <2>6
  <1>3. CASE GetResult
    <2>1. /\ packPc = "idle" /\ packPc' = "pi" /\ resultChannel # <<>>
          /\ params' = [params EXCEPT !.seed = Head(resultChannel)]
          /\ resultChannel' = Tail(resultChannel)
          /\ UNCHANGED <<proofChannel, runPc, runSeed>>
      BY <1>3 DEF GetResult, runVars
    <2>2. HeldResult = 0 /\ HeldResult' = 1 /\ OwedPi' = OwedPi
      BY <2>1 DEF HeldResult, OwedPi
    <2>3. /\ params'.seed = resultChannel[1] /\ Len(resultChannel) >= 1
          /\ Len(resultChannel') = Len(resultChannel) - 1
          /\ \A i \in 1..Len(resultChannel') :
               resultChannel'[i] = resultChannel[i + 1]
      BY <1>0, <2>1
    <2>4. \A i \in 1..Len(resultChannel') : i + 1 \in 1..Len(resultChannel)
      BY <1>0, <2>3
    <2>5. VDF(runSeed)' = VDF(runSeed)
      BY <2>1 DEF VDF
    <2>6. ASSUME OwedPi = 1
          PROVE  VDF(runSeed) = IF resultChannel' = <<>> THEN params'.seed
                                ELSE resultChannel'[Len(resultChannel')]
      <3>1. VDF(runSeed) = resultChannel[Len(resultChannel)]
        BY <2>1, <2>6
      <3>2. CASE resultChannel' = <<>>
        <4>1. Len(resultChannel) = 1
          BY <1>0, <2>3, <3>2
        <4> QED
          BY <2>3, <3>1, <3>2, <4>1
      <3>3. CASE resultChannel' # <<>>
        <4>1. Len(resultChannel') \in 1..Len(resultChannel')
          BY <1>0, <2>1, <3>3
        <4> QED
          BY <1>0, <2>3, <3>1, <3>3, <4>1
      <3> QED
        BY <3>2, <3>3
    <2>7. Len(proofChannel) >= 1 => proofChannel[1] = params'.seed
      BY <1>0, <2>2, <2>3
    <2>8. \A i \in 1..Len(resultChannel') :
            i + 1 <= Len(proofChannel) => proofChannel[i + 1] = resultChannel'[i]
      BY <1>0, <2>2, <2>3, <2>4
    <2>9. Len(resultChannel') + 1 = Len(proofChannel) + OwedPi
      BY <1>0, <2>2, <2>3
    <2>10. UNCHANGED proofChannel
      BY <2>1
    <2> QED
      BY <2>2, <2>5, <2>6, <2>7, <2>8, <2>9, <2>10
  <1>4. CASE GetPi
    <2>1. /\ packPc = "pi" /\ packPc' = "idle" /\ proofChannel # <<>>
          /\ params' = [params EXCEPT !.proof = Head(proofChannel)]
          /\ proofChannel' = Tail(proofChannel)
          /\ UNCHANGED <<resultChannel, runPc, runSeed>>
      BY <1>4 DEF GetPi, runVars
    <2>2. HeldResult = 1 /\ HeldResult' = 0 /\ OwedPi' = OwedPi
      BY <2>1 DEF HeldResult, OwedPi
    <2>3. /\ Len(proofChannel) >= 1
          /\ Len(proofChannel') = Len(proofChannel) - 1
          /\ \A i \in 1..Len(proofChannel') :
               proofChannel'[i] = proofChannel[i + 1]
          /\ params'.seed = params.seed
      BY <1>0, <2>1
    <2>4. VDF(runSeed)' = VDF(runSeed)
      BY <2>1 DEF VDF
    <2>5. OwedPi = 1 =>
            VDF(runSeed) = IF resultChannel = <<>> THEN params'.seed
                           ELSE resultChannel[Len(resultChannel)]
      BY <2>3
    <2>6. \A i \in 1..Len(resultChannel) :
            i <= Len(proofChannel') => proofChannel'[i] = resultChannel[i]
      BY <1>0, <2>2, <2>3
    <2>7. Len(resultChannel) = Len(proofChannel') + OwedPi
      BY <1>0, <2>2, <2>3
    <2>8. UNCHANGED resultChannel
      BY <2>1
    <2> QED
      BY <1>0, <2>2, <2>4, <2>5, <2>6, <2>7, <2>8
  <1>5. CASE TakeSeed \/ PublishSeed \/ PublishProof \/ Interrupt \/ Finish
    <2>1. /\ UNCHANGED <<resultChannel, proofChannel, packPc, params>>
          /\ runPc # "pi" /\ runPc' # "pi"
      BY <1>5 DEF TakeSeed, AfterTake, PublishSeed, PublishProof, Interrupt,
           Finish, chanVars, packVars
    <2> QED
      BY <2>1 DEF HeldResult, OwedPi
  <1>6. CASE ReadSeed \/ ReadProof
    <2>1. /\ UNCHANGED <<resultChannel, proofChannel, runPc, runSeed>>
          /\ packPc # "pi" /\ packPc' # "pi"
          /\ params'.seed = params.seed \/ packPc = "idle"
      BY <1>0, <1>6 DEF ReadSeed, ReadProof, chanVars, runVars
    <2> QED
      BY <1>0, <1>6, <2>1 DEF HeldResult, OwedPi, VDF, ReadSeed, ReadProof
  <1>7. ASSUME UNCHANGED <<resultChannel, proofChannel, runVars, packVars>>
        PROVE  ResultInv'
    BY <1>7 DEF runVars, packVars, HeldResult, OwedPi, VDF
  <1>8. ASSUME NEW s \in 0..MaxSeed, NEW pi \in {s, BadProof}, CheckBlock(s, pi)
        PROVE  ResultInv'
    BY <1>7, <1>8 DEF CheckBlock, chanVars
  <1>9. ASSUME NEW a \in Appender, Append1(a)
        PROVE  ResultInv'
    BY <1>7, <1>9 DEF Append1, AppendSkip, AppendNewSeed, SendSeed, SendProof,
         chanVars
  <1>10. CASE UNCHANGED vars
    BY <1>7, <1>10 DEF vars, chanVars
  <1> QED
    BY <1>1, <1>2, <1>3, <1>4, <1>5, <1>6, <1>8, <1>9, <1>10
       DEF Next, Run, Package

LEMMA InvStep ==
  ASSUME IInv, [Next]_vars
  PROVE  IInv'
  BY TypeStep, LockStep, OrderStep, PairStep, ResultStep DEF IInv

LEMMA Inductive == Spec => []IInv
  <1>1. Init => IInv
    BY InitInv
  <1>2. IInv /\ [Next]_vars => IInv'
    BY InvStep
  <1> QED
    BY <1>1, <1>2, PTL DEF Spec

-----------------------------------------------------------------------------
(* The calculator's variables keep their types, and results stay seeds.    *)
THEOREM TypeCorrect == Spec => []TypeOK
  <1>1. IInv => TypeOK
    <2>1. ASSUME NEW c \in Seq(Given)
          PROVE  c \in Seq(Seeds)
      BY SeedsFacts, SeqMonotonic
    <2> QED
      BY <2>1, SeedsFacts DEF IInv, TypeInv, TypeOK
  <1> QED
    BY <1>1, Inductive, PTL

(* The seeds that run has taken and not published or has still to take are *)
(* those of OrderInv; with an empty channel owing nothing the head of the  *)
(* proof channel belongs to the result held.                               *)
LEMMA ChannelsFollow ==
  ASSUME IInv
  PROVE  ChannelsAgree
  <1> USE SeedsFacts DEF IInv
  <1>0. /\ seedChannel \in Seq(Given) /\ Len(seedChannel) \in Nat
        /\ seed \in Nat /\ runSeed \in Given
        /\ proofChannel \in Seq(Seeds)
    BY DEF TypeInv
  <1>1. QueueOrdered
    <2>1. Appending \subseteq {seed, seed + 1}
      BY DEF Appending, OrderInv
    <2>2. CASE runPc # "rlock"
      <3>1. Waiting = seedChannel
        BY <1>0, <2>2 DEF Waiting
      <3>2. \A i \in 1..(Len(seedChannel) - 1) :
              i + 1 \in 1..Len(seedChannel) /\ i \in 1..(i + 1)
        BY <1>0
      <3> QED
        BY <2>1, <3>1, <3>2 DEF QueueOrdered, OrderInv
    <2>3. CASE runPc = "rlock"
      <3>1. /\ Len(Waiting) = Len(seedChannel) + 1
            /\ Waiting[1] = runSeed
            /\ \A i \in 1..Len(seedChannel) : Waiting[i + 1] = seedChannel[i]
        <4>1. Waiting = <<runSeed>> \o seedChannel
          BY <2>3 DEF Waiting
        <4> QED
          BY <1>0, <4>1
      <3>2. ASSUME NEW i \in 1..Len(Waiting)
            PROVE  Waiting[i] \in {seed, seed + 1}
        <4>1. CASE i = 1
          BY <2>3, <3>1, <4>1 DEF OrderInv
        <4>2. CASE i # 1
          <5>1. i - 1 \in 1..Len(seedChannel) /\ (i - 1) + 1 = i
            BY <1>0, <3>1, <4>2
          <5> QED
            BY <3>1, <5>1 DEF OrderInv
        <4> QED
          BY <4>1, <4>2
      <3>3. ASSUME NEW i \in 1..(Len(Waiting) - 1)
            PROVE  Waiting[i] <= Waiting[i + 1]
        <4>1. i \in 1..Len(seedChannel) /\ Waiting[i + 1] = seedChannel[i]
          BY <1>0, <3>1
        <4>2. CASE i = 1
          BY <2>3, <3>1, <4>1, <4>2 DEF OrderInv
        <4>3. CASE i # 1
          <5>1. /\ i - 1 \in 1..i /\ i - 1 \in 1..Len(seedChannel)
                /\ (i - 1) + 1 = i
            BY <1>0, <4>1, <4>3
          <5>2. Waiting[i] = seedChannel[i - 1]
            BY <3>1, <5>1
          <5>3. seedChannel[i - 1] <= seedChannel[i]
            BY <4>1, <5>1 DEF OrderInv
          <5> QED
            BY <4>1, <5>2, <5>3
        <4> QED
          BY <4>2, <4>3
      <3> QED
        BY <2>1, <3>2, <3>3 DEF QueueOrdered
    <2> QED
      BY <2>2, <2>3
  <1>2. ProofsPaired
    <2>1. proofChannel # <<>> =>
            Len(proofChannel) >= 1 /\ Head(proofChannel) = proofChannel[1]
      BY <1>0
    <2> QED
      BY <2>1 DEF ProofsPaired, OrderInv, ResultInv, HeldResult
  <1> QED
    BY <1>1, <1>2 DEF ChannelsAgree

(***************************************************************************)
(* However many blocks repeat a seed and however the goroutines interleave *)
(* on changeLock and the four channels, the seeds wait in order and every  *)
(* seed and every result comes out with its own proof.                     *)
(***************************************************************************)
THEOREM ChannelsInStep == Spec => []ChannelsAgree
  BY ChannelsFollow, Inductive, PTL

(* The published seed advances by single VDF steps, and only the genesis   *)
(* seed is set from nothing: a late block never sets it back.              *)
THEOREM SingleSteps == Spec => SeedAdvances
  <1>1. ASSUME IInv, [Next]_vars, seed' # seed
        PROVE  seed' = IF seed = 0 THEN Genesis ELSE seed + 1
    <2>1. CASE PublishSeed
      BY <1>1, <2>1 DEF PublishSeed, IInv, OrderInv, Genesis
    <2>2. CASE ~PublishSeed
      BY <1>1, <2>2 DEF Next, CheckBlock, Append1, AppendSkip, AppendNewSeed,
           SendSeed, SendProof, Run, TakeSeed, PublishProof, Interrupt, Finish,
           PushResult, PushPi, Package, GetResult, GetPi, ReadSeed, ReadProof,
           vars, calcVars
    <2> QED
      BY <2>1, <2>2
  <1>2. IInv /\ [Next]_vars
          => [seed' # seed => seed' = IF seed = 0 THEN Genesis ELSE seed + 1]_vars
    BY <1>1
  <1> QED
    BY <1>2, Inductive, PTL DEF Spec, SeedAdvances
=============================================================================
