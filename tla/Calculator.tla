----------------------------- MODULE Calculator ------------------------------
(***************************************************************************)
(* The VDF calculator (crypto/calculator.go).  One goroutine, run, takes a *)
(* seed and its proof from two channels, publishes them, and computes the  *)
(* VDF of the seed until it is done or `changed' tells it to give up.      *)
(* AppendNewSeed feeds the two channels while it holds changeLock for      *)
(* writing; run publishes seed and proof while it holds it for reading,    *)
(* like GetSeedParams, which the packaging routine calls.                  *)
(*                                                                         *)
(* A seed is the number of VDF steps from the genesis seed 1; 0 is the     *)
(* value before any seed is known, which a restarted node puts into the    *)
(* blocks it packages.  VDF(s) = s + 1, and a proof is named by the seed   *)
(* it came with.  BadProof is a proof of nothing.                          *)
(***************************************************************************)
EXTENDS Integers, Sequences

CONSTANTS
  MaxSeed,     \* bound of the scenario: the largest seed in a block
  MaxBlocks,   \* bound of the scenario: blocks given to the calculator
  ChanCap,     \* capacity of seedChannel and prevProofChannel (32)
  ResultCap,   \* capacity of resultChannel and proofChannel (32)
  Restarted    \* TRUE: the chain was loaded from disk, not from a genesis

ASSUME CalculatorAssumption ==
  /\ MaxSeed \in Nat \ {0}
  /\ MaxBlocks \in Nat
  /\ ChanCap \in Nat \ {0}
  /\ ResultCap \in Nat \ {0}
  /\ Restarted \in BOOLEAN

Genesis == 1
BadProof == 0
Seeds == 0..(MaxSeed + 1)

(* The genesis insertion and the buffer's locked section call              *)
(* AppendNewSeed; updateLock admits one buffer goroutine at a time.        *)
Appender == {"genesis", "buffer"}

VARIABLES
  seedChannel, prevProofChannel,   \* outside -> run
  resultChannel, proofChannel,     \* run -> outside
  prevSeed, seed, proof,           \* the published state
  changed,                         \* run should give up its computation
  writer, readers,                 \* changeLock
  runPc, runSeed,                  \* run, and the seed it has taken
  appPc, appSeed, appProof,        \* the appenders and their arguments
  packPc, params,                  \* GetSeedParams, and what it returned
  blocks                           \* blocks still to come

chanVars == <<seedChannel, prevProofChannel, resultChannel, proofChannel>>
calcVars == <<prevSeed, seed, proof>>
lockVars == <<writer, readers>>
runVars == <<runPc, runSeed>>
appVars == <<appPc, appSeed, appProof>>
packVars == <<packPc, params>>
vars == <<chanVars, calcVars, changed, lockVars, runVars, appVars, packVars,
          blocks>>

TypeOK ==
  /\ seedChannel \in Seq(Seeds) /\ prevProofChannel \in Seq(Seeds)
  /\ resultChannel \in Seq(Seeds) /\ proofChannel \in Seq(Seeds)
  /\ prevSeed \in Seeds /\ seed \in Seeds /\ proof \in Seeds
  /\ changed \in BOOLEAN
  /\ writer \in Appender \cup {"none"}
  /\ readers \subseteq {"run", "pack"}
  /\ runPc \in {"select", "rlock", "proof", "calc", "result", "pi"}
  /\ runSeed \in Seeds
  /\ appPc \in [Appender -> {"idle", "append", "seed", "proof"}]
  /\ appSeed \in [Appender -> Seeds]
  /\ appProof \in [Appender -> Seeds]
  /\ packPc \in {"idle", "pi", "locked"}
  /\ params \in [seed : Seeds, proof : Seeds]
  /\ blocks \in Nat

(* Mutant: any later result passes.                                        *)
VerifyLoose(s, pi, r) == pi = r

(* pi^l * s^(2^t mod l) mod n, which is 0 for s = 0.                       *)
Verify(s, pi, r) == IF s = 0 THEN r = 0 ELSE r = s + 1 /\ pi = r

CanLock == writer = "none" /\ readers = {}
CanRLock == writer = "none"

-----------------------------------------------------------------------------
(***************************************************************************)
(* CalculatorInitialization.  Inserting a genesis block ends with          *)
(* AppendNewSeed of the genesis seed; loading a chain from the database    *)
(* calls genesisInitialization only.                                       *)
(***************************************************************************)
Init ==
  /\ seedChannel = <<>> /\ prevProofChannel = <<>>
  /\ resultChannel = <<>> /\ proofChannel = <<>>
  /\ prevSeed = 0 /\ seed = 0 /\ proof = 0
  /\ changed = FALSE
  /\ writer = "none" /\ readers = {}
  /\ runPc = "select" /\ runSeed = 0
  /\ appPc = [a \in Appender |->
                IF a = "genesis" /\ ~Restarted THEN "append" ELSE "idle"]
  /\ appSeed = [a \in Appender |-> Genesis]
  /\ appProof = [a \in Appender |-> Genesis]
  /\ packPc = "idle" /\ params = [seed |-> 0, proof |-> 0]
  /\ blocks = MaxBlocks

(* VerifyBlockVDF on a block's parameters, as the buffer calls it; a block *)
(* that passes goes on to AppendNewSeed.                                   *)
VerifyBlockVDF(s, pi) ==
  \/ s \in {prevSeed, seed}
  \/ seed # 0 /\ Verify(seed, pi, s)

CheckBlock(s, pi) ==
  /\ appPc["buffer"] = "idle"
  /\ blocks > 0
  /\ CanLock
  /\ blocks' = blocks - 1
  /\ IF VerifyBlockVDF(s, pi)
     THEN /\ appPc' = [appPc EXCEPT !["buffer"] = "append"]
          /\ appSeed' = [appSeed EXCEPT !["buffer"] = s]
          /\ appProof' = [appProof EXCEPT !["buffer"] = pi]
     ELSE UNCHANGED appVars
  /\ UNCHANGED <<chanVars, calcVars, changed, lockVars, runVars, packVars>>

(* Nothing new, or not verifiable from the current seed.                   *)
Skip(s, pi) ==
  \/ s \in {prevSeed, seed}
  \/ seed # 0 /\ ~Verify(seed, pi, s)

AppendSkip(a) ==
  /\ appPc[a] = "append"
  /\ CanLock
  /\ Skip(appSeed[a], appProof[a])
  /\ appPc' = [appPc EXCEPT ![a] = "idle"]
  /\ UNCHANGED <<chanVars, calcVars, changed, lockVars, runVars, appSeed,
                 appProof, packVars, blocks>>

(* The lock stays taken until both sends are done.                         *)
AppendNewSeed(a) ==
  /\ appPc[a] = "append"
  /\ CanLock
  /\ ~Skip(appSeed[a], appProof[a])
  /\ writer' = a
  /\ changed' = TRUE
  /\ appPc' = [appPc EXCEPT ![a] = "seed"]
  /\ UNCHANGED <<chanVars, calcVars, readers, runVars, appSeed, appProof,
                 packVars, blocks>>

SendSeed(a) ==
  /\ appPc[a] = "seed"
  /\ Len(seedChannel) < ChanCap
  /\ seedChannel' = Append(seedChannel, appSeed[a])
  /\ appPc' = [appPc EXCEPT ![a] = "proof"]
  /\ UNCHANGED <<prevProofChannel, resultChannel, proofChannel, calcVars,
                 changed, lockVars, runVars, appSeed, appProof, packVars, blocks>>

SendProof(a) ==
  /\ appPc[a] = "proof"
  /\ Len(prevProofChannel) < ChanCap
  /\ prevProofChannel' = Append(prevProofChannel, appProof[a])
  /\ appPc' = [appPc EXCEPT ![a] = "idle"]
  /\ writer' = "none"
  /\ UNCHANGED <<seedChannel, resultChannel, proofChannel, calcVars, changed,
                 readers, runVars, appSeed, appProof, packVars, blocks>>

-----------------------------------------------------------------------------
(* Mutant: a seed that comes while changed is set is thrown away.          *)
AfterTakeUnlessChanged == IF changed THEN "select" ELSE "rlock"
AfterTake == "rlock"

(* run                                                                     *)
TakeSeed ==
  /\ runPc = "select" /\ seedChannel # <<>>
  /\ runSeed' = Head(seedChannel)
  /\ seedChannel' = Tail(seedChannel)
  /\ runPc' = AfterTake
  /\ UNCHANGED <<prevProofChannel, resultChannel, proofChannel, calcVars,
                 changed, lockVars, appVars, packVars, blocks>>

PublishSeed ==
  /\ runPc = "rlock" /\ CanRLock
  /\ readers' = readers \cup {"run"}
  /\ changed' = FALSE
  /\ prevSeed' = seed
  /\ seed' = runSeed
  /\ runPc' = "proof"
  /\ UNCHANGED <<chanVars, proof, writer, runSeed, appVars, packVars, blocks>>

(* Mutant: the proof is read but not removed.                              *)
ReceivedPeek(c) == c
Received(c) == Tail(c)

PublishProof ==
  /\ runPc = "proof" /\ prevProofChannel # <<>>
  /\ proof' = Head(prevProofChannel)
  /\ prevProofChannel' = Received(prevProofChannel)
  /\ readers' = readers \ {"run"}
  /\ runPc' = "calc"
  /\ UNCHANGED <<seedChannel, resultChannel, proofChannel, prevSeed, seed,
                 changed, writer, runSeed, appVars, packVars, blocks>>

(* calculate sees changed in one of its rounds.                            *)
Interrupt ==
  /\ runPc = "calc" /\ changed
  /\ runPc' = "select"
  /\ UNCHANGED <<chanVars, calcVars, changed, lockVars, runSeed, appVars,
                 packVars, blocks>>

(* calculate finishes; changed may have been set after its last look.      *)
Finish ==
  /\ runPc = "calc"
  /\ runPc' = "result"
  /\ UNCHANGED <<chanVars, calcVars, changed, lockVars, runSeed, appVars,
                 packVars, blocks>>

(* calculate's outcome.  Mutant: one squaring run too many.                *)
VDFBeyond(s) == s + 2
VDF(s) == s + 1

PushResult ==
  /\ runPc = "result" /\ Len(resultChannel) < ResultCap
  /\ resultChannel' = Append(resultChannel, VDF(runSeed))
  /\ runPc' = "pi"
  /\ UNCHANGED <<seedChannel, prevProofChannel, proofChannel, calcVars,
                 changed, lockVars, runSeed, appVars, packVars, blocks>>

PushPi ==
  /\ runPc = "pi" /\ Len(proofChannel) < ResultCap
  /\ proofChannel' = Append(proofChannel, VDF(runSeed))
  /\ runPc' = "select"
  /\ UNCHANGED <<seedChannel, prevProofChannel, resultChannel, calcVars,
                 changed, lockVars, runSeed, appVars, packVars, blocks>>

-----------------------------------------------------------------------------
(* GetSeedParams: a queued result first, then the published pair.          *)
GetResult ==
  /\ packPc = "idle" /\ resultChannel # <<>>
  /\ params' = [params EXCEPT !.seed = Head(resultChannel)]
  /\ resultChannel' = Tail(resultChannel)
  /\ packPc' = "pi"
  /\ UNCHANGED <<seedChannel, prevProofChannel, proofChannel, calcVars,
                 changed, lockVars, runVars, appVars, blocks>>

GetPi ==
  /\ packPc = "pi" /\ proofChannel # <<>>
  /\ params' = [params EXCEPT !.proof = Head(proofChannel)]
  /\ proofChannel' = Tail(proofChannel)
  /\ packPc' = "idle"
  /\ UNCHANGED <<seedChannel, prevProofChannel, resultChannel, calcVars,
                 changed, lockVars, runVars, appVars, blocks>>

ReadSeed ==
  /\ packPc = "idle" /\ resultChannel = <<>> /\ CanRLock
  /\ readers' = readers \cup {"pack"}
  /\ params' = [params EXCEPT !.seed = seed]
  /\ packPc' = "locked"
  /\ UNCHANGED <<chanVars, calcVars, changed, writer, runVars, appVars, blocks>>

ReadProof ==
  /\ packPc = "locked"
  /\ readers' = readers \ {"pack"}
  /\ params' = [params EXCEPT !.proof = proof]
  /\ packPc' = "idle"
  /\ UNCHANGED <<chanVars, calcVars, changed, writer, runVars, appVars, blocks>>

-----------------------------------------------------------------------------
Append1(a) == AppendSkip(a) \/ AppendNewSeed(a) \/ SendSeed(a) \/ SendProof(a)
Run == TakeSeed \/ PublishSeed \/ PublishProof \/ Interrupt \/ Finish
         \/ PushResult \/ PushPi
Package == GetResult \/ GetPi \/ ReadSeed \/ ReadProof

Next ==
  \/ \E s \in 0..MaxSeed : \E pi \in {s, BadProof} : CheckBlock(s, pi)
  \/ \E a \in Appender : Append1(a)
  \/ Run
  \/ Package

(***************************************************************************)
(* run and a started call keep going.  An appender waiting for changeLock  *)
(* gets it although readers come and go (Go's RWMutex blocks new readers   *)
(* once a writer waits), hence strong fairness.  Nothing makes the         *)
(* packaging routine call GetSeedParams: it only does when the node is     *)
(* synced.                                                                 *)
(***************************************************************************)
Fairness ==
  /\ WF_vars(Run)
  /\ \A a \in Appender : SF_vars(Append1(a))
  /\ WF_vars(GetPi) /\ WF_vars(ReadProof)

Spec == Init /\ [][Next]_vars
FairSpec == Spec /\ Fairness

-----------------------------------------------------------------------------
(* Seeds waiting for run, the one it has just taken included, oldest first.*)
Waiting == (IF runPc = "rlock" THEN <<runSeed>> ELSE <<>>) \o seedChannel

(* The seed being appended under the lock, if any.                         *)
Appending == {appSeed[a] : a \in {x \in Appender : appPc[x] = "seed"}}

(* However many blocks bring the same new seed before run gets to it, what *)
(* waits is never older than the published seed and at most one VDF step   *)
(* ahead of it, in order.                                                  *)
QueueOrdered ==
  /\ seed # 0 => \A i \in 1..Len(Waiting) : Waiting[i] \in {seed, seed + 1}
  /\ seed # 0 => Appending \subseteq {seed, seed + 1}
  /\ \A i \in 1..(Len(Waiting) - 1) : Waiting[i] <= Waiting[i + 1]

(* The published seed advances by single VDF steps and never goes back;    *)
(* only the genesis seed may be set from nothing.                          *)
SeedAdvances ==
  [][seed' # seed => seed' = IF seed = 0 THEN Genesis ELSE seed + 1]_vars

(* The seed and its proof travel through two channels and meet again: run  *)
(* publishes a seed with its own proof, and a queued result is returned    *)
(* with its own proof.                                                     *)
ProofsPaired ==
  /\ runPc \in {"calc", "result", "pi", "select"} => proof = seed
  /\ packPc = "pi" /\ proofChannel # <<>> => Head(proofChannel) = params.seed

(* What goes through the channels arrives in order and complete: no seed   *)
(* is left behind by a newer one, and none loses its proof.                *)
ChannelsAgree == QueueOrdered /\ ProofsPaired

(* A seed accepted from a block is eventually the published one.           *)
SeedTaken ==
  \A s \in 1..MaxSeed :
    (\E a \in Appender : appPc[a] = "seed" /\ appSeed[a] = s) ~> seed >= s

(* crypto/calculator.go:203: a correct parameter from another node         *)
(* interrupts the computation: while run computes, a newer seed waiting    *)
(* for it has raised changed.                                              *)
InterruptRaised ==
  \A i \in 1..Len(seedChannel) :
    runPc = "calc" /\ seedChannel[i] > runSeed => changed

(* crypto/calculator.go:96: GetSeedParams returns a result and its proof.  *)
ParamsMatch == packPc = "idle" => params.seed = params.proof

(* core/blockchain.go:710: genesisInitialization starts the computation.   *)
ComputationStarts == <>(seed # 0)
=============================================================================
