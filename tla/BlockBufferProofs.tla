-------------------------- MODULE BlockBufferProofs --------------------------
(***************************************************************************)
(* The block buffer, for every block tree and every bound: the window is   *)
(* linked, bounded and above the last popped block, the buffer implements  *)
(* PopStream, and while no block is looked at twice the best sibling is    *)
(* selected and the orphans have room.                                     *)
(***************************************************************************)
EXTENDS BlockBuffer, SequenceTheorems, FiniteSetTheorems, TLAPS

(* Adding to an LRU cache keeps it a set of blocks.                        *)
LEMMA LruAddType ==
  ASSUME NEW cache \in SUBSET Block, NEW b \in Block, NEW cap,
         NEW new \in LruAdd(cache, b, cap)
  PROVE  new \subseteq Block
  BY DEF LruAdd

(***************************************************************************)
(* What the window of an acceptable block b looks like after compareBlock  *)
(* and updateTreeView, before any pop.                                     *)
(***************************************************************************)
WindowAfter(b, s) ==
  /\ s \in [Heights -> Block \cup {Nil}]
  /\ Height[b] > latestBlockHeight
  /\ Height[b] <= latestBlockHeight + MaxBufferSize + 1
  /\ s[Height[b]] # Nil
  /\ \A h \in Heights : s[h] # Nil => Height[s[h]] = h
  /\ \A h \in Heights :
       /\ h < latestBlockHeight => s[h] = Nil
       /\ h = latestBlockHeight => s[h] \in {Nil, latestBlock}
  /\ \A h \in Heights :
       h >= latestBlockHeight /\ h + 1 \in Heights /\ s[h] # Nil /\ s[h + 1] # Nil
       => Prev[s[h + 1]] = s[h]
  /\ s[latestBlockHeight + 1] # Nil => Prev[s[latestBlockHeight + 1]] = latestBlock
  /\ \A h \in Heights : s[h] # Nil =>
       h <= latestBlockHeight + MaxBufferSize \/ h = Height[b]

(* The parent of an acceptable block is at or above the last popped block: *)
(* the height test that Process and secondProcess make before they lock    *)
(* need not be repeated under the lock.                                    *)
LEMMA AcceptableHeight ==
  ASSUME IndInv, ~panicked, NEW b \in Block, Height[b] > 0, ParentInView(b)
  PROVE  /\ Height[b] > latestBlockHeight
         /\ Height[b] <= latestBlockHeight + MaxBufferSize + 1
         /\ Height[b] \in 1..MaxHeight
         /\ Height[b] = latestBlockHeight + 1 => Prev[b] = latestBlock
  <1>1. Height[b] \in 1..MaxHeight /\ MaxHeight \in Nat /\ MaxBufferSize \in Nat \ {0}
    BY BlockAssumption, BoundAssumption
  <1>0. /\ latestBlock \in Block
        /\ latestBlockHeight \in Nat
        /\ latestBlockHeight = Height[latestBlock]
    BY <1>1 DEF IndInv, TypeOK, HeightsMatch
  <1>2. CASE Prev[b] = latestBlock
    <2>1. Height[b] = latestBlockHeight + 1
      BY <1>0, <1>2, BlockAssumption
    <2> QED
      BY <1>0, <1>1, <1>2, <2>1
  <1>3. CASE selectedBlock[Height[b] - 1] # Nil /\ Prev[b] = selectedBlock[Height[b] - 1]
    <2>1. Height[b] - 1 \in Heights
      BY <1>1, BlockAssumption DEF Heights
    <2>2. Height[b] - 1 >= latestBlockHeight
      BY <1>0, <1>1, <1>3, <2>1 DEF IndInv, NothingBelowLatest
    <2>3. Height[b] - 1 <= latestBlockHeight + MaxBufferSize
      BY <1>3, <2>1 DEF IndInv, WindowBounded
    <2>4. Height[b] - 1 = latestBlockHeight => Prev[b] = latestBlock
      BY <1>3, <2>1 DEF IndInv, NothingBelowLatest
    <2> QED
      BY <1>0, <1>1, <2>2, <2>3, <2>4
  <1> QED
    BY <1>2, <1>3 DEF ParentInView

LEMMA SelectionWindow ==
  ASSUME IndInv, ~panicked, NEW b \in Block, Height[b] > 0, ParentInView(b)
  PROVE  WindowAfter(b, Selection(b))
  <1> DEFINE hb == Height[b]
             s == Selection(b)
  <1>1. /\ hb > latestBlockHeight
        /\ hb <= latestBlockHeight + MaxBufferSize + 1
        /\ hb \in 1..MaxHeight
        /\ hb = latestBlockHeight + 1 => Prev[b] = latestBlock
    BY AcceptableHeight
  <1>0. /\ MaxHeight \in Nat /\ MaxBufferSize \in Nat
        /\ latestBlock \in Block
        /\ latestBlockHeight \in 0..MaxHeight
        /\ latestBlockHeight = Height[latestBlock]
        /\ selectedBlock \in [Heights -> Block \cup {Nil}]
    BY BlockAssumption, BoundAssumption DEF IndInv, TypeOK, HeightsMatch
  <1>2. /\ hb \in Heights /\ hb + 1 \in Heights /\ hb - 1 \in Heights
        /\ latestBlockHeight \in Heights /\ latestBlockHeight + 1 \in Heights
        /\ Heights \subseteq Nat
    BY <1>0, <1>1, SMTT(30) DEF Heights
  <1>3. CASE ~Replaced(b)
    <2>1. s = selectedBlock
      BY <1>3 DEF Selection
    <2>2. selectedBlock[hb] # Nil
      BY <1>3 DEF Replaced
    <2> QED
      BY <1>0, <1>1, <1>2, <2>1, <2>2
      DEF WindowAfter, IndInv, HeightsMatch, NothingBelowLatest,
          WindowLinked, WindowBounded
  <1>4. CASE Replaced(b)
    <2>1. s = [[selectedBlock EXCEPT ![hb] = b] EXCEPT ![hb + 1] = Nil]
      BY <1>4 DEF Selection, updateTreeView
    <2>3. /\ s \in [Heights -> Block \cup {Nil}]
          /\ s[hb] = b
          /\ s[hb + 1] = Nil
          /\ \A h \in Heights : h # hb /\ h # hb + 1 => s[h] = selectedBlock[h]
      BY <1>0, <1>1, <1>2, <2>1
    <2> HIDE DEF s
    <2>4. b # Nil
      BY BlockAssumption
    <2>5. \A h \in Heights : s[h] # Nil => Height[s[h]] = h
      BY <1>2, <2>3 DEF IndInv, HeightsMatch
    <2>6. \A h \in Heights :
            /\ h < latestBlockHeight => s[h] = Nil
            /\ h = latestBlockHeight => s[h] \in {Nil, latestBlock}
      BY <1>0, <1>1, <1>2, <2>3 DEF IndInv, NothingBelowLatest
    <2>7. \A h \in Heights :
            h >= latestBlockHeight /\ h + 1 \in Heights /\ s[h] # Nil /\ s[h + 1] # Nil
            => Prev[s[h + 1]] = s[h]
      <3> SUFFICES ASSUME NEW h \in Heights, h >= latestBlockHeight,
                          h + 1 \in Heights, s[h] # Nil, s[h + 1] # Nil
                   PROVE  Prev[s[h + 1]] = s[h]
        OBVIOUS
      <3>1. CASE h + 1 = hb
        <4>1. h = hb - 1 /\ s[h + 1] = b /\ s[h] = selectedBlock[hb - 1]
          BY <1>1, <1>2, <2>3, <3>1
        <4>2. CASE Prev[b] = latestBlock
          <5>1. hb = latestBlockHeight + 1
            BY <1>0, <4>2, BlockAssumption
          <5>2. s[h] = latestBlock
            BY <1>0, <1>2, <2>6, <4>1, <5>1
          <5> QED
            BY <4>1, <4>2, <5>2
        <4>3. CASE Prev[b] = selectedBlock[Height[b] - 1]
          BY <4>1, <4>3
        <4> QED
          BY <4>2, <4>3 DEF ParentInView
      <3>2. CASE h + 1 # hb
        <4>1. h # hb
          BY <1>2, <2>3
        <4>3. h # hb + 1 /\ h + 1 # hb + 1
          BY <2>3, <4>1, <1>2
        <4>4. s[h] = selectedBlock[h] /\ s[h + 1] = selectedBlock[h + 1]
          BY <2>3, <3>2, <4>1, <4>3
        <4> QED
          BY <4>4 DEF IndInv, WindowLinked
      <3> QED
        BY <3>1, <3>2
    <2>8. s[latestBlockHeight + 1] # Nil
            => Prev[s[latestBlockHeight + 1]] = latestBlock
      <3>1. CASE hb = latestBlockHeight + 1
        BY <1>1, <2>3, <3>1
      <3>2. CASE hb # latestBlockHeight + 1
        <4>1. s[latestBlockHeight + 1] = selectedBlock[latestBlockHeight + 1]
          BY <1>0, <1>1, <1>2, <2>3, <3>2
        <4> QED
          BY <4>1 DEF IndInv, WindowLinked
      <3> QED
        BY <3>1, <3>2
    <2>9. \A h \in Heights : s[h] # Nil =>
            h <= latestBlockHeight + MaxBufferSize \/ h = hb
      BY <1>2, <2>3 DEF IndInv, WindowBounded
    <2> QED
      BY <1>1, <2>3, <2>4, <2>5, <2>6, <2>7, <2>8, <2>9 DEF WindowAfter, s
  <1> QED
    BY <1>3, <1>4

-----------------------------------------------------------------------------
(* The part of the invariant that speaks of the window only.               *)
WindowInv ==
  HeightsMatch /\ NothingBelowLatest /\ WindowLinked /\ WindowBounded
    /\ BufferedHeightSelected

LEMMA InitInv == Init => IndInv
  <1> SUFFICES ASSUME Init PROVE IndInv
    OBVIOUS
  <1> USE BlockAssumption, BoundAssumption
  <1>1. TypeOK
    <2>1. /\ <<>> \in Seq(Block)
          /\ [h \in Heights |-> Nil] \in [Heights -> Block \cup {Nil}]
          /\ [q \in Proc |-> "recv"] \in
               [Proc -> {"recv", "lock", "requeue", "send", "seed"}]
          /\ [q \in Proc |-> Nil] \in [Proc -> Block \cup {Nil}]
          /\ Height[Base] \in 0..MaxHeight
      OBVIOUS
    <2> QED
      BY <2>1 DEF Init, TypeOK
  <1>2. CurrentOK /\ LockHeld
    BY DEF Init, CurrentOK, LockHeld
  <1>3. WindowInv
    BY DEF Init, WindowInv, HeightsMatch, NothingBelowLatest, WindowLinked,
           WindowBounded, BufferedHeightSelected, Heights
  <1> QED
    BY <1>1, <1>2, <1>3 DEF IndInv, WindowInv

(* Steps that leave the window and the panic flag alone.                   *)
LEMMA WindowUnchanged ==
  ASSUME IndInv, UNCHANGED <<view, panicked>>
  PROVE  WindowInv'
  BY DEF IndInv, view, WindowInv, HeightsMatch, NothingBelowLatest,
         WindowLinked, WindowBounded, BufferedHeightSelected

(* The three outcomes of acceptance, on the window.                        *)
LEMMA AcceptWindow ==
  ASSUME IndInv, NEW p \in Proc, AcceptNoPop(p) \/ AcceptPop(p) \/ PopPanic(p)
  PROVE  /\ WindowInv'
         /\ selectedBlock' \in [Heights -> Block \cup {Nil}]
         /\ latestBlock' \in Block
         /\ latestBlockHeight' \in 0..MaxHeight
         /\ bufferedHeight' \in 0..MaxHeight
  <1> DEFINE b == cur[p]
             s == Selection(b)
  <1>1. /\ Select(p) /\ ~panicked
        /\ b \in Block /\ Height[b] > 0 /\ ParentInView(b)
    BY DEF AcceptNoPop, AcceptPop, PopPanic, Select, AtLock, IndInv, CurrentOK
  <1>2. WindowAfter(b, s)
    BY <1>1, SelectionWindow
  <1>3. /\ MaxHeight \in Nat /\ MaxBufferSize \in Nat \ {0}
        /\ latestBlock \in Block
        /\ latestBlockHeight \in 0..MaxHeight
        /\ bufferedHeight \in 0..MaxHeight
        /\ latestBlockHeight = Height[latestBlock]
        /\ Height[b] \in 1..MaxHeight
        /\ Heights = 0..(MaxHeight + 1)
    <2>1. Height[b] \in 1..MaxHeight /\ MaxHeight \in Nat
      BY <1>1, BlockAssumption
    <2> QED
      BY <2>1, BoundAssumption DEF IndInv, TypeOK, HeightsMatch, Heights
  <1>4. bufferedHeight' = (IF Replaced(b) THEN Height[b] ELSE bufferedHeight)
    BY <1>1 DEF Select
  <1>5. Replaced(b) => s[Height[b]] = b
    <2> HAVE Replaced(b)
    <2>1. s = [[selectedBlock EXCEPT ![Height[b]] = b] EXCEPT ![Height[b] + 1] = Nil]
      BY DEF Selection, updateTreeView
    <2> QED
      BY <1>3, <2>1, SMTT(30) DEF IndInv, TypeOK
  <1>6. ~Replaced(b) => s = selectedBlock /\ Height[b] <= latestBlockHeight + MaxBufferSize
    <2> HAVE ~Replaced(b)
    <2> QED
      BY <1>1, <1>3 DEF Selection, Replaced, IndInv, WindowBounded
  <1>7. \/ bufferedHeight' > latestBlockHeight /\ s[bufferedHeight'] # Nil
        \/ /\ bufferedHeight' = bufferedHeight
           /\ bufferedHeight = latestBlockHeight
           /\ latestBlock = Base
    <2>1. CASE Replaced(b)
      <3>1. bufferedHeight' = Height[b]
        BY <1>4, <2>1
      <3>2. Height[b] > latestBlockHeight /\ s[Height[b]] # Nil
        BY <1>2 DEF WindowAfter
      <3> QED
        BY <3>1, <3>2
    <2>2. CASE ~Replaced(b)
      <3>1. bufferedHeight' = bufferedHeight /\ s = selectedBlock
        BY <1>4, <1>6, <2>2
      <3> HIDE DEF s
      <3> QED
        BY <1>1, <1>3, <2>2, <3>1 DEF IndInv, BufferedHeightSelected
    <2> QED
      BY <2>1, <2>2
  <1> HIDE DEF s
  <1>8. CASE AcceptNoPop(p)
    <2>1. /\ selectedBlock' = s /\ latestBlock' = latestBlock
          /\ latestBlockHeight' = latestBlockHeight /\ ~panicked'
          /\ Height[b] <= latestBlockHeight + MaxBufferSize
      BY <1>1, <1>3, <1>8 DEF AcceptNoPop, MustPop, s
    <2>2. HeightsMatch' /\ NothingBelowLatest' /\ WindowLinked'
      BY <1>2, <1>3, <2>1
      DEF WindowAfter, HeightsMatch, NothingBelowLatest, WindowLinked
    <2>3. WindowBounded'
      BY <1>2, <1>3, <2>1 DEF WindowAfter, WindowBounded
    <2>4. BufferedHeightSelected'
      BY <1>7, <2>1 DEF BufferedHeightSelected
    <2> QED
      BY <1>2, <1>3, <1>4, <2>1, <2>2, <2>3, <2>4 DEF WindowInv, WindowAfter
  <1>9. CASE AcceptPop(p)
    <2> DEFINE n == latestBlockHeight + 1
    <2>1. /\ latestBlock' = s[n] /\ s[n] # Nil /\ latestBlockHeight' = n
          /\ selectedBlock' = [s EXCEPT ![latestBlockHeight] = Nil]
          /\ Height[b] > latestBlockHeight + MaxBufferSize
          /\ ~panicked'
      BY <1>1, <1>3, <1>9 DEF AcceptPop, MustPop, s
    <2>2. /\ n \in Heights /\ latestBlockHeight \in Heights
          /\ s \in [Heights -> Block \cup {Nil}]
      BY <1>2, <1>3 DEF WindowAfter
    <2>3. /\ selectedBlock' \in [Heights -> Block \cup {Nil}]
          /\ selectedBlock'[latestBlockHeight] = Nil
          /\ \A h \in Heights : h # latestBlockHeight => selectedBlock'[h] = s[h]
      BY <2>1, <2>2
    <2>4. /\ s[n] \in Block /\ Height[s[n]] = n /\ n \in 0..MaxHeight
      BY <1>2, <1>3, <2>1, <2>2, BlockAssumption DEF WindowAfter
    <2>5. Replaced(b) /\ Height[b] > n
      BY <1>3, <1>6, <2>1
    <2>6. HeightsMatch'
      BY <1>2, <2>1, <2>3, <2>4 DEF HeightsMatch, WindowAfter
    <2>7. NothingBelowLatest'
      BY <1>2, <1>3, <2>1, <2>3 DEF NothingBelowLatest, WindowAfter
    <2>8. WindowLinked'
      <3>1. \A h \in Heights :
              h >= n /\ h + 1 \in Heights
              /\ selectedBlock'[h] # Nil /\ selectedBlock'[h + 1] # Nil
              => Prev[selectedBlock'[h + 1]] = selectedBlock'[h]
        BY <1>2, <1>3, <2>3 DEF WindowAfter
      <3>2. n + 1 \in Heights /\ selectedBlock'[n + 1] = s[n + 1]
        BY <1>3, <2>3, <2>4
      <3>3. selectedBlock'[n + 1] # Nil => Prev[selectedBlock'[n + 1]] = s[n]
        BY <1>2, <1>3, <2>1, <2>2, <3>2, SMTT(30) DEF WindowAfter
      <3> QED
        BY <2>1, <3>1, <3>3 DEF WindowLinked
    <2>9. WindowBounded'
      <3>1. \A h \in Heights : selectedBlock'[h] # Nil => s[h] # Nil
        BY <2>3
      <3>2. \A h \in Heights : s[h] # Nil =>
               h <= latestBlockHeight + MaxBufferSize \/ h = Height[b]
        BY <1>2 DEF WindowAfter
      <3>3. Height[b] <= latestBlockHeight + MaxBufferSize + 1
        BY <1>2 DEF WindowAfter
      <3> QED
        BY <1>3, <2>1, <3>1, <3>2, <3>3 DEF WindowBounded
    <2>10. BufferedHeightSelected'
      <3>1. bufferedHeight' = Height[b] /\ bufferedHeight' \in Heights
        BY <1>3, <1>4, <2>5
      <3>2. selectedBlock'[bufferedHeight'] = b
        BY <1>3, <1>5, <2>3, <2>5, <3>1 DEF s
      <3> QED
        BY <1>1, <2>1, <2>5, <3>1, <3>2, BlockAssumption DEF BufferedHeightSelected
    <2> QED
      BY <1>3, <1>4, <2>1, <2>3, <2>4, <2>6, <2>7, <2>8, <2>9, <2>10 DEF WindowInv
  <1>10. CASE PopPanic(p)
    <2>1. /\ selectedBlock' = s /\ latestBlock' = latestBlock
          /\ latestBlockHeight' = latestBlockHeight /\ panicked'
      BY <1>1, <1>10 DEF PopPanic, s
    <2>2. HeightsMatch' /\ NothingBelowLatest' /\ WindowLinked'
      BY <1>2, <1>3, <2>1
      DEF WindowAfter, HeightsMatch, NothingBelowLatest, WindowLinked
    <2> QED
      BY <1>2, <1>3, <1>4, <2>1, <2>2
      DEF WindowInv, WindowAfter, WindowBounded, BufferedHeightSelected
  <1> QED
    BY <1>8, <1>9, <1>10

(* Every step preserves the invariant, action by action.                   *)
LEMMA StepInv == IndInv /\ [Next]_vars => IndInv'
  <1> SUFFICES ASSUME IndInv, [Next]_vars PROVE IndInv'
    OBVIOUS
  <1>0. /\ TypeOK /\ CurrentOK /\ LockHeld
        /\ Proc = {"process", "second"}
        /\ IndInv
    BY DEF IndInv, Proc
  <1> USE <1>0
  <1>1. ASSUME NEW b \in Block, AppendBlock(b) PROVE IndInv'
    <2>0. /\ Append(blockChan, b) \in Seq(Block)
          /\ [pending EXCEPT ![b] = @ - 1] \in [Block -> Nat]
      BY <1>1 DEF TypeOK, AppendBlock
    <2>1. TypeOK'
      BY <1>1, <2>0 DEF TypeOK, AppendBlock, view
    <2>2. CurrentOK' /\ LockHeld'
      BY <1>1 DEF CurrentOK, LockHeld, AppendBlock
    <2>3. WindowInv'
      BY <1>1, WindowUnchanged DEF AppendBlock
    <2> QED
      BY <2>1, <2>2, <2>3 DEF IndInv, WindowInv
  <1>2. CASE ProcessDrop
    <2>0. Tail(blockChan) \in Seq(Block)
      BY <1>2 DEF TypeOK, ProcessDrop
    <2>1. TypeOK'
      BY <1>2, <2>0 DEF TypeOK, ProcessDrop, view
    <2>2. CurrentOK' /\ LockHeld'
      BY <1>2 DEF TypeOK, CurrentOK, LockHeld, ProcessDrop, view
    <2>3. WindowInv'
      BY <1>2, WindowUnchanged DEF ProcessDrop, view
    <2> QED
      BY <2>1, <2>2, <2>3 DEF IndInv, WindowInv
  <1>3. CASE ProcessTake
    <2>1. Head(blockChan) \in Block /\ Tail(blockChan) \in Seq(Block)
      BY <1>3 DEF TypeOK, ProcessTake
    <2>2. knownBlocks' \subseteq Block
      <3>1. /\ knownBlocks \in SUBSET Block
            /\ knownBlocks' \in LruAdd(knownBlocks, Head(blockChan), KnownCap)
        BY <1>3 DEF TypeOK, ProcessTake
      <3> QED
        BY <2>1, <3>1, LruAddType
    <2>3. Height[Head(blockChan)] > 0
      <3>1. Height[Head(blockChan)] \in Nat /\ latestBlockHeight \in Nat
        BY <2>1, BlockAssumption, SMTT(30) DEF TypeOK
      <3> QED
        BY <1>3, <3>1 DEF ProcessTake
    <2>4. TypeOK'
      BY <1>3, <2>1, <2>2 DEF TypeOK, ProcessTake, view
    <2>5. CurrentOK' /\ LockHeld'
      BY <1>3, <2>1, <2>3 DEF TypeOK, CurrentOK, LockHeld, ProcessTake
    <2>6. WindowInv'
      BY <1>3, WindowUnchanged DEF ProcessTake
    <2> QED
      BY <2>4, <2>5, <2>6 DEF IndInv, WindowInv
  <1>4. CASE SecondDrop
    <2>0. Tail(secondChan) \in Seq(Block)
      BY <1>4 DEF TypeOK, SecondDrop
    <2>1. TypeOK'
      BY <1>4, <2>0 DEF TypeOK, SecondDrop, view
    <2>2. CurrentOK' /\ LockHeld'
      BY <1>4 DEF TypeOK, CurrentOK, LockHeld, SecondDrop, view
    <2>3. WindowInv'
      BY <1>4, WindowUnchanged DEF SecondDrop, view
    <2> QED
      BY <2>1, <2>2, <2>3 DEF IndInv, WindowInv
  <1>5. CASE SecondTake
    <2>1. Head(secondChan) \in Block /\ Tail(secondChan) \in Seq(Block)
      BY <1>5 DEF TypeOK, SecondTake
    <2>2. Height[Head(secondChan)] > 0
      <3>1. Height[Head(secondChan)] \in Nat /\ latestBlockHeight \in Nat
        BY <2>1, BlockAssumption, SMTT(30) DEF TypeOK
      <3> QED
        BY <1>5, <3>1 DEF SecondTake
    <2>3. TypeOK'
      BY <1>5, <2>1 DEF TypeOK, SecondTake, view
    <2>4. CurrentOK' /\ LockHeld'
      BY <1>5, <2>1, <2>2 DEF TypeOK, CurrentOK, LockHeld, SecondTake
    <2>5. WindowInv'
      BY <1>5, WindowUnchanged DEF SecondTake
    <2> QED
      BY <2>3, <2>4, <2>5 DEF IndInv, WindowInv
  <1>6. ASSUME NEW p \in Proc, Orphan(p) PROVE IndInv'
    <2>1. TypeOK'
      BY <1>6 DEF TypeOK, Orphan, AtLock, chans, view
    <2>2. CurrentOK' /\ LockHeld'
      BY <1>6 DEF TypeOK, CurrentOK, LockHeld, Orphan, AtLock, chans, view
    <2>3. WindowInv'
      BY <1>6, WindowUnchanged DEF Orphan, AtLock, chans, view
    <2> QED
      BY <2>1, <2>2, <2>3 DEF IndInv, WindowInv
  <1>7. ASSUME NEW p \in Proc, Requeue(p) PROVE IndInv'
    <2>0. cur[p] \in Block /\ Append(secondChan, cur[p]) \in Seq(Block)
      BY <1>7 DEF TypeOK, CurrentOK, Requeue
    <2>1. TypeOK'
      BY <1>7, <2>0 DEF TypeOK, Requeue, Release, view
    <2>2. CurrentOK' /\ LockHeld'
      BY <1>7, <2>0 DEF TypeOK, CurrentOK, LockHeld, Requeue, Release, view
    <2>3. WindowInv'
      BY <1>7, WindowUnchanged DEF Requeue, Release, view
    <2> QED
      BY <2>1, <2>2, <2>3 DEF IndInv, WindowInv
  <1>8. ASSUME NEW p \in Proc, LowPriority(p) PROVE IndInv'
    <2>0. processedBlocks' \subseteq Block
      BY <1>8, LruAddType DEF TypeOK, CurrentOK, LowPriority, AtLock
    <2>1. TypeOK'
      BY <1>8, <2>0 DEF TypeOK, LowPriority, AtLock, Release, chans, view
    <2>2. CurrentOK' /\ LockHeld'
      BY <1>8, <2>0 DEF TypeOK, CurrentOK, LockHeld, LowPriority, AtLock, Release, chans, view
    <2>3. WindowInv'
      BY <1>8, WindowUnchanged DEF LowPriority, AtLock, Release, chans, view
    <2> QED
      BY <2>1, <2>2, <2>3 DEF IndInv, WindowInv
  <1>9. ASSUME NEW p \in Proc, VdfReject(p) PROVE IndInv'
    <2>0. processedBlocks' \subseteq Block
      BY <1>9, LruAddType DEF TypeOK, CurrentOK, VdfReject, AtLock
    <2>1. TypeOK'
      BY <1>9, <2>0 DEF TypeOK, VdfReject, AtLock, Release, chans, view
    <2>2. CurrentOK' /\ LockHeld'
      BY <1>9, <2>0 DEF TypeOK, CurrentOK, LockHeld, VdfReject, AtLock, Release, chans, view
    <2>3. WindowInv'
      BY <1>9, WindowUnchanged DEF VdfReject, AtLock, Release, chans, view
    <2> QED
      BY <2>1, <2>2, <2>3 DEF IndInv, WindowInv
  <1>10. ASSUME NEW p \in Proc, AcceptNoPop(p) \/ AcceptPop(p) \/ PopPanic(p)
         PROVE  IndInv'
    <2>1. /\ WindowInv'
          /\ selectedBlock' \in [Heights -> Block \cup {Nil}]
          /\ latestBlock' \in Block
          /\ latestBlockHeight' \in 0..MaxHeight
          /\ bufferedHeight' \in 0..MaxHeight
      BY <1>10, AcceptWindow
    <2>2. Select(p)
      BY <1>10 DEF AcceptNoPop, AcceptPop, PopPanic
    <2>3. cur[p] \in Block /\ processedBlocks' \subseteq Block
      BY <2>2, LruAddType DEF TypeOK, CurrentOK, Select, AtLock
    <2>4. /\ pc' \in [Proc -> {"recv", "lock", "requeue", "send", "seed"}]
          /\ panicked' \in BOOLEAN
          /\ pc[p] = "lock"
          /\ pc' = pc \/ \E v \in {"send", "seed"} : pc' = [pc EXCEPT ![p] = v]
      BY <1>10, <2>2 DEF TypeOK, AcceptNoPop, AcceptPop, PopPanic, Select, AtLock
    <2>5. TypeOK'
      BY <2>1, <2>2, <2>3, <2>4 DEF TypeOK, Select, chans
    <2>6. CurrentOK'
      BY <2>2, <2>4 DEF TypeOK, CurrentOK, Select
    <2>7. LockHeld'
      BY <2>2, <2>4 DEF TypeOK, LockHeld, Select, AtLock
    <2> QED
      BY <2>1, <2>5, <2>6, <2>7 DEF IndInv, WindowInv
  <1>11. ASSUME NEW p \in Proc, SendPop(p) PROVE IndInv'
    <2>0. Append(popChan, latestBlock) \in Seq(Block)
      BY <1>11 DEF TypeOK, SendPop
    <2>1. TypeOK'
      BY <1>11, <2>0 DEF TypeOK, SendPop, view
    <2>2. CurrentOK' /\ LockHeld'
      BY <1>11 DEF TypeOK, CurrentOK, LockHeld, SendPop, view
    <2>3. WindowInv'
      BY <1>11, WindowUnchanged DEF SendPop, view
    <2> QED
      BY <2>1, <2>2, <2>3 DEF IndInv, WindowInv
  <1>12. ASSUME NEW p \in Proc, AppendSeed(p) PROVE IndInv'
    <2>1. TypeOK'
      BY <1>12 DEF TypeOK, AppendSeed, Release, chans, view
    <2>2. CurrentOK' /\ LockHeld'
      BY <1>12 DEF TypeOK, CurrentOK, LockHeld, AppendSeed, Release, chans, view
    <2>3. WindowInv'
      BY <1>12, WindowUnchanged DEF AppendSeed, Release, chans, view
    <2> QED
      BY <2>1, <2>2, <2>3 DEF IndInv, WindowInv
  <1>13. CASE ReceivePop
    <2>0. Head(popChan) \in Block /\ Tail(popChan) \in Seq(Block)
      BY <1>13 DEF TypeOK, ReceivePop
    <2>1. TypeOK'
      BY <1>13, <2>0 DEF TypeOK, ReceivePop, view
    <2>2. CurrentOK' /\ LockHeld'
      BY <1>13 DEF TypeOK, CurrentOK, LockHeld, ReceivePop, view
    <2>3. WindowInv'
      BY <1>13, WindowUnchanged DEF ReceivePop, view
    <2> QED
      BY <2>1, <2>2, <2>3 DEF IndInv, WindowInv
  <1>14. CASE UNCHANGED vars
    <2>1. TypeOK' /\ CurrentOK' /\ LockHeld'
      BY <1>14 DEF vars, chans, view, TypeOK, CurrentOK, LockHeld
    <2>2. WindowInv'
      BY <1>14, WindowUnchanged DEF vars
    <2> QED
      BY <2>1, <2>2 DEF IndInv, WindowInv
  <1> QED
    BY <1>1, <1>2, <1>3, <1>4, <1>5, <1>6, <1>7, <1>8, <1>9, <1>10, <1>11,
       <1>12, <1>13, <1>14
    DEF Next, Locked, Idle, Crashed

(***************************************************************************)
(* Type correctness and the invariants of the window, for every block      *)
(* tree, delivery order, interleaving and bound.                           *)
(***************************************************************************)
THEOREM Invariance == Spec => []IndInv
  BY InitInv, StepInv, PTL DEF Spec

(* The state of the buffer keeps its types: in particular no nil block is  *)
(* ever committed to or sent, since the pop of a nil block panics first.   *)
THEOREM TypeCorrect == Spec => []TypeOK
  <1>1. IndInv => TypeOK
    BY DEF IndInv
  <1> QED
    BY Invariance, <1>1, PTL

(* Neighbouring selected blocks are parent and child, and the lowest one   *)
(* is a child of the last popped block.                                    *)
THEOREM LinkedWindow == Spec => []WindowLinked
  <1>1. IndInv => WindowLinked
    BY DEF IndInv
  <1> QED
    BY Invariance, <1>1, PTL

(* A stale height test never lets a block in at or below the popped chain. *)
THEOREM WindowAboveLatest == Spec => []NothingBelowLatest
  <1>1. IndInv => NothingBelowLatest
    BY DEF IndInv
  <1> QED
    BY Invariance, <1>1, PTL

(* One pop per accepted block keeps the window within MaxBufferSize.       *)
THEOREM BoundedWindow == Spec => []WindowBounded
  <1>1. IndInv => WindowBounded
    BY DEF IndInv
  <1> QED
    BY Invariance, <1>1, PTL

-----------------------------------------------------------------------------
(* The popped block is a child of the block popped before it.              *)
LEMMA PopChild ==
  ASSUME IndInv, NEW p \in Proc, AcceptPop(p)
  PROVE  latestBlock' \in Block /\ Prev[latestBlock'] = latestBlock
  <1>1. /\ ~panicked
        /\ cur[p] \in Block /\ Height[cur[p]] > 0 /\ ParentInView(cur[p])
    BY DEF AcceptPop, Select, AtLock, IndInv, CurrentOK
  <1>2. WindowAfter(cur[p], Selection(cur[p]))
    BY <1>1, SelectionWindow
  <1>3. /\ latestBlock' = Selection(cur[p])[latestBlockHeight + 1]
        /\ Selection(cur[p])[latestBlockHeight + 1] # Nil
    BY DEF AcceptPop
  <1>4. latestBlock' \in Block
    BY AcceptWindow
  <1> QED
    BY <1>2, <1>3, <1>4 DEF WindowAfter

(* Only the holder of the lock can have a popped block to send.            *)
LEMMA OneSender ==
  ASSUME IndInv
  PROVE  /\ updateLock = "free" => Unsent = Nil
         /\ \A p \in Proc : pc[p] = "send" =>
              \A q \in Proc \ {p} : pc[q] # "send"
  BY DEF IndInv, LockHeld, Unsent, Proc

LEMMA InitStream == Init => PS!StreamInit
  BY DEF Init, PS!StreamInit, Unsent

(* A step that pops nothing, sends nothing and takes nothing is invisible. *)
LEMMA StreamStutter ==
  ASSUME UNCHANGED <<latestBlock, popChan, consumed>>,
         \A q \in Proc : pc'[q] = "send" <=> pc[q] = "send"
  PROVE  UNCHANGED PS!streamVars
  BY DEF PS!streamVars, Unsent

LEMMA StepStream ==
  IndInv /\ [Next]_vars => [PS!StreamNext]_(PS!streamVars)
  <1> SUFFICES ASSUME IndInv, [Next]_vars
               PROVE  [PS!StreamNext]_(PS!streamVars)
    OBVIOUS
  <1>0. TypeOK /\ LockHeld
    BY DEF IndInv
  <1>1. ASSUME NEW p \in Proc, AcceptPop(p) PROVE PS!StreamNext
    <2>1. Unsent = Nil
      BY <1>1, OneSender DEF AcceptPop, Select, AtLock
    <2>2. latestBlock' \in Block /\ Prev[latestBlock'] = latestBlock
      BY <1>1, PopChild
    <2>3. pc'[p] = "send" /\ UNCHANGED <<popChan, consumed>>
      BY <1>0, <1>1 DEF AcceptPop, Select, chans, TypeOK
    <2>4. Unsent' = latestBlock'
      BY <2>3 DEF Unsent
    <2>5. PS!Advance(latestBlock')
      BY <2>1, <2>2, <2>3, <2>4 DEF PS!Advance
    <2> QED
      BY <2>2, <2>5 DEF PS!StreamNext
  <1>2. ASSUME NEW p \in Proc, SendPop(p) PROVE PS!StreamNext
    <2>1. pc[p] = "send" /\ Unsent = latestBlock /\ latestBlock # Nil
      BY <1>0, <1>2, BlockAssumption DEF SendPop, Unsent, TypeOK
    <2>2. \A q \in Proc : pc'[q] # "send"
      BY <1>0, <1>2, <2>1, OneSender DEF SendPop, TypeOK
    <2>3. Unsent' = Nil
      BY <2>2 DEF Unsent
    <2>4. PS!Send
      BY <1>2, <2>1, <2>3 DEF SendPop, PS!Send, view
    <2> QED
      BY <2>4 DEF PS!StreamNext
  <1>3. CASE ReceivePop
    <2>1. Unsent' = Unsent
      BY <1>3 DEF ReceivePop, Unsent, view
    <2> QED
      BY <1>3, <2>1 DEF ReceivePop, PS!Receive, PS!StreamNext, view
  <1>4. ASSUME NEW b \in Block, AppendBlock(b) PROVE UNCHANGED PS!streamVars
    BY <1>4, StreamStutter DEF AppendBlock, view
  <1>5. CASE ProcessDrop
    BY <1>5, StreamStutter DEF ProcessDrop, view
  <1>6. CASE ProcessTake
    BY <1>0, <1>6, StreamStutter DEF ProcessTake, view, TypeOK
  <1>7. CASE SecondDrop
    BY <1>7, StreamStutter DEF SecondDrop, view
  <1>8. CASE SecondTake
    BY <1>0, <1>8, StreamStutter DEF SecondTake, view, TypeOK
  <1>9. ASSUME NEW p \in Proc, Orphan(p) PROVE UNCHANGED PS!streamVars
    BY <1>0, <1>9, StreamStutter DEF Orphan, AtLock, chans, view, TypeOK
  <1>10. ASSUME NEW p \in Proc, Requeue(p) PROVE UNCHANGED PS!streamVars
    BY <1>0, <1>10, StreamStutter DEF Requeue, Release, view, TypeOK
  <1>11. ASSUME NEW p \in Proc, LowPriority(p) PROVE UNCHANGED PS!streamVars
    BY <1>0, <1>11, StreamStutter
    DEF LowPriority, AtLock, Release, chans, view, TypeOK
  <1>12. ASSUME NEW p \in Proc, VdfReject(p) PROVE UNCHANGED PS!streamVars
    BY <1>0, <1>12, StreamStutter
    DEF VdfReject, AtLock, Release, chans, view, TypeOK
  <1>13. ASSUME NEW p \in Proc, AcceptNoPop(p) PROVE UNCHANGED PS!streamVars
    BY <1>0, <1>13, StreamStutter
    DEF AcceptNoPop, Select, AtLock, chans, TypeOK
  <1>14. ASSUME NEW p \in Proc, PopPanic(p) PROVE UNCHANGED PS!streamVars
    BY <1>0, <1>14, StreamStutter DEF PopPanic, Select, AtLock, chans, TypeOK
  <1>15. ASSUME NEW p \in Proc, AppendSeed(p) PROVE UNCHANGED PS!streamVars
    BY <1>0, <1>15, StreamStutter DEF AppendSeed, Release, chans, view, TypeOK
  <1>16. CASE UNCHANGED vars
    BY <1>16, StreamStutter DEF vars, chans, view
  <1> QED
    BY <1>1, <1>2, <1>3, <1>4, <1>5, <1>6, <1>7, <1>8, <1>9, <1>10, <1>11,
       <1>12, <1>13, <1>14, <1>15, <1>16
    DEF Next, Locked, Idle, Crashed

(***************************************************************************)
(* The buffer implements PopStream: whatever forks, orphans, rejections    *)
(* and evictions happen in the window, the blocks handed to the database   *)
(* are one branch, child after child, none lost, doubled or reordered.     *)
(***************************************************************************)
THEOREM Refinement == Spec => ImplementsPopStream
  BY Invariance, InitStream, StepStream, PTL
  DEF Spec, ImplementsPopStream, PS!StreamSpec

(* A step of the stream keeps the chain from the consumer to latestBlock.  *)
LEMMA StreamStep ==
  ASSUME popChan \in Seq(Block), StreamIntact, [PS!StreamNext]_(PS!streamVars)
  PROVE  StreamIntact'
  <1>1. ASSUME NEW b \in Block, PS!Advance(b) PROVE StreamIntact'
    <2>1. b # Nil
      BY BlockAssumption
    <2> QED
      BY <1>1, <2>1 DEF PS!Advance, StreamIntact, PS!StreamLinked, PS!StreamEnd
  <1>2. CASE PS!Send
    <2> DEFINE n == Len(popChan)
    <2>1. /\ n \in Nat
          /\ popChan' = Append(popChan, Unsent)
          /\ Len(popChan') = n + 1
          /\ popChan'[n + 1] = Unsent
          /\ \A i \in 1..n : popChan'[i] = popChan[i]
          /\ popChan' # <<>>
          /\ popChan # <<>> <=> n > 0
      BY <1>2 DEF PS!Send
    <2>2. Unsent # Nil /\ Unsent' = Nil /\ latestBlock' = latestBlock
          /\ consumed' = consumed
      BY <1>2 DEF PS!Send
    <2>3. latestBlock = Unsent /\ Prev[Unsent] = PS!StreamEnd
      BY <2>2 DEF StreamIntact, PS!StreamLinked
    <2>4. Prev[popChan'[1]] = consumed'
      <3>1. CASE n = 0
        BY <2>1, <2>2, <2>3, <3>1 DEF PS!StreamEnd
      <3>2. CASE n > 0
        BY <2>1, <2>2, <3>2 DEF StreamIntact, PS!StreamLinked
      <3> QED
        BY <2>1, <3>1, <3>2
    <2>5. \A i \in 1..(Len(popChan') - 1) : Prev[popChan'[i + 1]] = popChan'[i]
      <3> SUFFICES ASSUME NEW i \in 1..n
                   PROVE  Prev[popChan'[i + 1]] = popChan'[i]
        BY <2>1
      <3>1. CASE i = n
        BY <2>1, <2>3, <3>1 DEF PS!StreamEnd
      <3>2. CASE i < n
        <4>1. i \in 1..(n - 1) /\ i + 1 \in 1..n
          BY <2>1, <3>2
        <4>2. Prev[popChan[i + 1]] = popChan[i]
          BY <4>1 DEF StreamIntact, PS!StreamLinked
        <4> QED
          BY <2>1, <4>1, <4>2
      <3> QED
        BY <2>1, <3>1, <3>2
    <2>6. latestBlock' = PS!StreamEnd'
      BY <2>1, <2>2, <2>3 DEF PS!StreamEnd
    <2> QED
      BY <2>2, <2>4, <2>5, <2>6 DEF StreamIntact, PS!StreamLinked
  <1>3. CASE PS!Receive
    <2> DEFINE n == Len(popChan)
    <2>1. /\ n \in Nat \ {0}
          /\ consumed' = popChan[1]
          /\ Len(popChan') = n - 1
          /\ \A i \in 1..(n - 1) : popChan'[i] = popChan[i + 1]
          /\ popChan' # <<>> <=> n > 1
          /\ popChan # <<>>
      BY <1>3 DEF PS!Receive
    <2>2. UNCHANGED <<latestBlock, Unsent>>
      BY <1>3 DEF PS!Receive
    <2>3. PS!StreamEnd' = PS!StreamEnd
      BY <2>1 DEF PS!StreamEnd
    <2>4. popChan' # <<>> => Prev[popChan'[1]] = consumed'
      <3> HAVE popChan' # <<>>
      <3>1. 1 \in 1..(n - 1) /\ popChan'[1] = popChan[1 + 1]
        BY <2>1
      <3>2. Prev[popChan[1 + 1]] = popChan[1]
        BY <3>1 DEF StreamIntact, PS!StreamLinked
      <3> QED
        BY <2>1, <3>1, <3>2
    <2>5. \A i \in 1..(Len(popChan') - 1) : Prev[popChan'[i + 1]] = popChan'[i]
      <3> SUFFICES ASSUME NEW i \in 1..(n - 2)
                   PROVE  Prev[popChan'[i + 1]] = popChan'[i]
        BY <2>1
      <3>1. i + 1 \in 1..(n - 1) /\ i \in 1..(n - 1)
        BY <2>1
      <3>2. Prev[popChan[(i + 1) + 1]] = popChan[i + 1]
        BY <3>1 DEF StreamIntact, PS!StreamLinked
      <3> QED
        BY <2>1, <3>1, <3>2
    <2> QED
      BY <2>2, <2>3, <2>4, <2>5 DEF StreamIntact, PS!StreamLinked
  <1>4. CASE UNCHANGED PS!streamVars
    BY <1>4 DEF PS!streamVars, StreamIntact, PS!StreamLinked, PS!StreamEnd
  <1> QED
    BY <1>1, <1>2, <1>3, <1>4 DEF PS!StreamNext

(* The consumer's last block, popChan and the block being sent are always  *)
(* one chain ending in latestBlock.                                        *)
THEOREM ChainDelivered == Spec => []StreamIntact
  <1>1. Init => StreamIntact
    BY DEF Init, StreamIntact, PS!StreamLinked, PS!StreamEnd, Unsent
  <1>2. IndInv /\ StreamIntact /\ [Next]_vars => StreamIntact'
    BY StepStream, StreamStep DEF IndInv, TypeOK
  <1> QED
    BY Invariance, <1>1, <1>2, PTL DEF Spec
-----------------------------------------------------------------------------

-----------------------------------------------------------------------------
(***************************************************************************)
(* Every block is decided once.  A block that waits in secondChan or is    *)
(* held by a goroutine before its decision is undecided; a spent block     *)
(* can no longer be taken from blockChan.                                  *)
(***************************************************************************)
Elem(s, b) == \E i \in 1..Len(s) : s[i] = b
Distinct(s) == \A i, j \in 1..Len(s) : s[i] = s[j] => i = j

Holds(p, b) == pc[p] \in {"lock", "requeue"} /\ cur[p] = b
Undecided(b) == Elem(secondChan, b) \/ \E p \in Proc : Holds(p, b)

Spent(b) ==
  /\ NoneForgotten => b \in knownBlocks
  /\ NoneRepeated => pending[b] = 0 /\ ~Elem(blockChan, b)

(* What the network still delivers has not arrived before.                 *)
ArrivesOnce ==
  NoneRepeated =>
    /\ Distinct(blockChan)
    /\ \A b \in Block : /\ pending[b] <= 1
                        /\ pending[b] > 0 => ~Elem(blockChan, b)

(* An undecided block is in one place, and no block is undecided again     *)
(* once it was accepted.                                                   *)
OnePlace ==
  /\ Distinct(secondChan)
  /\ \A p \in Proc, b \in Block : Holds(p, b) => ~Elem(secondChan, b)
  /\ \A p, q \in Proc, b \in Block : Holds(p, b) /\ Holds(q, b) => p = q

OnceInv ==
  /\ ArrivesOnce
  /\ OnePlace
  /\ \A b \in Block : Undecided(b) \/ b \in accepted => Spent(b)
  /\ ~panicked => \A b \in Block : Undecided(b) => b \notin accepted
  /\ panicked => \A p \in Proc : pc[p] # "requeue"

LEMMA AppendElem ==
  ASSUME NEW s \in Seq(Block), NEW x \in Block
  PROVE  /\ \A b : Elem(Append(s, x), b) <=> Elem(s, b) \/ b = x
         /\ Distinct(s) /\ ~Elem(s, x) => Distinct(Append(s, x))
  <1>1. /\ Len(Append(s, x)) = Len(s) + 1
        /\ Len(s) \in Nat
        /\ \A i \in 1..Len(s) : Append(s, x)[i] = s[i]
        /\ Append(s, x)[Len(s) + 1] = x
    OBVIOUS
  <1> DEFINE t == Append(s, x)
  <1> HIDE DEF t
  <1>2. /\ Len(t) = Len(s) + 1
        /\ Len(s) \in Nat
        /\ \A i \in 1..Len(s) : t[i] = s[i]
        /\ t[Len(s) + 1] = x
        /\ \A i : i \in 1..Len(t) <=> i \in 1..Len(s) \/ i = Len(s) + 1
    BY <1>1 DEF t
  <1>3. \A b : Elem(t, b) <=> Elem(s, b) \/ b = x
    BY <1>2 DEF Elem
  <1>4. Distinct(s) /\ ~Elem(s, x) => Distinct(t)
    BY <1>2 DEF Elem, Distinct
  <1> QED
    BY <1>3, <1>4 DEF t

LEMMA TailElem ==
  ASSUME NEW s \in Seq(Block), s # <<>>
  PROVE  /\ Head(s) \in Block
         /\ Tail(s) \in Seq(Block)
         /\ \A b : Elem(s, b) <=> Elem(Tail(s), b) \/ b = Head(s)
         /\ Distinct(s) => Distinct(Tail(s)) /\ ~Elem(Tail(s), Head(s))
  <1>0. Head(s) \in Block /\ Tail(s) \in Seq(Block)
    OBVIOUS
  <1>1. /\ Len(s) \in Nat \ {0}
        /\ Len(Tail(s)) = Len(s) - 1
        /\ \A i \in 1..Len(Tail(s)) : Tail(s)[i] = s[i + 1]
        /\ Head(s) = s[1]
    OBVIOUS
  <1> DEFINE t == Tail(s)
  <1> HIDE DEF t
  <1>2. /\ Len(s) \in Nat \ {0}
        /\ Len(t) = Len(s) - 1
        /\ \A i \in 1..Len(t) : t[i] = s[i + 1] /\ i + 1 \in 1..Len(s)
        /\ \A i \in 1..Len(s) : i = 1 \/ (i - 1 \in 1..Len(t) /\ t[i - 1] = s[i])
        /\ Head(s) = s[1] /\ 1 \in 1..Len(s)
    BY <1>1 DEF t
  <1>3. \A b : Elem(s, b) <=> Elem(t, b) \/ b = Head(s)
    BY <1>2 DEF Elem
  <1>4. Distinct(s) => Distinct(t) /\ ~Elem(t, Head(s))
    <2>1. Distinct(s) => ~Elem(t, Head(s))
      <3> SUFFICES ASSUME Distinct(s), NEW i \in 1..Len(t), t[i] = Head(s)
                   PROVE  FALSE
        BY DEF Elem
      <3>1. s[i + 1] = s[1] /\ i + 1 \in 1..Len(s) /\ 1 \in 1..Len(s)
        BY <1>2
      <3>2. i + 1 = 1
        BY <3>1 DEF Distinct
      <3> QED
        BY <3>2
    <2>2. Distinct(s) => Distinct(t)
      <3> SUFFICES ASSUME Distinct(s), NEW i \in 1..Len(t), NEW j \in 1..Len(t),
                          t[i] = t[j]
                   PROVE  i = j
        BY DEF Distinct
      <3>1. s[i + 1] = s[j + 1] /\ i + 1 \in 1..Len(s) /\ j + 1 \in 1..Len(s)
        BY <1>2
      <3>2. i + 1 = j + 1
        BY <3>1 DEF Distinct
      <3> QED
        BY <3>2
    <2> QED
      BY <2>1, <2>2
  <1> QED
    BY <1>0, <1>3, <1>4 DEF t

LEMMA InitOnce == Init => OnceInv
  <1> SUFFICES ASSUME Init PROVE OnceInv
    OBVIOUS
  <1>1. \A b : ~Elem(blockChan, b) /\ ~Elem(secondChan, b)
    BY DEF Init, Elem
  <1>2. Distinct(blockChan) /\ Distinct(secondChan)
    BY DEF Init, Distinct
  <1>3. \A p \in Proc : \A b : ~Holds(p, b)
    BY DEF Init, Holds
  <1>4. ArrivesOnce
    BY <1>1, <1>2, BlockAssumption DEF ArrivesOnce, NoneRepeated, Init
  <1>5. OnePlace
    BY <1>1, <1>2, <1>3 DEF OnePlace
  <1> QED
    BY <1>1, <1>3, <1>4, <1>5 DEF OnceInv, Undecided, Init

(* A known block is not forgotten when the cache has room for all.         *)
LEMMA KnownGrows ==
  ASSUME NoneForgotten, NEW cache \in SUBSET Block, NEW b \in Block,
         NEW new \in LruAdd(cache, b, KnownCap)
  PROVE  new = cache \cup {b}
  <1>1. CASE b \in cache
    BY <1>1 DEF LruAdd
  <1>2. CASE b \notin cache
    <2>1. /\ IsFiniteSet(cache)
          /\ Cardinality(cache) <= Cardinality(Block)
          /\ Cardinality(cache) # Cardinality(Block)
      BY <1>2, FS_Subset, Zenon DEF NoneForgotten
    <2>2. Cardinality(cache) \in Nat /\ Cardinality(Block) \in Nat
      BY <2>1, FS_CardinalityType, Zenon DEF NoneForgotten
    <2>3. Cardinality(cache) < KnownCap
      BY <2>1, <2>2, BoundAssumption DEF NoneForgotten
    <2> QED
      BY <1>2, <2>3 DEF LruAdd
  <1> QED
    BY <1>1, <1>2

(* Steps after which nothing is undecided that was not, and nothing is     *)
(* accepted or known anew.                                                 *)
LEMMA OnceKept ==
  ASSUME OnceInv,
         pending' = pending, knownBlocks' = knownBlocks, accepted' = accepted,
         blockChan' = blockChan, secondChan' = secondChan, panicked' = panicked,
         \A p \in Proc, b \in Block : Holds(p, b)' => Holds(p, b),
         panicked => \A p \in Proc : pc'[p] # "requeue"
  PROVE  OnceInv'
  <1>1. ArrivesOnce'
    BY DEF OnceInv, ArrivesOnce
  <1>2. OnePlace'
    BY DEF OnceInv, OnePlace
  <1>3. \A b \in Block : Undecided(b)' => Undecided(b)
    BY DEF Undecided
  <1>4. \A b \in Block : Spent(b)' <=> Spent(b)
    BY DEF Spent
  <1> QED
    BY <1>1, <1>2, <1>3, <1>4 DEF OnceInv

LEMMA StepOnce ==
  ASSUME TakenOnce, IndInv, OnceInv, [Next]_vars
  PROVE  OnceInv'
  <1>0. /\ TypeOK /\ CurrentOK /\ LockHeld
        /\ Proc = {"process", "second"}
    BY DEF IndInv, Proc
  <1> USE <1>0
  <1>1. ASSUME NEW b \in Block, AppendBlock(b) PROVE OnceInv'
    <2>1. /\ \A c : Elem(blockChan', c) <=> Elem(blockChan, c) \/ c = b
          /\ Distinct(blockChan) /\ ~Elem(blockChan, b) => Distinct(blockChan')
      BY <1>1, AppendElem DEF TypeOK, AppendBlock
    <2>2. pending' = [pending EXCEPT ![b] = @ - 1] /\ pending[b] > 0
      BY <1>1 DEF AppendBlock
    <2>3. /\ pending \in [Block -> Nat]
          /\ pending'[b] = pending[b] - 1
          /\ \A c \in Block : c # b => pending'[c] = pending[c]
      BY <2>2 DEF TypeOK
    <2>4. ArrivesOnce'
      <3> SUFFICES ASSUME NoneRepeated
                   PROVE  /\ Distinct(blockChan')
                          /\ \A c \in Block : /\ pending'[c] <= 1
                                              /\ pending'[c] > 0 => ~Elem(blockChan', c)
        BY DEF ArrivesOnce
      <3>1. /\ Distinct(blockChan)
            /\ \A c \in Block : /\ pending[c] <= 1
                                /\ pending[c] > 0 => ~Elem(blockChan, c)
        BY DEF OnceInv, ArrivesOnce
      <3>2. Distinct(blockChan')
        BY <2>1, <2>2, <3>1
      <3>3. ASSUME NEW c \in Block PROVE pending'[c] <= 1 /\ (pending'[c] > 0 => ~Elem(blockChan', c))
        <4>1. CASE c = b
          BY <2>2, <2>3, <3>1, <4>1
        <4>2. CASE c # b
          BY <2>1, <2>3, <3>1, <4>2
        <4> QED
          BY <4>1, <4>2
      <3> QED
        BY <3>2, <3>3
    <2>5. /\ secondChan' = secondChan /\ pc' = pc /\ cur' = cur
          /\ knownBlocks' = knownBlocks /\ accepted' = accepted
          /\ panicked' = panicked
      BY <1>1 DEF AppendBlock
    <2>6. OnePlace' /\ \A c \in Block : Undecided(c)' <=> Undecided(c)
      BY <2>5 DEF OnceInv, OnePlace, Undecided, Holds
    <2>7. ASSUME NEW c \in Block, Spent(c) PROVE Spent(c)'
      <3>1. NoneRepeated => c # b
        BY <2>2, <2>7 DEF Spent
      <3>2. NoneRepeated => pending'[c] = 0 /\ ~Elem(blockChan', c)
        BY <2>1, <2>3, <2>7, <3>1 DEF Spent
      <3> QED
        BY <2>5, <2>7, <3>2 DEF Spent
    <2> QED
      BY <2>4, <2>5, <2>6, <2>7 DEF OnceInv
  <1>2. CASE ProcessDrop
    <2>1. /\ \A c : Elem(blockChan', c) => Elem(blockChan, c)
          /\ Distinct(blockChan) => Distinct(blockChan')
      BY <1>2, TailElem DEF TypeOK, ProcessDrop
    <2>2. /\ secondChan' = secondChan /\ pc' = pc /\ cur' = cur
          /\ knownBlocks' = knownBlocks /\ accepted' = accepted
          /\ panicked' = panicked /\ pending' = pending
      BY <1>2 DEF ProcessDrop
    <2>3. ArrivesOnce'
      BY <2>1, <2>2 DEF OnceInv, ArrivesOnce
    <2>4. OnePlace' /\ \A c \in Block : Undecided(c)' <=> Undecided(c)
      BY <2>2 DEF OnceInv, OnePlace, Undecided, Holds
    <2>5. \A c \in Block : Spent(c) => Spent(c)'
      BY <2>1, <2>2 DEF Spent
    <2> QED
      BY <2>2, <2>3, <2>4, <2>5 DEF OnceInv
  <1>3. CASE ProcessTake
    <2>0. PICK b \in Block : b = Head(blockChan)
      BY <1>3, TailElem DEF TypeOK, ProcessTake
    <2>1. /\ b \in Block
          /\ \A c : Elem(blockChan, c) <=> Elem(blockChan', c) \/ c = b
          /\ Distinct(blockChan) => Distinct(blockChan') /\ ~Elem(blockChan', b)
      BY <1>3, <2>0, TailElem DEF TypeOK, ProcessTake
    <2>2. /\ secondChan' = secondChan /\ accepted' = accepted
          /\ panicked' = panicked /\ pending' = pending /\ ~panicked
          /\ b \notin knownBlocks
          /\ NoneForgotten => knownBlocks' = knownBlocks \cup {b}
      BY <1>3, <2>0, KnownGrows DEF ProcessTake, TypeOK
    <2>3. /\ pc["process"] = "recv"
          /\ pc' = [pc EXCEPT !["process"] = "lock"]
          /\ cur' = [cur EXCEPT !["process"] = b]
      BY <1>3, <2>0 DEF ProcessTake
    <2>4. \A p \in Proc, c \in Block :
            /\ p = "process" => (Holds(p, c)' <=> c = b) /\ ~Holds(p, c)
            /\ p # "process" => (Holds(p, c)' <=> Holds(p, c))
      BY <2>3 DEF TypeOK, Holds
    <2>5. ~Spent(b)
      BY <2>1, <2>2 DEF TakenOnce, Spent
    <2>6. ~Undecided(b) /\ b \notin accepted
      BY <2>1, <2>5 DEF OnceInv
    <2>7. ArrivesOnce'
      BY <2>1, <2>2 DEF OnceInv, ArrivesOnce
    <2>8. OnePlace'
      BY <2>2, <2>4, <2>6, <2>1 DEF OnceInv, OnePlace, Undecided
    <2>9. \A c \in Block : Undecided(c)' => Undecided(c) \/ c = b
      BY <2>2, <2>4 DEF Undecided
    <2>10. \A c \in Block : Spent(c) => Spent(c)'
      BY <2>1, <2>2 DEF Spent
    <2>11. Spent(b)'
      <3>1. NoneRepeated => pending[b] \in Nat /\ ~(pending[b] > 0)
        BY <2>1 DEF OnceInv, ArrivesOnce, TypeOK
      <3>2. NoneRepeated => pending'[b] = 0 /\ ~Elem(blockChan', b)
        BY <2>1, <2>2, <3>1 DEF OnceInv, ArrivesOnce
      <3> QED
        BY <2>2, <3>2 DEF Spent
    <2>12. \A c \in Block : Undecided(c)' \/ c \in accepted' => Spent(c)'
      BY <2>2, <2>9, <2>10, <2>11 DEF OnceInv
    <2>13. \A c \in Block : Undecided(c)' => c \notin accepted'
      BY <2>2, <2>6, <2>9 DEF OnceInv
    <2> QED
      BY <2>2, <2>7, <2>8, <2>12, <2>13 DEF OnceInv
  <1>4. CASE SecondDrop
    <2>1. /\ \A c : Elem(secondChan', c) => Elem(secondChan, c)
          /\ Distinct(secondChan) => Distinct(secondChan')
      BY <1>4, TailElem DEF TypeOK, SecondDrop
    <2>2. /\ blockChan' = blockChan /\ pc' = pc /\ cur' = cur
          /\ knownBlocks' = knownBlocks /\ accepted' = accepted
          /\ panicked' = panicked /\ pending' = pending
      BY <1>4 DEF SecondDrop
    <2>3. ArrivesOnce' /\ \A c \in Block : Spent(c)' <=> Spent(c)
      BY <2>2 DEF OnceInv, ArrivesOnce, Spent
    <2>4. OnePlace' /\ \A c \in Block : Undecided(c)' => Undecided(c)
      BY <2>1, <2>2 DEF OnceInv, OnePlace, Undecided, Holds
    <2> QED
      BY <2>2, <2>3, <2>4 DEF OnceInv
  <1>5. CASE SecondTake
    <2> DEFINE b == Head(secondChan)
    <2>1. /\ b \in Block
          /\ \A c : Elem(secondChan, c) <=> Elem(secondChan', c) \/ c = b
          /\ Distinct(secondChan) => Distinct(secondChan') /\ ~Elem(secondChan', b)
      BY <1>5, TailElem DEF TypeOK, SecondTake
    <2>2. /\ blockChan' = blockChan /\ accepted' = accepted
          /\ panicked' = panicked /\ pending' = pending /\ ~panicked
          /\ knownBlocks' = knownBlocks
          /\ pc["second"] = "recv"
          /\ pc' = [pc EXCEPT !["second"] = "lock"]
          /\ cur' = [cur EXCEPT !["second"] = b]
      BY <1>5 DEF SecondTake
    <2> HIDE DEF b
    <2>3. \A p \in Proc, c \in Block :
            /\ p = "second" => (Holds(p, c)' <=> c = b) /\ ~Holds(p, c)
            /\ p # "second" => (Holds(p, c)' <=> Holds(p, c))
      BY <2>2 DEF TypeOK, Holds
    <2>4. ArrivesOnce' /\ \A c \in Block : Spent(c)' <=> Spent(c)
      BY <2>2 DEF OnceInv, ArrivesOnce, Spent
    <2>5. OnePlace'
      BY <2>1, <2>3 DEF OnceInv, OnePlace
    <2>6. \A c \in Block : Undecided(c)' <=> Undecided(c)
      BY <2>1, <2>3 DEF Undecided
    <2> QED
      BY <2>2, <2>4, <2>5, <2>6 DEF OnceInv
  <1>6. ASSUME NEW p \in Proc, Orphan(p) PROVE OnceInv'
    BY <1>6, OnceKept DEF Orphan, AtLock, chans, Holds, TypeOK
  <1>7. ASSUME NEW p \in Proc, Requeue(p) PROVE OnceInv'
    <2> DEFINE b == cur[p]
    <2>0. b \in Block /\ Holds(p, b)
      BY <1>7 DEF Requeue, CurrentOK, Holds
    <2>1. /\ \A c : Elem(secondChan', c) <=> Elem(secondChan, c) \/ c = b
          /\ Distinct(secondChan) /\ ~Elem(secondChan, b) => Distinct(secondChan')
      BY <1>7, <2>0, AppendElem DEF TypeOK, Requeue
    <2>2. /\ blockChan' = blockChan /\ accepted' = accepted
          /\ panicked' = panicked /\ pending' = pending /\ ~panicked
          /\ knownBlocks' = knownBlocks
          /\ pc' = [pc EXCEPT ![p] = "recv"] /\ cur' = [cur EXCEPT ![p] = Nil]
      BY <1>7 DEF Requeue, Release
    <2> HIDE DEF b
    <2>3. \A q \in Proc, c \in Block :
            /\ q = p => ~Holds(q, c)'
            /\ q # p => (Holds(q, c)' <=> Holds(q, c))
      BY <2>2 DEF TypeOK, Holds
    <2>4. ArrivesOnce' /\ \A c \in Block : Spent(c)' <=> Spent(c)
      BY <2>2 DEF OnceInv, ArrivesOnce, Spent
    <2>5. OnePlace'
      BY <2>0, <2>1, <2>3 DEF OnceInv, OnePlace
    <2>6. \A c \in Block : Undecided(c)' => Undecided(c)
      BY <2>0, <2>1, <2>3 DEF Undecided
    <2> QED
      BY <2>2, <2>4, <2>5, <2>6 DEF OnceInv
  <1>8. ASSUME NEW p \in Proc, LowPriority(p) PROVE OnceInv'
    BY <1>8, OnceKept DEF LowPriority, AtLock, Release, chans, Holds, TypeOK
  <1>9. ASSUME NEW p \in Proc, VdfReject(p) PROVE OnceInv'
    BY <1>9, OnceKept DEF VdfReject, AtLock, Release, chans, Holds, TypeOK
  <1>10. ASSUME NEW p \in Proc, AcceptNoPop(p) \/ AcceptPop(p) \/ PopPanic(p)
         PROVE  OnceInv'
    <2> DEFINE b == cur[p]
    <2>1. Select(p) /\ ~panicked /\ pc[p] = "lock" /\ b \in Block /\ Holds(p, b)
      BY <1>10 DEF AcceptNoPop, AcceptPop, PopPanic, Select, AtLock, CurrentOK, Holds
    <2>2. /\ blockChan' = blockChan /\ accepted' = accepted \cup {b}
          /\ pending' = pending /\ secondChan' = secondChan
          /\ knownBlocks' = knownBlocks /\ cur' = cur
      BY <2>1 DEF Select, chans
    <2>3. \/ panicked' /\ pc' = pc
          \/ \E v \in {"send", "seed"} : pc' = [pc EXCEPT ![p] = v]
      BY <1>10 DEF AcceptNoPop, AcceptPop, PopPanic
    <2>4. \A q \in Proc, c \in Block : Holds(q, c)' => Holds(q, c)
      BY <2>2, <2>3 DEF TypeOK, Holds
    <2>5. ~panicked' => \A c \in Block : ~Holds(p, c)'
      BY <2>2, <2>3 DEF TypeOK, Holds
    <2>6. ArrivesOnce' /\ \A c \in Block : Spent(c)' <=> Spent(c)
      BY <2>2 DEF OnceInv, ArrivesOnce, Spent
    <2>7. OnePlace' /\ \A c \in Block : Undecided(c)' => Undecided(c)
      BY <2>2, <2>4 DEF OnceInv, OnePlace, Undecided
    <2>8. ~panicked' => ~Undecided(b)'
      BY <2>1, <2>2, <2>4, <2>5 DEF OnceInv, OnePlace, Undecided
    <2>9. Undecided(b)
      BY <2>1 DEF Undecided
    <2>10. panicked' => \A q \in Proc : pc'[q] # "requeue"
      BY <2>1, <2>3, <1>10 DEF TypeOK, LockHeld, Select, AtLock, AcceptNoPop, AcceptPop, PopPanic
    <2> QED
      BY <2>1, <2>2, <2>6, <2>7, <2>8, <2>9, <2>10 DEF OnceInv
  <1>11. ASSUME NEW p \in Proc, SendPop(p) PROVE OnceInv'
    BY <1>11, OnceKept DEF SendPop, Holds, TypeOK
  <1>12. ASSUME NEW p \in Proc, AppendSeed(p) PROVE OnceInv'
    BY <1>12, OnceKept DEF AppendSeed, Release, chans, Holds, TypeOK
  <1>13. CASE ReceivePop
    BY <1>13, OnceKept DEF ReceivePop, Holds
  <1>14. CASE UNCHANGED vars
    BY <1>14, OnceKept DEF vars, chans, Holds, OnceInv
  <1> QED
    BY <1>1, <1>2, <1>3, <1>4, <1>5, <1>6, <1>7, <1>8, <1>9, <1>10, <1>11,
       <1>12, <1>13, <1>14
    DEF Next, Locked, Idle, Crashed

-----------------------------------------------------------------------------
(***************************************************************************)
(* The selected block is the best of the siblings that were compared: the  *)
(* siblings compared so far count only while their parent is in view, and  *)
(* then the block selected above the parent is one of them and none of     *)
(* them is better.  A parent that has left the view never comes back,      *)
(* because it would have to be accepted again.                             *)
(***************************************************************************)
InView(b, latest, s) == b = latest \/ s[Height[b]] = b

(* The blocks of A, compared with the window s above the block latest.     *)
BestAbove(A, latest, s) ==
  \A c \in A : InView(Prev[c], latest, s) /\ Height[c] > Height[latest]
    => s[Height[c]] # Nil /\ ~Better(c, s[Height[c]])
NoneBetter(A, latest, s) ==
  \A h \in Heights : h > Height[latest] /\ s[h] # Nil
    => \A c \in A : ~Better(c, s[h])

AcceptedOK(A, latest, s) ==
  /\ latest \in A \cup {Base} /\ Height[latest] >= Height[Base]
  /\ \A h \in Heights : s[h] # Nil => s[h] \in A
  /\ \A c \in A : Prev[c] \in A \cup {Base}

BestInv ==
  /\ AcceptedOK(accepted, latestBlock, selectedBlock)
  /\ ~panicked => BestAbove(accepted, latestBlock, selectedBlock)
  /\ NoneBetter(accepted, latestBlock, selectedBlock)

(* The window after a new block was compared, before any pop.              *)
LEMMA BestSelection ==
  ASSUME IndInv, BestInv, ~panicked,
         NEW b \in Block, Height[b] > 0, ParentInView(b), b \notin accepted
  PROVE  /\ AcceptedOK(accepted \cup {b}, latestBlock, Selection(b))
         /\ BestAbove(accepted \cup {b}, latestBlock, Selection(b))
         /\ NoneBetter(accepted \cup {b}, latestBlock, Selection(b))
  <1> DEFINE hb == Height[b]
             L == latestBlockHeight
             s == Selection(b)
             A == accepted
  <1>1. /\ hb > L /\ hb \in 1..MaxHeight
        /\ hb = L + 1 => Prev[b] = latestBlock
    BY AcceptableHeight
  <1>2. /\ MaxHeight \in Nat /\ Heights = 0..(MaxHeight + 1)
        /\ latestBlock \in Block /\ L \in 0..MaxHeight /\ L = Height[latestBlock]
        /\ selectedBlock \in [Heights -> Block \cup {Nil}]
        /\ A \subseteq Block /\ Nil \notin Block /\ Base \in Block
        /\ Prev \in [Block -> Block \cup {Nil}]
        /\ Height \in [Block -> 0..MaxHeight]
        /\ \A c \in Block : Prev[c] # Nil => Height[c] = Height[Prev[c]] + 1
    BY BlockAssumption DEF IndInv, TypeOK, HeightsMatch, Heights
  <1>3. /\ Prev[b] \in Block /\ hb = Height[Prev[b]] + 1
        /\ InView(Prev[b], latestBlock, selectedBlock)
        /\ Prev[b] \in A \cup {Base}
    <2>1. Prev[b] = latestBlock \/ (selectedBlock[hb - 1] # Nil /\ Prev[b] = selectedBlock[hb - 1])
      BY DEF ParentInView
    <2>2. hb - 1 \in Heights
      BY <1>1, <1>2
    <2>3. Prev[b] \in Block
      BY <1>2, <2>1, <2>2
    <2>4. hb = Height[Prev[b]] + 1 /\ Height[Prev[b]] = hb - 1
      BY <1>1, <1>2, <2>3
    <2>5. Prev[b] \in A \cup {Base}
      BY <2>1, <2>2 DEF BestInv, AcceptedOK
    <2> QED
      BY <2>1, <2>3, <2>4, <2>5 DEF InView
  <1>4. /\ \A c \in A : Prev[c] \in Block /\ Height[c] = Height[Prev[c]] + 1
        /\ \A c \in A : Prev[c] # b
        /\ \A h \in Heights : selectedBlock[h] # b
    <2>1. b # Base
      <3>1. L >= Height[Base]
        BY <1>2 DEF BestInv, AcceptedOK
      <3> QED
        BY <1>1, <1>2, <3>1
    <2>2. \A c \in A : Prev[c] \in Block
      BY <1>2 DEF BestInv, AcceptedOK
    <2>3. \A h \in Heights : selectedBlock[h] # b
      BY <1>2 DEF BestInv, AcceptedOK
    <2>4. \A c \in A : Prev[c] # b
      BY <2>1 DEF BestInv, AcceptedOK
    <2> QED
      BY <1>2, <2>2, <2>3, <2>4
  <1>5. \A h \in Heights : selectedBlock[h] # Nil => Height[selectedBlock[h]] = h
    BY DEF IndInv, HeightsMatch
  <1>6. /\ AcceptedOK(A, latestBlock, selectedBlock)
        /\ BestAbove(A, latestBlock, selectedBlock)
        /\ NoneBetter(A, latestBlock, selectedBlock)
    BY DEF BestInv
  <1>7. ~Better(b, b)
    BY BlockAssumption DEF Better
  <1>8. ASSUME NEW h \in Heights, h # hb, selectedBlock[h] # Nil
        PROVE  ~Better(b, selectedBlock[h])
    <2>1. selectedBlock[h] \in Block /\ Height[selectedBlock[h]] = h
      BY <1>2, <1>5, <1>8
    <2>2. Prev[selectedBlock[h]] = Prev[b] => h = hb
      BY <1>2, <1>3, <2>1
    <2> QED
      BY <1>8, <2>2 DEF Better
  <1>9. CASE Replaced(b)
    <2>1. /\ s \in [Heights -> Block \cup {Nil}]
          /\ s[hb] = b /\ s[hb + 1] = Nil
          /\ \A h \in Heights : h # hb /\ h # hb + 1 => s[h] = selectedBlock[h]
      BY <1>1, <1>2, <1>9, SMTT(30) DEF Selection, updateTreeView
    <2> HIDE DEF s
    <2>2. ASSUME NEW c \in A, Prev[c] = Prev[b]
          PROVE  ~Better(c, b) /\ selectedBlock[hb] # Nil
      <3>1. c \in Block /\ Height[c] = hb /\ InView(Prev[c], latestBlock, selectedBlock)
        BY <1>2, <1>3, <1>4, <2>2
      <3>2. selectedBlock[hb] # Nil /\ ~Better(c, selectedBlock[hb])
        BY <1>1, <1>2, <1>6, <3>1 DEF BestAbove
      <3>3. Outranks(b, selectedBlock[hb])
        BY <1>9, <3>2 DEF Replaced
      <3>4. selectedBlock[hb] \in Block
        BY <1>1, <1>2, <3>2
      <3> DEFINE x == selectedBlock[hb]
      <3> HIDE DEF x
      <3>5. /\ x \in Block /\ Prev[x] = Prev[b]
            /\ Outranks(b, x) /\ ~Better(c, x)
        BY <3>2, <3>3, <3>4 DEF x, Outranks
      <3>6. /\ Txs[x] \in Nat /\ Txs[b] \in Nat /\ Txs[c] \in Nat
            /\ Timestamp[x] \in Nat /\ Timestamp[b] \in Nat /\ Timestamp[c] \in Nat
        BY <3>1, <3>5, BlockAssumption
      <3>7. ~Better(c, b)
        BY <2>2, <3>5, <3>6 DEF Better, Outranks
      <3> QED
        BY <3>2, <3>7
    <2>3. AcceptedOK(A \cup {b}, latestBlock, s)
      <3>1. \A h \in Heights : s[h] # Nil => s[h] \in A \cup {b}
        BY <1>1, <1>2, <1>6, <2>1 DEF AcceptedOK
      <3> QED
        BY <1>3, <1>6, <3>1 DEF AcceptedOK
    <2>4. BestAbove(A \cup {b}, latestBlock, s)
      <3> SUFFICES ASSUME NEW c \in A \cup {b},
                          InView(Prev[c], latestBlock, s), Height[c] > Height[latestBlock]
                   PROVE  s[Height[c]] # Nil /\ ~Better(c, s[Height[c]])
        BY DEF BestAbove
      <3>1. CASE c = b
        BY <1>2, <1>7, <2>1, <3>1
      <3>2. CASE c \in A
        <4>1. /\ c \in Block /\ Prev[c] \in Block /\ Prev[c] # b
              /\ Height[c] = Height[Prev[c]] + 1
              /\ Height[c] \in Heights /\ Height[Prev[c]] \in Heights
          BY <1>2, <1>4, <3>2
        <4>2. CASE Height[c] = hb
          BY <1>2, <2>1, <2>2, <3>2, <4>2 DEF Better
        <4>3. CASE Height[c] = hb + 1
          <5>1. Height[Prev[c]] = hb
            BY <1>1, <1>2, <4>1, <4>3
          <5>2. Prev[c] # latestBlock
            BY <1>1, <1>2, <5>1
          <5> QED
            BY <2>1, <4>1, <5>1, <5>2 DEF InView
        <4>4. CASE Height[c] # hb /\ Height[c] # hb + 1
          <5>1. s[Height[c]] = selectedBlock[Height[c]]
            BY <2>1, <4>1, <4>4
          <5>2. InView(Prev[c], latestBlock, selectedBlock)
            <6>1. Height[Prev[c]] # hb
              BY <1>1, <1>2, <4>1, <4>4
            <6> QED
              BY <1>2, <2>1, <4>1, <6>1 DEF InView
          <5> QED
            BY <1>6, <3>2, <5>1, <5>2 DEF BestAbove
        <4> QED
          BY <4>2, <4>3, <4>4
      <3> QED
        BY <3>1, <3>2
    <2>5. NoneBetter(A \cup {b}, latestBlock, s)
      <3> SUFFICES ASSUME NEW h \in Heights, h > Height[latestBlock], s[h] # Nil,
                          NEW c \in A \cup {b}
                   PROVE  ~Better(c, s[h])
        BY DEF NoneBetter
      <3>1. CASE h = hb
        <4>1. s[h] = b
          BY <2>1, <3>1
        <4>2. c \in A /\ Prev[c] = Prev[b] => ~Better(c, b)
          BY <2>2
        <4> QED
          BY <1>7, <4>1, <4>2 DEF Better
      <3>2. CASE h # hb
        <4>1. s[h] = selectedBlock[h]
          BY <2>1, <3>2
        <4> QED
          BY <1>6, <1>8, <3>2, <4>1 DEF NoneBetter
      <3> QED
        BY <3>1, <3>2
    <2> QED
      BY <2>3, <2>4, <2>5 DEF s
  <1>10. CASE ~Replaced(b)
    <2>1. s = selectedBlock /\ selectedBlock[hb] # Nil /\ ~Outranks(b, selectedBlock[hb])
      BY <1>10 DEF Selection, Replaced
    <2> HIDE DEF s
    <2>2. Prev[selectedBlock[hb]] = Prev[b]
      <3>1. CASE Prev[b] = latestBlock
        <4>1. hb = L + 1
          BY <1>1, <1>2, <1>3, <3>1
        <4> QED
          BY <2>1, <3>1, <4>1 DEF IndInv, WindowLinked
      <3>2. CASE Prev[b] # latestBlock
        <4>1. /\ selectedBlock[hb - 1] = Prev[b] /\ selectedBlock[hb - 1] # Nil
              /\ hb - 1 \in Heights /\ hb - 1 >= L /\ (hb - 1) + 1 = hb /\ hb \in Heights
          BY <1>1, <1>2, <3>2 DEF ParentInView
        <4> QED
          BY <2>1, <4>1 DEF IndInv, WindowLinked
      <3> QED
        BY <3>1, <3>2
    <2>3. ~Better(b, selectedBlock[hb])
      <3> DEFINE x == selectedBlock[hb]
      <3>1. x \in Block
        BY <1>1, <1>2, <2>1
      <3> HIDE DEF x
      <3>2. /\ Txs[x] \in Nat /\ Txs[b] \in Nat
            /\ Timestamp[x] \in Nat /\ Timestamp[b] \in Nat
        BY <3>1, BlockAssumption
      <3>3. ~Outranks(b, x) /\ Prev[x] = Prev[b]
        BY <2>1, <2>2 DEF x
      <3>4. ~Better(b, x)
        BY <3>2, <3>3 DEF Outranks, Better
      <3> QED
        BY <3>4 DEF x
    <2>4. AcceptedOK(A \cup {b}, latestBlock, s)
      BY <1>3, <1>6, <2>1 DEF AcceptedOK
    <2>5. BestAbove(A \cup {b}, latestBlock, s)
      BY <1>6, <2>1, <2>3 DEF BestAbove
    <2>6. NoneBetter(A \cup {b}, latestBlock, s)
      BY <1>6, <1>8, <2>1, <2>3 DEF NoneBetter
    <2> QED
      BY <2>4, <2>5, <2>6 DEF s
  <1> QED
    BY <1>9, <1>10

(* The pop of the lowest selected block only takes parents out of view.    *)
LEMMA BestPopped ==
  ASSUME NEW A \in SUBSET Block, NEW L \in 0..MaxHeight, NEW latest \in Block,
         L = Height[latest],
         NEW s \in [Heights -> Block \cup {Nil}],
         \A c \in A : Prev[c] \in Block /\ Height[c] = Height[Prev[c]] + 1,
         \A h \in Heights : s[h] # Nil => Height[s[h]] = h,
         \A h \in Heights : h < L => s[h] = Nil,
         s[L + 1] # Nil,
         AcceptedOK(A, latest, s),
         BestAbove(A, latest, s), NoneBetter(A, latest, s)
  PROVE  /\ AcceptedOK(A, s[L + 1], [s EXCEPT ![L] = Nil])
         /\ BestAbove(A, s[L + 1], [s EXCEPT ![L] = Nil])
         /\ NoneBetter(A, s[L + 1], [s EXCEPT ![L] = Nil])
  <1> DEFINE x == s[L + 1]
             t == [s EXCEPT ![L] = Nil]
  <1>1. /\ MaxHeight \in Nat /\ Heights = 0..(MaxHeight + 1)
        /\ Height \in [Block -> 0..MaxHeight] /\ Nil \notin Block
        /\ Base \in Block
    BY BlockAssumption DEF Heights
  <1>2. /\ x \in Block /\ x \in A /\ Height[x] = L + 1
        /\ t \in [Heights -> Block \cup {Nil}]
        /\ t[L] = Nil
        /\ \A h \in Heights : h # L => t[h] = s[h]
    BY <1>1 DEF AcceptedOK
  <1>3. x = s[L + 1]
    OBVIOUS
  <1> HIDE DEF x, t
  <1>4. AcceptedOK(A, x, t)
    <2>1. Height[x] >= Height[Base]
      BY <1>1, <1>2 DEF AcceptedOK
    <2> QED
      BY <1>1, <1>2, <2>1 DEF AcceptedOK
  <1>5. BestAbove(A, x, t)
    <2> SUFFICES ASSUME NEW c \in A, InView(Prev[c], x, t), Height[c] > Height[x]
                 PROVE  t[Height[c]] # Nil /\ ~Better(c, t[Height[c]])
      BY DEF BestAbove
    <2>1. /\ Height[c] \in Heights /\ Height[c] # L /\ Height[c] > L
          /\ Prev[c] \in Block /\ Height[Prev[c]] \in Heights
      BY <1>1, <1>2
    <2>2. InView(Prev[c], latest, s)
      BY <1>1, <1>2, <1>3, <2>1 DEF InView
    <2> QED
      BY <1>2, <2>1, <2>2 DEF BestAbove
  <1>6. NoneBetter(A, x, t)
    <2> SUFFICES ASSUME NEW h \in Heights, h > Height[x], t[h] # Nil, NEW c \in A
                 PROVE  ~Better(c, t[h])
      BY DEF NoneBetter
    <2>1. h # L /\ h > L
      BY <1>1, <1>2
    <2> QED
      BY <1>2, <2>1 DEF NoneBetter
  <1> QED
    BY <1>4, <1>5, <1>6 DEF x, t

LEMMA InitBest == Init => BestInv
  BY BlockAssumption
  DEF Init, BestInv, AcceptedOK, BestAbove, NoneBetter, Heights

LEMMA StepBest ==
  ASSUME TakenOnce, IndInv, OnceInv, BestInv, [Next]_vars
  PROVE  BestInv'
  <1>1. ASSUME NEW p \in Proc, AcceptNoPop(p) \/ AcceptPop(p) \/ PopPanic(p)
        PROVE  BestInv'
    <2> DEFINE b == cur[p]
               s == Selection(b)
               A == accepted \cup {b}
               L == latestBlockHeight
    <2>1. /\ Select(p) /\ ~panicked /\ pc[p] = "lock" /\ ParentInView(b)
          /\ b \in Block /\ Height[b] > 0
      BY <1>1 DEF AcceptNoPop, AcceptPop, PopPanic, Select, AtLock, IndInv, CurrentOK
    <2>2. b \notin accepted
      BY <2>1 DEF OnceInv, Undecided, Holds
    <2>3. accepted' = A
      BY <2>1 DEF Select
    <2>4. /\ AcceptedOK(A, latestBlock, s)
          /\ BestAbove(A, latestBlock, s)
          /\ NoneBetter(A, latestBlock, s)
      BY <2>1, <2>2, BestSelection
    <2>5. CASE AcceptNoPop(p) \/ PopPanic(p)
      <3>1. /\ selectedBlock' = s /\ latestBlock' = latestBlock
        BY <2>5 DEF AcceptNoPop, PopPanic
      <3> QED
        BY <2>3, <2>4, <3>1 DEF BestInv
    <2>6. CASE AcceptPop(p)
      <3>1. /\ s[L + 1] # Nil /\ latestBlock' = s[L + 1]
            /\ selectedBlock' = [s EXCEPT ![L] = Nil]
        BY <2>6 DEF AcceptPop
      <3>2. WindowAfter(b, s)
        BY <2>1, SelectionWindow
      <3>3. /\ s \in [Heights -> Block \cup {Nil}]
            /\ \A h \in Heights : s[h] # Nil => Height[s[h]] = h
            /\ \A h \in Heights : h < L => s[h] = Nil
        BY <3>2 DEF WindowAfter
      <3>4. /\ L \in 0..MaxHeight /\ latestBlock \in Block /\ L = Height[latestBlock]
            /\ A \in SUBSET Block
        BY <2>1 DEF IndInv, TypeOK, HeightsMatch
      <3>5. \A c \in A : Prev[c] \in Block /\ Height[c] = Height[Prev[c]] + 1
        BY <2>4, <3>4, BlockAssumption DEF AcceptedOK
      <3> HIDE DEF s, A, L
      <3>6. /\ AcceptedOK(A, s[L + 1], [s EXCEPT ![L] = Nil])
            /\ BestAbove(A, s[L + 1], [s EXCEPT ![L] = Nil])
            /\ NoneBetter(A, s[L + 1], [s EXCEPT ![L] = Nil])
        BY <2>4, <3>1, <3>3, <3>4, <3>5, BestPopped
      <3> QED
        BY <2>3, <3>1, <3>6 DEF BestInv
    <2> QED
      BY <1>1, <2>5, <2>6
  <1>2. CASE UNCHANGED <<view, accepted, panicked>>
    BY <1>2 DEF view, BestInv
  <1>3. ASSUME ~(\E p \in Proc : AcceptNoPop(p) \/ AcceptPop(p) \/ PopPanic(p))
        PROVE  UNCHANGED <<view, accepted, panicked>>
    BY <1>3 DEF Next, Locked, Idle, Crashed, vars, AppendBlock, ProcessDrop,
                ProcessTake, SecondDrop, SecondTake, Orphan, Requeue,
                LowPriority, VdfReject, SendPop, AppendSeed, ReceivePop
  <1> QED
    BY <1>1, <1>2, <1>3

(***************************************************************************)
(* The selected block of a height is the best sibling that was compared,   *)
(* for every block tree and every order of the two goroutines, as long as  *)
(* no block is looked at twice.  Without that hypothesis it is not: a      *)
(* block that comes again after its hash left knownBlocks ties with        *)
(* itself, which clears the height above it for a worse child.             *)
(***************************************************************************)
THEOREM BestSelected ==
  ASSUME TakenOnce
  PROVE  Spec => []SelectedIsBest
  <1>1. Init => IndInv /\ OnceInv /\ BestInv
    BY InitInv, InitOnce, InitBest
  <1>2. IndInv /\ OnceInv /\ BestInv /\ [Next]_vars => (IndInv /\ OnceInv /\ BestInv)'
    BY StepInv, StepOnce, StepBest
  <1>3. IndInv /\ BestInv => SelectedIsBest
    BY DEF IndInv, HeightsMatch, BestInv, NoneBetter, SelectedIsBest
  <1> QED
    BY <1>1, <1>2, <1>3, PTL DEF Spec

-----------------------------------------------------------------------------
(***************************************************************************)
(* The orphans in secondChan are distinct and not decided yet, so the      *)
(* blocks that can be orphans bound their number.                          *)
(***************************************************************************)
Requeued(b) == Elem(secondChan, b) \/ \E p \in Proc : pc[p] = "requeue" /\ cur[p] = b

RoomInv ==
  /\ latestBlockHeight >= Height[Base]
  /\ \A b \in Block : Undecided(b) \/ b \in accepted => Height[b] > Height[Base]
  /\ latestBlock = Base => \A b \in Block : Requeued(b) => Prev[b] # Base
  /\ latestBlock # Base =>
       /\ latestBlock \in accepted
       /\ \E c \in accepted : Height[c] > latestBlockHeight

LEMMA InitRoom == Init => RoomInv
  BY BlockAssumption, SMTT(30)
  DEF Init, RoomInv, Undecided, Holds, Requeued, Elem

LEMMA RoomKept ==
  ASSUME RoomInv, UNCHANGED <<view, accepted>>,
         \A b \in Block : Undecided(b)' => Undecided(b),
         latestBlock = Base => \A b \in Block : Requeued(b)' => Requeued(b) \/ Prev[b] # Base
  PROVE  RoomInv'
  BY DEF RoomInv, view

LEMMA StepRoom ==
  ASSUME IndInv, OnceInv, BestInv, RoomInv, [Next]_vars
  PROVE  RoomInv'
  <1>0. /\ TypeOK /\ CurrentOK /\ LockHeld
        /\ Proc = {"process", "second"}
        /\ MaxHeight \in Nat /\ Base \in Block /\ MaxBufferSize \in Nat \ {0}
        /\ Height \in [Block -> 0..MaxHeight]
        /\ latestBlockHeight \in 0..MaxHeight
    BY BlockAssumption, BoundAssumption DEF IndInv, Proc, TypeOK
  <1> USE <1>0
  <1>1. ASSUME NEW b \in Block, AppendBlock(b) PROVE RoomInv'
    BY <1>1, RoomKept DEF AppendBlock, Undecided, Requeued, Holds
  <1>2. CASE ProcessDrop
    BY <1>2, RoomKept DEF ProcessDrop, Undecided, Requeued, Holds
  <1>3. CASE ProcessTake
    <2>0. PICK b \in Block : b = Head(blockChan)
      BY <1>3, TailElem DEF TypeOK, ProcessTake
    <2>1. /\ secondChan' = secondChan /\ UNCHANGED <<view, accepted>>
          /\ Height[b] > latestBlockHeight
          /\ pc["process"] = "recv"
          /\ pc' = [pc EXCEPT !["process"] = "lock"]
          /\ cur' = [cur EXCEPT !["process"] = b]
      BY <1>3, <2>0 DEF ProcessTake
    <2>2. \A p \in Proc, c \in Block : Holds(p, c)' => Holds(p, c) \/ c = b
      BY <2>1 DEF TypeOK, Holds
    <2>3. \A p \in Proc : pc'[p] = "requeue" => pc[p] = "requeue" /\ cur'[p] = cur[p]
      BY <2>1 DEF TypeOK
    <2>4. \A c \in Block : Undecided(c)' => Undecided(c) \/ c = b
      BY <2>1, <2>2 DEF Undecided
    <2>5. \A c \in Block : Requeued(c)' => Requeued(c)
      BY <2>1, <2>3 DEF Requeued
    <2>6. Height[b] > Height[Base]
      BY <2>1 DEF RoomInv
    <2> QED
      BY <2>1, <2>4, <2>5, <2>6 DEF RoomInv, view
  <1>4. CASE SecondDrop
    <2>1. \A c : Elem(secondChan', c) => Elem(secondChan, c)
      BY <1>4, TailElem DEF TypeOK, SecondDrop
    <2>2. pc' = pc /\ cur' = cur /\ UNCHANGED <<view, accepted>>
      BY <1>4 DEF SecondDrop
    <2>3. \A c \in Block : /\ Undecided(c)' => Undecided(c)
                           /\ Requeued(c)' => Requeued(c)
      BY <2>1, <2>2 DEF Undecided, Requeued, Holds
    <2> QED
      BY <2>2, <2>3, RoomKept
  <1>5. CASE SecondTake
    <2>0. PICK b \in Block : b = Head(secondChan)
      BY <1>5, TailElem DEF TypeOK, SecondTake
    <2>1. /\ \A c : Elem(secondChan', c) => Elem(secondChan, c)
          /\ Elem(secondChan, b)
      BY <1>5, <2>0, TailElem DEF TypeOK, SecondTake
    <2>2. /\ UNCHANGED <<view, accepted>>
          /\ pc["second"] = "recv"
          /\ pc' = [pc EXCEPT !["second"] = "lock"]
          /\ cur' = [cur EXCEPT !["second"] = b]
      BY <1>5, <2>0 DEF SecondTake
    <2>3. \A p \in Proc, c \in Block : Holds(p, c)' => Holds(p, c) \/ c = b
      BY <2>2 DEF TypeOK, Holds
    <2>4. \A p \in Proc : pc'[p] = "requeue" => pc[p] = "requeue" /\ cur'[p] = cur[p]
      BY <2>2 DEF TypeOK
    <2>5. \A c \in Block : /\ Undecided(c)' => Undecided(c)
                           /\ Requeued(c)' => Requeued(c)
      BY <2>1, <2>3, <2>4 DEF Undecided, Requeued
    <2> QED
      BY <2>2, <2>5, RoomKept
  <1>6. ASSUME NEW p \in Proc, Orphan(p) PROVE RoomInv'
    <2>1. /\ UNCHANGED <<view, accepted>> /\ secondChan' = secondChan
          /\ pc[p] = "lock" /\ pc' = [pc EXCEPT ![p] = "requeue"] /\ cur' = cur
          /\ Prev[cur[p]] # latestBlock
      BY <1>6 DEF Orphan, AtLock, chans, ParentInView
    <2>2. \A q \in Proc, c \in Block : Holds(q, c)' => Holds(q, c)
      BY <2>1 DEF TypeOK, Holds
    <2>3. \A q \in Proc : pc'[q] = "requeue" => pc[q] = "requeue" \/ q = p
      BY <2>1 DEF TypeOK
    <2>4. \A c \in Block : /\ Undecided(c)' => Undecided(c)
                           /\ Requeued(c)' => Requeued(c) \/ c = cur[p]
      BY <2>1, <2>2, <2>3 DEF Undecided, Requeued
    <2> QED
      BY <2>1, <2>4, RoomKept
  <1>7. ASSUME NEW p \in Proc, Requeue(p) PROVE RoomInv'
    <2>0. cur[p] \in Block /\ pc[p] = "requeue"
      BY <1>7 DEF Requeue, CurrentOK
    <2>1. \A c : Elem(secondChan', c) <=> Elem(secondChan, c) \/ c = cur[p]
      BY <1>7, <2>0, AppendElem DEF TypeOK, Requeue
    <2>2. /\ UNCHANGED <<view, accepted>>
          /\ pc' = [pc EXCEPT ![p] = "recv"] /\ cur' = [cur EXCEPT ![p] = Nil]
      BY <1>7 DEF Requeue, Release
    <2>3. \A q \in Proc, c \in Block : Holds(q, c)' => Holds(q, c)
      BY <2>2 DEF TypeOK, Holds
    <2>4. \A q \in Proc : pc'[q] = "requeue" => pc[q] = "requeue" /\ cur'[q] = cur[q]
      BY <2>2 DEF TypeOK
    <2>5. \A c \in Block : /\ Undecided(c)' => Undecided(c)
                           /\ Requeued(c)' => Requeued(c)
      BY <2>0, <2>1, <2>3, <2>4 DEF Undecided, Requeued, Holds
    <2> QED
      BY <2>2, <2>5, RoomKept
  <1>8. ASSUME NEW p \in Proc, LowPriority(p) \/ VdfReject(p) \/ AppendSeed(p)
        PROVE  RoomInv'
    <2>1. /\ UNCHANGED <<view, accepted>> /\ secondChan' = secondChan
          /\ pc' = [pc EXCEPT ![p] = "recv"] /\ cur' = [cur EXCEPT ![p] = Nil]
      BY <1>8 DEF LowPriority, VdfReject, AppendSeed, Release, chans
    <2>2. \A q \in Proc, c \in Block : Holds(q, c)' => Holds(q, c)
      BY <2>1 DEF TypeOK, Holds
    <2>3. \A q \in Proc : pc'[q] = "requeue" => pc[q] = "requeue" /\ cur'[q] = cur[q]
      BY <2>1 DEF TypeOK
    <2>4. \A c \in Block : /\ Undecided(c)' => Undecided(c)
                           /\ Requeued(c)' => Requeued(c)
      BY <2>1, <2>2, <2>3 DEF Undecided, Requeued
    <2> QED
      BY <2>1, <2>4, RoomKept
  <1>9. ASSUME NEW p \in Proc, AcceptNoPop(p) \/ AcceptPop(p) \/ PopPanic(p)
        PROVE  RoomInv'
    <2> DEFINE b == cur[p]
    <2>1. /\ Select(p) /\ ~panicked /\ pc[p] = "lock" /\ ParentInView(b)
          /\ b \in Block /\ Height[b] > 0 /\ Holds(p, b)
      BY <1>9 DEF AcceptNoPop, AcceptPop, PopPanic, Select, AtLock, CurrentOK, Holds
    <2>2. accepted' = accepted \cup {b} /\ secondChan' = secondChan /\ cur' = cur
      BY <2>1 DEF Select, chans
    <2>3. pc' = pc \/ \E v \in {"send", "seed"} : pc' = [pc EXCEPT ![p] = v]
      BY <1>9 DEF AcceptNoPop, AcceptPop, PopPanic
    <2>4. \A q \in Proc, c \in Block : Holds(q, c)' => Holds(q, c)
      BY <2>2, <2>3 DEF TypeOK, Holds
    <2>5. \A q \in Proc : pc'[q] = "requeue" => pc[q] = "requeue"
      BY <2>3 DEF TypeOK
    <2>6. \A c \in Block : /\ Undecided(c)' => Undecided(c)
                           /\ Requeued(c)' => Requeued(c)
      BY <2>2, <2>4, <2>5 DEF Undecided, Requeued
    <2>7. \A c \in Block : Undecided(c)' \/ c \in accepted' => Height[c] > Height[Base]
      <3>1. Undecided(b)
        BY <2>1 DEF Undecided
      <3> QED
        BY <2>1, <2>2, <2>6, <3>1 DEF RoomInv
    <2>8. CASE AcceptNoPop(p) \/ PopPanic(p)
      <3>1. latestBlock' = latestBlock /\ latestBlockHeight' = latestBlockHeight
        BY <2>8 DEF AcceptNoPop, PopPanic
      <3> QED
        BY <2>2, <2>6, <2>7, <3>1 DEF RoomInv
    <2>9. CASE AcceptPop(p)
      <3> DEFINE s == Selection(b)
      <3>1. /\ MustPop(b)
            /\ latestBlockHeight' = latestBlockHeight + 1
            /\ s[latestBlockHeight + 1] # Nil
            /\ latestBlock' = s[latestBlockHeight + 1]
        BY <2>9 DEF AcceptPop
      <3>2. WindowAfter(b, s)
        BY <2>1, SelectionWindow
      <3>3. Height[latestBlock'] = latestBlockHeight + 1 /\ latestBlock' \in Block
        <4>1. latestBlockHeight + 1 \in Heights
          BY DEF Heights
        <4> QED
          BY <3>1, <3>2, <4>1, BlockAssumption DEF WindowAfter
      <3>4. latestBlock' # Base
        BY <3>3 DEF RoomInv
      <3>5. b \notin accepted
        BY <2>1 DEF OnceInv, Undecided
      <3>6. latestBlock' \in accepted'
        <4>1. AcceptedOK(accepted \cup {b}, latestBlock, s)
          BY <2>1, <3>5, BestSelection
        <4>2. latestBlockHeight + 1 \in Heights
          BY DEF Heights
        <4> QED
          BY <2>2, <3>1, <4>1, <4>2 DEF AcceptedOK
      <3>7. Height[b] > latestBlockHeight'
        BY <2>1, <3>1 DEF MustPop
      <3>8. latestBlockHeight' >= Height[Base]
        BY <3>1 DEF RoomInv
      <3> QED
        BY <2>2, <2>7, <3>4, <3>6, <3>7, <3>8 DEF RoomInv
    <2> QED
      BY <1>9, <2>8, <2>9
  <1>10. ASSUME NEW p \in Proc, SendPop(p) PROVE RoomInv'
    <2>1. /\ UNCHANGED <<view, accepted>> /\ secondChan' = secondChan
          /\ pc[p] = "send" /\ pc' = [pc EXCEPT ![p] = "seed"] /\ cur' = cur
      BY <1>10 DEF SendPop
    <2>2. \A q \in Proc, c \in Block : Holds(q, c)' => Holds(q, c)
      BY <2>1 DEF TypeOK, Holds
    <2>3. \A q \in Proc : pc'[q] = "requeue" => pc[q] = "requeue"
      BY <2>1 DEF TypeOK
    <2>4. \A c \in Block : /\ Undecided(c)' => Undecided(c)
                           /\ Requeued(c)' => Requeued(c)
      BY <2>1, <2>2, <2>3 DEF Undecided, Requeued
    <2> QED
      BY <2>1, <2>4, RoomKept
  <1>11. CASE ReceivePop
    BY <1>11, RoomKept DEF ReceivePop, Undecided, Requeued, Holds
  <1>12. CASE UNCHANGED vars
    BY <1>12, RoomKept DEF vars, chans, view, Undecided, Requeued, Holds
  <1> QED
    BY <1>1, <1>2, <1>3, <1>4, <1>5, <1>6, <1>7, <1>8, <1>9, <1>10, <1>11, <1>12
    DEF Next, Locked, Idle, Crashed

(* A set that holds the block being requeued and all of secondChan.        *)
LEMMA RoomBound ==
  ASSUME TypeOK, OnePlace, NEW p \in Proc, pc[p] = "requeue", cur[p] \in Block,
         NEW T, IsFiniteSet(T), \A b \in Block : Requeued(b) => b \in T
  PROVE  Len(secondChan) + 1 <= Cardinality(T)
  <1> DEFINE n == Len(secondChan)
             f == [i \in 1..(n + 1) |-> IF i \in 1..n THEN secondChan[i] ELSE cur[p]]
  <1>1. n \in Nat /\ \A i \in 1..n : secondChan[i] \in Block
    BY DEF TypeOK
  <1>2. /\ \A i \in 1..n : secondChan[i] \in T /\ secondChan[i] # cur[p]
        /\ cur[p] \in T
    BY <1>1 DEF Requeued, OnePlace, Holds, Elem
  <1>3. \A i, j \in 1..n : secondChan[i] = secondChan[j] => i = j
    BY DEF OnePlace, Distinct
  <1> HIDE DEF n
  <1>4. f \in Injection(1..(n + 1), T)
    <2>1. f \in [1..(n + 1) -> T]
      BY <1>1, <1>2
    <2>2. \A i, j \in 1..(n + 1) : f[i] = f[j] => i = j
      BY <1>1, <1>2, <1>3
    <2> QED
      BY <2>1, <2>2 DEF Injection, IsInjective
  <1> HIDE DEF f
  <1>5. Cardinality(1..(n + 1)) <= Cardinality(T)
    BY <1>4, FS_Injection
  <1>6. Cardinality(1..(n + 1)) = n + 1
    BY <1>1, FS_Interval
  <1> QED
    BY <1>5, <1>6 DEF n

LEMMA RoomLeft ==
  ASSUME RoomForOrphans, IndInv, OnceInv, RoomInv
  PROVE  SecondQueueHasRoom
  <1> SUFFICES ASSUME NEW p \in Proc, pc[p] = "requeue"
               PROVE  Len(secondChan) < SecondQueueCap
    BY DEF SecondQueueHasRoom
  <1>1. /\ TypeOK /\ OnePlace /\ ~panicked /\ cur[p] \in Block
        /\ Len(secondChan) \in Nat /\ SecondQueueCap \in Nat
    BY BoundAssumption DEF IndInv, TypeOK, CurrentOK, OnceInv
  <1>2. \A b \in Block : Requeued(b) => Undecided(b)
    BY DEF Requeued, Undecided, Holds
  <1>3. \A b \in Block : Requeued(b) => b # Base /\ b \notin accepted
    <2>1. ~(Height[Base] > Height[Base])
      BY BlockAssumption
    <2> QED
      BY <1>1, <1>2, <2>1 DEF RoomInv, OnceInv
  <1>4. CASE latestBlock = Base
    <2> DEFINE T == {b \in Block \ {Base} : Prev[b] # Base}
    <2>1. IsFiniteSet(T) /\ Cardinality(T) \in Nat
      BY FS_Subset, FS_CardinalityType DEF RoomForOrphans
    <2>2. \A b \in Block : Requeued(b) => b \in T
      BY <1>3, <1>4 DEF RoomInv
    <2>3. Cardinality(T) <= SecondQueueCap
      BY DEF RoomForOrphans
    <2> HIDE DEF T
    <2>4. Len(secondChan) + 1 <= Cardinality(T)
      BY <1>1, <2>1, <2>2, RoomBound
    <2> QED
      BY <1>1, <2>1, <2>3, <2>4
  <1>5. CASE latestBlock # Base
    <2>1. PICK c \in accepted : Height[c] > latestBlockHeight
      BY <1>5 DEF RoomInv
    <2>2. /\ c \in Block /\ latestBlock \in Block /\ Base \in Block
          /\ latestBlock \in accepted
          /\ latestBlock # Base /\ c # Base /\ c # latestBlock
      <3>1. c \in Block /\ latestBlock \in Block /\ Base \in Block
        BY BlockAssumption DEF IndInv, TypeOK
      <3>2. /\ Height[c] \in Nat /\ Height[latestBlock] \in Nat /\ Height[Base] \in Nat
            /\ latestBlockHeight = Height[latestBlock]
            /\ Height[c] > Height[Base]
        BY <2>1, <3>1, BlockAssumption DEF IndInv, HeightsMatch, RoomInv
      <3> QED
        BY <1>5, <2>1, <3>1, <3>2 DEF RoomInv
    <2> DEFINE T1 == Block \ {Base}
               T2 == T1 \ {latestBlock}
               T3 == T2 \ {c}
    <2>3. IsFiniteSet(Block) /\ Cardinality(Block) \in Nat
      BY FS_CardinalityType DEF RoomForOrphans
    <2>4. IsFiniteSet(T1) /\ Cardinality(T1) = Cardinality(Block) - 1
      BY <2>2, <2>3, FS_RemoveElement
    <2>5. IsFiniteSet(T2) /\ Cardinality(T2) = Cardinality(T1) - 1
      BY <2>2, <2>4, FS_RemoveElement
    <2>6. IsFiniteSet(T3) /\ Cardinality(T3) = Cardinality(T2) - 1
      BY <2>2, <2>5, FS_RemoveElement
    <2>7. \A b \in Block : Requeued(b) => b \in T3
      BY <1>3, <2>1, <2>2
    <2> HIDE DEF T1, T2, T3
    <2>8. Len(secondChan) + 1 <= Cardinality(T3)
      BY <1>1, <2>6, <2>7, RoomBound
    <2>9. Cardinality(Block) <= SecondQueueCap + 3
      BY DEF RoomForOrphans
    <2> QED
      BY <1>1, <2>3, <2>4, <2>5, <2>6, <2>8, <2>9
  <1> QED
    BY <1>4, <1>5

(***************************************************************************)
(* A goroutine never waits, with updateLock held, for room in the channel  *)
(* that secondProcess empties, for every block tree whose orphans fit      *)
(* (RoomForOrphans) and of which no block is looked at twice.              *)
(***************************************************************************)
THEOREM OrphansHaveRoom ==
  ASSUME TakenOnce, RoomForOrphans
  PROVE  Spec => []SecondQueueHasRoom
  <1> DEFINE I == IndInv /\ OnceInv /\ BestInv /\ RoomInv
  <1>1. Init => I
    BY InitInv, InitOnce, InitBest, InitRoom
  <1>2. I /\ [Next]_vars => I'
    BY StepInv, StepOnce, StepBest, StepRoom
  <1>3. I => SecondQueueHasRoom
    BY RoomLeft
  <1> QED
    BY <1>1, <1>2, <1>3, PTL DEF Spec
=============================================================================
