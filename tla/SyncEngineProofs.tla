-------------------------- MODULE SyncEngineProofs --------------------------
(***************************************************************************)
(* Theorems of SyncEngine, for every number of instances, batch size,      *)
(* confirmation depth and bound: first what holds of any instances, in the *)
(* last part what holds of one.                                            *)
(***************************************************************************)
EXTENDS SyncEngine, TableLemmas

(* No block has the hash that stands for undefined.                        *)
LEMMA HashIsNotNone ==
  ASSUME NEW h \in Hash
  PROVE  h # NoHash
<1>1. PICK n \in Heights, f \in 0..MaxFork : h = <<n, f>>
  BY DEF Hash
<1>2. QED
  BY <1>1 DEF NoHash

USE ChainAssumption, EngineAssumption

-----------------------------------------------------------------------------
(* Type correctness.                                                       *)

(* The part of the type invariant that is local to the instances.          *)
LocalTypeOK ==
  /\ lock \in Instances \cup {NoInstance}
  /\ pc \in [Instances -> Labels]
  /\ startup \in [Instances -> BOOLEAN]
  /\ errors \in [Instances -> 0..(MaxErrors - 1)]
  /\ gaps \in [Instances -> SUBSET (Heights \X Heights)]
  /\ startBlock \in [Instances -> 0..(MaxHeight + 1)]
  /\ targetBlock \in [Instances -> Heights]
  /\ endBlock \in [Instances -> Heights]
  /\ expectedParent \in [Instances -> Hash \cup {NoHash}]
  /\ toFetch \in [Instances -> SUBSET Heights]
  /\ blocksToSave \in [Instances -> SUBSET Block]
  /\ reorgAt \in [Instances -> Heights \cup {NoBlock}]
  /\ logs \in [Instances -> SUBSET Hash]

LEMMA TypeParts ==
  TypeOK <=> /\ ChainTypeOK
             /\ peak \in Heights
             /\ before \subseteq Heights
             /\ blocks \subseteq Block
             /\ transfers \subseteq Hash
             /\ checkpointed \in BOOLEAN
             /\ LocalTypeOK
             /\ faults \in 0..MaxFaults
BY DEF TypeOK, LocalTypeOK

LEMMA ForgetBatchType ==
  ASSUME LocalTypeOK, NEW i \in Instances, ForgetBatch(i)
  PROVE  /\ startBlock' \in [Instances -> 0..(MaxHeight + 1)]
         /\ targetBlock' \in [Instances -> Heights]
         /\ endBlock' \in [Instances -> Heights]
         /\ expectedParent' \in [Instances -> Hash \cup {NoHash}]
         /\ toFetch' \in [Instances -> SUBSET Heights]
         /\ blocksToSave' \in [Instances -> SUBSET Block]
         /\ reorgAt' \in [Instances -> Heights \cup {NoBlock}]
         /\ logs' \in [Instances -> SUBSET Hash]
BY DEF LocalTypeOK, ForgetBatch, Heights

LEMMA ExitType ==
  ASSUME LocalTypeOK, NEW i \in Instances, Exit(i)
  PROVE  LocalTypeOK'
<1>1. /\ lock' \in Instances \cup {NoInstance}
      /\ pc' \in [Instances -> Labels]
      /\ startup' \in [Instances -> BOOLEAN]
      /\ errors' \in [Instances -> 0..(MaxErrors - 1)]
      /\ gaps' \in [Instances -> SUBSET (Heights \X Heights)]
  BY DEF LocalTypeOK, Exit, Unlock, Goto, Labels
<1>2. ForgetBatch(i)
  BY DEF Exit
<1>3. QED
  BY <1>1, <1>2, ForgetBatchType DEF LocalTypeOK

LEMMA ThrowsType ==
  ASSUME LocalTypeOK, NEW i \in Instances, Throws(i)
  PROVE  LocalTypeOK'
<1>1. CASE startup[i] \/ TooManyErrors(i)
  BY <1>1, ExitType DEF Throws
<1>2. CASE ~ (startup[i] \/ TooManyErrors(i))
  <2>1. errors[i] + 1 \in 0..(MaxErrors - 1)
    BY <1>2 DEF LocalTypeOK, TooManyErrors
  <2>2. /\ Goto(i, "max") /\ ForgetBatch(i)
        /\ errors' = [errors EXCEPT ![i] = @ + 1]
        /\ UNCHANGED <<lock, startup, gaps>>
    BY <1>2 DEF Throws
  <2>3. QED
    BY <2>1, <2>2, ForgetBatchType DEF LocalTypeOK, Goto, Labels
<1>3. QED
  BY <1>1, <1>2

LEMMA SyncReturnsType ==
  ASSUME LocalTypeOK, NEW i \in Instances, SyncReturns(i)
  PROVE  LocalTypeOK'
<1>1. /\ lock' \in Instances \cup {NoInstance}
      /\ pc' \in [Instances -> Labels]
      /\ startup' \in [Instances -> BOOLEAN]
      /\ errors' \in [Instances -> 0..(MaxErrors - 1)]
      /\ gaps' \in [Instances -> SUBSET (Heights \X Heights)]
  BY DEF LocalTypeOK, SyncReturns, Unlock, Goto, Labels
<1>2. ForgetBatch(i)
  BY DEF SyncReturns
<1>3. QED
  BY <1>1, <1>2, ForgetBatchType DEF LocalTypeOK

LEMMA BeginBatchType ==
  ASSUME LocalTypeOK, NEW i \in Instances, NEW first \in 0..(MaxHeight + 1),
         NEW last \in Heights, NEW parent \in Hash \cup {NoHash},
         BeginBatch(i, first, last, parent),
         UNCHANGED <<targetBlock, lock, startup, errors, gaps>>
  PROVE  LocalTypeOK'
<1>1. first..last \subseteq Heights
  BY DEF Heights
<1>2. QED
  BY <1>1 DEF LocalTypeOK, BeginBatch, Goto, Labels

(* Below the greatest stored number there is a next one.                   *)
LEMMA NextNumber ==
  ASSUME NEW rows \in SUBSET Block, NEW b \in rows, b.number < MaxNumber(rows)
  PROVE  LET above == {n \in Numbers(rows) : n > b.number}
         IN Min(above) \in above /\ \A n \in above : Min(above) <= n
<1> DEFINE above == {n \in Numbers(rows) : n > b.number}
<1>1. above \in SUBSET Nat /\ above # {}
  BY MaxNumberOfNonEmpty DEF Numbers, Block, Heights
<1> HIDE DEF above
<1>2. \E m \in above : \A n \in above : m <= n
  BY <1>1, LeastElement
<1>3. Min(above) \in above /\ \A n \in above : Min(above) <= n
  BY <1>2 DEF Min
<1>4. QED
  BY <1>3 DEF above

(* A gap lies between two stored rows.                                     *)
LEMMA GapsOfType ==
  ASSUME NEW rows \in SUBSET Block
  PROVE  GapsOf(rows) \subseteq Heights \X Heights
<1> SUFFICES ASSUME NEW g \in GapsOf(rows)
             PROVE  g \in Heights \X Heights
  OBVIOUS
<1> DEFINE above(b) == {n \in Numbers(rows) : n > b.number}
<1>1. PICK b \in rows : /\ b.number < MaxNumber(rows)
                        /\ g = <<b.number + 1, Min(above(b)) - 1>>
  BY DEF GapsOf
<1>2. Min(above(b)) \in Numbers(rows) /\ Min(above(b)) > b.number
  BY <1>1, NextNumber
<1>3. Min(above(b)) \in Heights /\ b.number \in Heights
  BY <1>2 DEF Numbers, Block
<1>4. b.number + 1 \in Heights /\ Min(above(b)) - 1 \in Heights
  BY <1>2, <1>3 DEF Heights
<1>5. QED
  BY <1>1, <1>4

LEMMA SmallerProperty ==
  ASSUME NEW m \in Heights, NEW n \in Heights
  PROVE  /\ Smaller(m, n) \in Heights
         /\ Smaller(m, n) <= m
         /\ Smaller(m, n) <= n
BY DEF Smaller, Heights

LEMMA TargetProperty ==
  ASSUME NEW tip \in Heights
  PROVE  /\ Target(tip) \in Heights
         /\ Target(tip) = 0 \/ Target(tip) + ConfirmationDepth <= tip
BY DEF Target, Heights

LEMMA BatchEndProperty ==
  ASSUME NEW first \in 0..(MaxHeight + 1), NEW target \in Heights, first <= target
  PROVE  /\ BatchEnd(first, target) \in Heights
         /\ BatchEnd(first, target) <= target
         /\ first <= BatchEnd(first, target)
<1>1. BatchSize \in Nat \ {0}
  OBVIOUS
<1>2. QED
  BY <1>1 DEF BatchEnd, Smaller, Heights

LEMMA ParentHashType ==
  ASSUME TypeOK, NEW i \in Instances
  PROVE  ParentHash(i) \in Hash \cup {NoHash}
BY DEF TypeOK, ParentHash, ParentRow, Block

(* Once every fetch has ended the blocks of the batch are there.           *)
BatchComplete ==
  \A i \in Instances :
    /\ pc[i] = "fetch" =>
         toFetch[i] \cup Numbers(blocksToSave[i]) = startBlock[i]..endBlock[i]
    /\ pc[i] \in {"logs", "commit"} =>
         Numbers(blocksToSave[i]) = startBlock[i]..endBlock[i]
    /\ pc[i] \in {"fetch", "logs", "commit"} => startBlock[i] <= endBlock[i]

(* syncToTip reads the parent, and goes on, below its target only.         *)
BelowTarget == \A i \in Instances : pc[i] = "parent" => startBlock[i] <= targetBlock[i]

LocalShapeOK == LocalTypeOK /\ BatchComplete /\ BelowTarget

(* An instance that is outside a batch keeps the shape.                    *)
LEMMA OutsideBatch ==
  ASSUME LocalShapeOK, NEW i \in Instances, NEW label, LocalTypeOK',
         label \notin {"fetch", "logs", "commit", "parent"},
         Goto(i, label), ForgetBatch(i)
  PROVE  LocalShapeOK'
<1>1. BatchComplete'
  BY DEF LocalShapeOK, LocalTypeOK, BatchComplete, Goto, ForgetBatch
<1>2. BelowTarget'
  BY DEF LocalShapeOK, LocalTypeOK, BelowTarget, Goto, ForgetBatch
<1>3. QED
  BY <1>1, <1>2 DEF LocalShapeOK

LEMMA ExitShape ==
  ASSUME LocalShapeOK, NEW i \in Instances, Exit(i)
  PROVE  LocalShapeOK'
<1>1. LocalTypeOK'
  BY ExitType DEF LocalShapeOK
<1>2. Goto(i, "down") /\ ForgetBatch(i)
  BY DEF Exit
<1>3. QED
  BY <1>1, <1>2, OutsideBatch

LEMMA ThrowsShape ==
  ASSUME LocalShapeOK, NEW i \in Instances, Throws(i)
  PROVE  LocalShapeOK'
<1>1. CASE startup[i] \/ TooManyErrors(i)
  BY <1>1, ExitShape DEF Throws
<1>2. CASE ~ (startup[i] \/ TooManyErrors(i))
  <2>1. LocalTypeOK'
    BY ThrowsType DEF LocalShapeOK
  <2>2. Goto(i, "max") /\ ForgetBatch(i)
    BY <1>2 DEF Throws
  <2>3. QED
    BY <2>1, <2>2, OutsideBatch
<1>3. QED
  BY <1>1, <1>2

LEMMA SyncReturnsShape ==
  ASSUME LocalShapeOK, NEW i \in Instances, SyncReturns(i)
  PROVE  LocalShapeOK'
<1>1. LocalTypeOK'
  BY SyncReturnsType DEF LocalShapeOK
<1>2. Goto(i, "checkpoint") /\ ForgetBatch(i)
  BY DEF SyncReturns
<1>3. QED
  BY <1>1, <1>2, OutsideBatch

LEMMA TurnEndsShape ==
  ASSUME LocalShapeOK, NEW i \in Instances, TurnEnds(i)
  PROVE  LocalShapeOK'
<1>1. LocalTypeOK'
  BY DEF LocalShapeOK, LocalTypeOK, TurnEnds, Unlock, Goto, Labels, batchVars
<1>2. BatchComplete' /\ BelowTarget'
  BY DEF LocalShapeOK, LocalTypeOK, BatchComplete, BelowTarget, TurnEnds, Goto,
         batchVars
<1>3. QED
  BY <1>1, <1>2 DEF LocalShapeOK

LEMMA BeginBatchShape ==
  ASSUME LocalShapeOK, NEW i \in Instances, NEW first \in 0..(MaxHeight + 1),
         NEW last \in Heights, NEW parent \in Hash \cup {NoHash}, first <= last,
         BeginBatch(i, first, last, parent),
         UNCHANGED <<targetBlock, lock, startup, errors, gaps>>
  PROVE  LocalShapeOK'
<1>1. LocalTypeOK'
  BY BeginBatchType DEF LocalShapeOK
<1>2. BelowTarget'
  BY DEF LocalShapeOK, LocalTypeOK, BelowTarget, BeginBatch, Goto
<1>3. BatchComplete'
  BY DEF LocalShapeOK, LocalTypeOK, BatchComplete, BeginBatch, Goto, Numbers
<1>4. QED
  BY <1>1, <1>2, <1>3 DEF LocalShapeOK

-----------------------------------------------------------------------------
(* The inductive invariant behind type correctness: the type of every      *)
(* variable and the shape of the batches.                                  *)
ShapeOK == TypeOK /\ LocalShapeOK

LEMMA ShapeInit == Init => ShapeOK
<1> SUFFICES ASSUME Init PROVE ShapeOK
  OBVIOUS
<1>1. ChainTypeOK
  BY DEF Init, ChainTypeOK, Heights, NotMined
<1>2. blocks \subseteq Block
  <2>1. before \subseteq Heights
    BY DEF Init
  <2>2. QED
    BY <1>1, <2>1, BlockAtProperty DEF Init
<1>3. LocalTypeOK
  BY DEF Init, LocalTypeOK, Labels, Heights
<1>4. TypeOK
  <2>1. checkpointed \in BOOLEAN /\ before \subseteq Heights
    BY DEF Init
  <2>2. peak \in Heights /\ transfers \subseteq Hash /\ faults \in 0..MaxFaults
    BY DEF Init, Heights
  <2>3. QED
    BY <1>1, <1>2, <1>3, <2>1, <2>2, TypeParts
<1>5. BatchComplete /\ BelowTarget
  BY DEF Init, BatchComplete, BelowTarget
<1>6. QED
  BY <1>3, <1>4, <1>5 DEF ShapeOK, LocalShapeOK

LEMMA NodeShape ==
  ASSUME ShapeOK, NodeMines \/ \E k \in Heights : NodeReorgs(k)
  PROVE  ShapeOK'
<1>1. ChainNext
  BY DEF NodeMines, NodeReorgs, ChainNext
<1>2. ChainTypeOK'
  BY <1>1, ChainStepType DEF ShapeOK, TypeOK
<1>3. peak' \in Heights
  BY <1>2 DEF NodeMines, NodeReorgs, ShapeOK, TypeOK, ChainTypeOK
<1>4. UNCHANGED <<tableVars, batchVars, procVars, faults>>
  BY DEF NodeMines, NodeReorgs
<1>5. LocalShapeOK'
  BY <1>4 DEF ShapeOK, LocalShapeOK, LocalTypeOK, BatchComplete, BelowTarget,
              batchVars, procVars
<1>6. TypeOK'
  BY <1>2, <1>3, <1>4, <1>5 DEF ShapeOK, LocalShapeOK, LocalTypeOK, TypeOK, tableVars
<1>7. QED
  BY <1>5, <1>6 DEF ShapeOK

(* Every step of an instance that leaves the tables alone.                 *)
LEMMA LocalStep ==
  ASSUME ShapeOK, LocalShapeOK', UNCHANGED <<nodeVars, tableVars>>, faults' \in 0..MaxFaults
  PROVE  ShapeOK'
<1>1. ChainTypeOK' /\ peak' \in Heights
  BY DEF ShapeOK, TypeOK, ChainTypeOK, nodeVars, chainVars
<1>2. TypeOK'
  BY <1>1 DEF ShapeOK, LocalShapeOK, LocalTypeOK, TypeOK, tableVars
<1>3. QED
  BY <1>2 DEF ShapeOK

(* One step per action; only Commit and InsertCheckpoint change tables.    *)
LEMMA StartupShape ==
  ASSUME ShapeOK, NEW i \in Instances,
         \/ AcquireLock(i) \/ DetectGaps(i)
         \/ \E g \in gaps[i] : SkipGap(i, g) \/ RepairGap(i, g)
  PROVE  ShapeOK'
<1> USE DEF ShapeOK
<1>1. CASE AcquireLock(i)
  <2>1. LocalTypeOK' /\ BatchComplete' /\ BelowTarget'
    BY <1>1 DEF AcquireLock, LocalShapeOK, LocalTypeOK, BatchComplete, BelowTarget,
                Goto, Labels, batchVars
  <2>2. QED
    BY <1>1, <2>1, LocalStep DEF AcquireLock, LocalShapeOK, TypeOK
<1>2. CASE DetectGaps(i)
  <2>1. SeenGaps(blocks) \in SUBSET (Heights \X Heights)
    BY GapsOfType DEF SeenGaps, TypeOK
  <2>2. LocalTypeOK' /\ BatchComplete' /\ BelowTarget'
    BY <1>2, <2>1 DEF DetectGaps, LocalShapeOK, LocalTypeOK, BatchComplete, BelowTarget,
                      Goto, Labels, batchVars
  <2>3. QED
    BY <1>2, <2>2, LocalStep DEF DetectGaps, LocalShapeOK, TypeOK
<1>3. ASSUME NEW g, SkipGap(i, g)
      PROVE  ShapeOK'
  <2>1. LocalTypeOK' /\ BatchComplete' /\ BelowTarget'
    BY <1>3 DEF SkipGap, GapDone, LocalShapeOK, LocalTypeOK, BatchComplete, BelowTarget,
                Goto, Labels, batchVars
  <2>2. QED
    BY <1>3, <2>1, LocalStep DEF SkipGap, GapDone, LocalShapeOK, TypeOK
<1>4. ASSUME NEW g, RepairGap(i, g)
      PROVE  ShapeOK'
  BY <1>4, ThrowsShape, LocalStep DEF RepairGap, TypeOK
<1>5. QED
  BY <1>1, <1>2, <1>3, <1>4

LEMMA ToTipShape ==
  ASSUME ShapeOK, NEW i \in Instances, ReadMax(i) \/ ReadTip(i) \/ ReadParent(i)
  PROVE  ShapeOK'
<1> USE DEF ShapeOK
<1>1. CASE ReadMax(i)
  <2>1. StartAfter(MaxNumber(blocks)) \in 0..(MaxHeight + 1)
    BY MaxNumberProperty DEF TypeOK, StartAfter, NoBlock, Heights
  <2>2. LocalTypeOK' /\ BatchComplete' /\ BelowTarget'
    BY <1>1, <2>1 DEF ReadMax, LocalShapeOK, LocalTypeOK, BatchComplete,
                      BelowTarget, Goto, Labels
  <2>3. QED
    BY <1>1, <2>2, LocalStep DEF ReadMax, LocalShapeOK, TypeOK
<1>2. CASE ReadTip(i)
  <2>1. CASE UpToDate(startBlock[i], Target(head))
    BY <1>2, <2>1, SyncReturnsShape, LocalStep DEF ReadTip, TypeOK
  <2>2. CASE ~ UpToDate(startBlock[i], Target(head))
    <3>1. Target(head) \in Heights /\ startBlock[i] <= Target(head)
      BY <2>2, TargetProperty DEF UpToDate, TypeOK, ChainTypeOK, Heights
    <3>2. /\ targetBlock' = [targetBlock EXCEPT ![i] = Target(head)]
          /\ Goto(i, "parent")
          /\ UNCHANGED <<startBlock, endBlock, expectedParent, toFetch, blocksToSave,
                         reorgAt, logs, lock, startup, errors, gaps>>
      BY <1>2, <2>2 DEF ReadTip
    <3>3. LocalTypeOK' /\ BatchComplete' /\ BelowTarget'
      BY <3>1, <3>2 DEF LocalShapeOK, LocalTypeOK, BatchComplete, BelowTarget,
                        Goto, Labels
    <3>4. QED
      BY <1>2, <3>3, LocalStep DEF ReadTip, LocalShapeOK, TypeOK
  <2>3. QED
    BY <2>1, <2>2
<1>3. CASE ReadParent(i)
  <2>1. /\ startBlock[i] \in 0..(MaxHeight + 1)
        /\ targetBlock[i] \in Heights
        /\ startBlock[i] <= targetBlock[i]
    BY <1>3 DEF ReadParent, LocalShapeOK, LocalTypeOK, BelowTarget
  <2>2. LocalShapeOK'
    BY <1>3, <2>1, BatchEndProperty, ParentHashType, BeginBatchShape DEF ReadParent
  <2>3. QED
    BY <1>3, <2>2, LocalStep DEF ReadParent, TypeOK
<1>4. QED
  BY <1>1, <1>2, <1>3

(* The last block of a complete batch has the hash passed to the next one. *)
LEMMA LastHashType ==
  ASSUME LocalShapeOK, NEW i \in Instances, pc[i] = "commit"
  PROVE  LastHash(i) \in Hash
<1>1. endBlock[i] \in Numbers(blocksToSave[i])
  BY DEF LocalShapeOK, LocalTypeOK, BatchComplete, Heights
<1>2. \E b \in blocksToSave[i] : b.number = endBlock[i]
  BY <1>1 DEF Numbers
<1>3. blocksToSave[i] \subseteq Block
  BY DEF LocalShapeOK, LocalTypeOK
<1>4. QED
  BY <1>2, <1>3 DEF LastHash, Block

LEMMA LogsInType ==
  ASSUME ChainTypeOK, NEW first \in 0..(MaxHeight + 1), NEW last \in Heights
  PROVE  LogsIn(first, last) \subseteq Hash
<1> SUFFICES ASSUME NEW n \in first..last, n <= head
             PROVE  <<n, chain[n]>> \in Hash
  BY DEF LogsIn
<1>1. n \in Heights
  BY DEF ChainTypeOK, Heights
<1>2. QED
  BY <1>1 DEF ChainTypeOK, Hash

LEMMA CommitShape ==
  ASSUME ShapeOK, NEW i \in Instances, Commit(i)
  PROVE  ShapeOK'
<1>1. LocalShapeOK'
  <2> DEFINE next == endBlock[i] + 1
  <2>1. BatchReturns(i)
    BY DEF Commit
  <2>2. next \in 0..(MaxHeight + 1) /\ targetBlock[i] \in Heights
    BY DEF ShapeOK, LocalShapeOK, LocalTypeOK, Heights
  <2>3. CASE UpToDate(next, targetBlock[i])
    BY <2>1, <2>3, SyncReturnsShape DEF BatchReturns, ShapeOK
  <2>4. CASE ~ UpToDate(next, targetBlock[i])
    <3>1. next <= targetBlock[i]
      BY <2>2, <2>4 DEF UpToDate, Heights
    <3>2. /\ BeginBatch(i, next, BatchEnd(next, targetBlock[i]), LastHash(i))
          /\ UNCHANGED <<targetBlock, lock, startup, errors, gaps>>
      BY <2>1, <2>4 DEF BatchReturns
    <3>3. LastHash(i) \in Hash
      BY LastHashType DEF Commit, ShapeOK
    <3>4. /\ BatchEnd(next, targetBlock[i]) \in Heights
          /\ next <= BatchEnd(next, targetBlock[i])
      BY <2>2, <3>1, BatchEndProperty
    <3>5. LocalShapeOK
      BY DEF ShapeOK
    <3> HIDE DEF next
    <3>6. QED
      BY <2>2, <3>2, <3>3, <3>4, <3>5, BeginBatchShape
  <2>5. QED
    BY <2>3, <2>4
<1>2. blocks' \subseteq Block
  BY DEF Commit, Upserted, ShapeOK, TypeOK
<1>3. transfers' \subseteq Hash
  BY DEF Commit, TransfersSaved, KeptTransfers, ShapeOK, TypeOK
<1>4. TypeOK'
  BY <1>1, <1>2, <1>3 DEF Commit, nodeVars, chainVars, ShapeOK, LocalShapeOK, LocalTypeOK,
                          TypeOK, ChainTypeOK
<1>5. QED
  BY <1>1, <1>4 DEF ShapeOK

LEMMA BatchShape ==
  ASSUME ShapeOK, NEW i \in Instances,
         \/ \E n \in Heights : FetchBlock(i, n) \/ FetchMissing(i, n)
         \/ ChainValid(i) \/ ChainDiscontinuity(i) \/ GetTransferEvents(i)
         \/ CallFails(i) \/ Crash(i)
  PROVE  ShapeOK'
<1> USE DEF ShapeOK
<1>1. ASSUME NEW n \in Heights, FetchBlock(i, n)
      PROVE  ShapeOK'
  <2>1. BlockAt(n) \in Block /\ BlockAt(n).number = n
    BY BlockAtProperty DEF TypeOK
  <2>2. /\ toFetch[i] \in SUBSET Heights /\ n \in toFetch[i] /\ pc[i] = "fetch"
        /\ toFetch' = [toFetch EXCEPT ![i] = @ \ {n}]
        /\ blocksToSave' = [blocksToSave EXCEPT ![i] = @ \cup {BlockAt(n)}]
        /\ UNCHANGED <<pc, lock, startup, errors, gaps, startBlock, targetBlock, endBlock,
                       expectedParent, reorgAt, logs>>
    BY <1>1 DEF FetchBlock, LocalShapeOK, LocalTypeOK, procVars
  <2>3. LocalTypeOK' /\ BelowTarget'
    BY <2>1, <2>2 DEF LocalShapeOK, LocalTypeOK, BelowTarget
  <2>4. BatchComplete'
    <3>1. Numbers(blocksToSave[i] \cup {BlockAt(n)}) = Numbers(blocksToSave[i]) \cup {n}
      BY <2>1 DEF Numbers
    <3>2. toFetch'[i] \cup Numbers(blocksToSave'[i]) = toFetch[i] \cup Numbers(blocksToSave[i])
      BY <2>2, <3>1 DEF LocalShapeOK, LocalTypeOK
    <3>3. QED
      BY <2>2, <3>2 DEF LocalShapeOK, LocalTypeOK, BatchComplete
  <2>5. QED
    BY <1>1, <2>3, <2>4, LocalStep DEF FetchBlock, LocalShapeOK, TypeOK
<1>2. ASSUME NEW n \in Heights, FetchMissing(i, n)
      PROVE  ShapeOK'
  BY <1>2, ThrowsShape, LocalStep DEF FetchMissing, TypeOK
<1>3. CASE ChainValid(i)
  <2>1. MaxNumber(Mismatched(i)) \in Heights \cup {NoBlock}
    BY MaxNumberProperty DEF Mismatched, LocalShapeOK, LocalTypeOK
  <2>2. toFetch[i] = {} /\ pc[i] = "fetch"
    BY <1>3 DEF ChainValid, Fetched
  <2>3. LocalTypeOK' /\ BatchComplete' /\ BelowTarget'
    BY <1>3, <2>1, <2>2 DEF ChainValid, LocalShapeOK, LocalTypeOK, BatchComplete,
                            BelowTarget, Goto, Labels
  <2>4. QED
    BY <1>3, <2>3, LocalStep DEF ChainValid, LocalShapeOK, TypeOK
<1>4. CASE ChainDiscontinuity(i)
  BY <1>4, ThrowsShape, LocalStep DEF ChainDiscontinuity, TypeOK
<1>5. CASE GetTransferEvents(i)
  <2>1. LogsIn(startBlock[i], endBlock[i]) \in SUBSET Hash
    BY LogsInType DEF TypeOK
  <2>2. LocalTypeOK' /\ BatchComplete' /\ BelowTarget'
    BY <1>5, <2>1 DEF GetTransferEvents, LocalShapeOK, LocalTypeOK, BatchComplete,
                      BelowTarget, Goto, Labels
  <2>3. QED
    BY <1>5, <2>2, LocalStep DEF GetTransferEvents, LocalShapeOK, TypeOK
<1>6. CASE CallFails(i)
  BY <1>6, ThrowsShape, LocalStep DEF CallFails, Fault, TypeOK
<1>7. CASE Crash(i)
  BY <1>7, ExitShape, LocalStep DEF Crash, Fault, TypeOK
<1>8. QED
  BY <1>1, <1>2, <1>3, <1>4, <1>5, <1>6, <1>7

LEMMA CheckpointShape ==
  ASSUME ShapeOK, NEW i \in Instances,
         \/ UpdateCheckpoint(i) \/ InsertCheckpoint(i) \/ CheckpointConflicts(i)
         \/ SessionCloses(i)
  PROVE  ShapeOK'
<1> USE DEF ShapeOK
<1>1. CASE UpdateCheckpoint(i)
  <2>1. CASE NothingToSave \/ checkpointed
    BY <1>1, <2>1, TurnEndsShape, LocalStep DEF UpdateCheckpoint, TypeOK
  <2>2. CASE ~ (NothingToSave \/ checkpointed)
    <3>1. LocalTypeOK' /\ BatchComplete' /\ BelowTarget'
      BY <1>1, <2>2 DEF UpdateCheckpoint, LocalShapeOK, LocalTypeOK, BatchComplete,
                        BelowTarget, Goto, Labels, batchVars
    <3>2. QED
      BY <1>1, <3>1, LocalStep DEF UpdateCheckpoint, LocalShapeOK, TypeOK
  <2>3. QED
    BY <2>1, <2>2
<1>2. CASE InsertCheckpoint(i)
  <2>1. LocalShapeOK'
    BY <1>2, TurnEndsShape DEF InsertCheckpoint
  <2>2. TypeOK'
    BY <1>2, <2>1 DEF InsertCheckpoint, nodeVars, chainVars, LocalShapeOK, LocalTypeOK,
                      TypeOK, ChainTypeOK
  <2>3. QED
    BY <2>1, <2>2
<1>3. CASE CheckpointConflicts(i)
  BY <1>3, ThrowsShape, LocalStep DEF CheckpointConflicts, TypeOK
<1>4. CASE SessionCloses(i)
  <2>1. LocalTypeOK' /\ BatchComplete' /\ BelowTarget'
    BY <1>4 DEF SessionCloses, LocalShapeOK, LocalTypeOK, BatchComplete,
                BelowTarget, batchVars
  <2>2. QED
    BY <1>4, <2>1, LocalStep DEF SessionCloses, LocalShapeOK, TypeOK
<1>5. QED
  BY <1>1, <1>2, <1>3, <1>4

LEMMA ShapeStep == ShapeOK /\ [Next]_vars => ShapeOK'
<1> SUFFICES ASSUME ShapeOK, [Next]_vars PROVE ShapeOK'
  OBVIOUS
<1>1. CASE UNCHANGED vars
  BY <1>1 DEF vars, nodeVars, chainVars, tableVars, batchVars, procVars, ShapeOK, LocalShapeOK,
              LocalTypeOK, TypeOK, ChainTypeOK, BatchComplete, BelowTarget
<1>2. CASE NodeMines \/ \E k \in Heights : NodeReorgs(k)
  BY <1>2, NodeShape
<1>3. ASSUME NEW i \in Instances, Progress(i) \/ Disturbance(i)
      PROVE  ShapeOK'
  BY <1>3, StartupShape, ToTipShape, BatchShape, CommitShape, CheckpointShape
     DEF Progress, Disturbance
<1>4. QED
  BY <1>1, <1>2, <1>3 DEF Next

(* Every batch is as its program point says, whatever happens.             *)
THEOREM ShapeInvariant == Spec => []ShapeOK
<1>1. QED
  BY ShapeInit, ShapeStep, PTL DEF Spec

(* Every variable keeps its type, whatever the instances, the node and the *)
(* faults do.                                                              *)
THEOREM EngineTypeCorrect == Spec => []TypeOK
<1>1. ShapeOK => TypeOK
  BY DEF ShapeOK
<1>2. QED
  BY <1>1, ShapeInvariant, PTL

-----------------------------------------------------------------------------
(* What the confirmation depth gives.  A block is final when the node      *)
(* cannot replace it any more; everything an instance plans, holds or      *)
(* stores is final, and so it stays the canonical block of its number.     *)
Final(n) == n = 0 \/ n + Finality <= peak
Sound(b) == Final(b.number) /\ b = BlockAt(b.number)

FinalIsMined ==
  /\ head <= peak
  /\ \A n \in Heights : Final(n) => n <= head

RowsSound == \A b \in blocks : Sound(b)

BatchSound(i) ==
  /\ \A n \in toFetch[i] : Final(n)
  /\ \A b \in blocksToSave[i] : Sound(b)

PlanSound(i) == Final(targetBlock[i])

AllSound == /\ FinalIsMined
            /\ RowsSound
            /\ \A i \in Instances : BatchSound(i) /\ PlanSound(i)

(* What lies below a final block is final.                                 *)
LEMMA FinalBelow ==
  ASSUME peak \in Heights, NEW m \in Heights, NEW n \in Heights, n <= m, Final(m)
  PROVE  Final(n)
BY DEF Final, Heights

LEMMA SoundInit ==
  ASSUME Finality <= ConfirmationDepth, Init
  PROVE  AllSound
<1>1. FinalIsMined
  BY DEF Init, FinalIsMined, Final, Heights
<1>2. RowsSound
  <2>1. before \in TablesBefore /\ blocks = {BlockAt(n) : n \in before} /\ peak = FirstHead
    BY DEF Init
  <2>2. ASSUME NEW n \in before PROVE Final(n) /\ n \in Heights
    BY <2>1 DEF Final, Heights
  <2>3. \A n \in before : BlockAt(n).number = n
    BY DEF BlockAt
  <2>4. QED
    BY <2>1, <2>2, <2>3 DEF RowsSound, Sound
<1>3. \A i \in Instances : BatchSound(i) /\ PlanSound(i)
  BY DEF Init, BatchSound, PlanSound, Final
<1>4. QED
  BY <1>1, <1>2, <1>3 DEF AllSound

(* Neither mining nor a reorganisation touches a final block.              *)
LEMMA NodeKeepsFinal ==
  ASSUME ShapeOK, FinalIsMined, NodeMines \/ \E k \in Heights : NodeReorgs(k)
  PROVE  /\ FinalIsMined'
         /\ \A n \in Heights : Final(n) => Final(n)' /\ BlockAt(n)' = BlockAt(n)
<1> USE DEF ShapeOK, TypeOK, ChainTypeOK
<1>1. CASE NodeMines
  <2>1. /\ head' = head + 1 /\ head' \in Heights
        /\ chain' = [chain EXCEPT ![head + 1] = fork]
        /\ peak' = IF head' > peak THEN head' ELSE peak
    BY <1>1 DEF NodeMines, Mine, Heights
  <2>2. /\ peak \in Nat /\ peak' \in Nat /\ head \in Nat
        /\ head <= peak /\ peak <= peak' /\ head' <= peak'
    BY <2>1 DEF FinalIsMined, Heights
  <2>3. FinalIsMined'
    <3>1. ASSUME NEW n \in Heights, Final(n)'
          PROVE  n <= head'
      <4>1. n \in Nat /\ Finality \in Nat /\ (n = 0 \/ n + Finality <= peak')
        BY <3>1 DEF Final, Heights
      <4>2. CASE head' > peak
        BY <2>1, <2>2, <4>1, <4>2
      <4>3. CASE ~ (head' > peak)
        <5>1. Final(n)
          BY <2>1, <4>1, <4>3 DEF Final
        <5>2. QED
          BY <2>1, <2>2, <4>1, <5>1 DEF FinalIsMined
      <4>4. QED
        BY <4>2, <4>3
    <3>2. QED
      BY <2>2, <3>1 DEF FinalIsMined
  <2>4. ASSUME NEW n \in Heights, Final(n)
        PROVE  Final(n)' /\ BlockAt(n)' = BlockAt(n)
    <3>1. n <= head /\ n \in Nat
      BY <2>4 DEF FinalIsMined, Heights
    <3>2. Final(n)'
      BY <2>2, <2>4, <3>1 DEF Final
    <3>3. chain'[n] = chain[n] /\ (n # 0 => chain'[n - 1] = chain[n - 1])
      BY <2>1, <2>2, <3>1 DEF Heights
    <3>4. QED
      BY <3>2, <3>3 DEF BlockAt
  <2>5. QED
    BY <2>3, <2>4
<1>2. ASSUME NEW k \in Heights, NodeReorgs(k)
      PROVE  /\ FinalIsMined'
             /\ \A n \in Heights : Final(n) => Final(n)' /\ BlockAt(n)' = BlockAt(n)
  <2>1. /\ k > 0 /\ k + Finality > peak /\ k <= head /\ head' = k /\ peak' = peak
        /\ chain' = [n \in Heights |-> IF n < k THEN chain[n]
                                       ELSE IF n = k THEN fork + 1 ELSE NotMined]
    BY <1>2 DEF NodeReorgs, Reorg
  <2>2. ASSUME NEW n \in Heights, Final(n) PROVE n < k
    BY <2>1, <2>2 DEF Final, Heights
  <2>3. FinalIsMined'
    BY <2>1, <2>2 DEF FinalIsMined, Final, Heights
  <2>4. ASSUME NEW n \in Heights, Final(n)
        PROVE  Final(n)' /\ BlockAt(n)' = BlockAt(n)
    <3>1. n < k /\ n \in Nat
      BY <2>2, <2>4 DEF Heights
    <3>2. Final(n)'
      BY <2>1, <2>4 DEF Final
    <3>3. chain'[n] = chain[n] /\ (n # 0 => chain'[n - 1] = chain[n - 1])
      BY <2>1, <3>1 DEF Heights
    <3>4. QED
      BY <3>2, <3>3 DEF BlockAt
  <2>5. QED
    BY <2>3, <2>4
<1>3. QED
  BY <1>1, <1>2

LEMMA NodeSound ==
  ASSUME ShapeOK, AllSound, NodeMines \/ \E k \in Heights : NodeReorgs(k)
  PROVE  AllSound'
<1>1. /\ FinalIsMined'
      /\ \A n \in Heights : Final(n) => Final(n)' /\ BlockAt(n)' = BlockAt(n)
  BY NodeKeepsFinal DEF AllSound
<1>2. UNCHANGED <<blocks, toFetch, blocksToSave, targetBlock>>
  BY DEF NodeMines, NodeReorgs, tableVars, batchVars
<1>3. ASSUME NEW b \in Block, Sound(b) PROVE Sound(b)'
  <2>1. b.number \in Heights
    BY DEF Block
  <2>2. QED
    BY <1>1, <1>3, <2>1 DEF Sound
<1>4. RowsSound'
  BY <1>2, <1>3 DEF AllSound, RowsSound, ShapeOK, TypeOK
<1>5. ASSUME NEW i \in Instances PROVE BatchSound(i)' /\ PlanSound(i)'
  <2>1. /\ toFetch[i] \subseteq Heights /\ blocksToSave[i] \subseteq Block
        /\ targetBlock[i] \in Heights
    BY DEF ShapeOK, TypeOK
  <2>2. QED
    BY <1>1, <1>2, <1>3, <2>1 DEF AllSound, BatchSound, PlanSound
<1>6. QED
  BY <1>1, <1>4, <1>5 DEF AllSound

(* A step of one instance: only its own batch and plan, and the rows, have *)
(* to be looked at.                                                        *)
LEMMA OneInstanceSound ==
  ASSUME ShapeOK, AllSound, NEW i \in Instances, UNCHANGED nodeVars,
         \A j \in Instances \ {i} :
           /\ toFetch'[j] = toFetch[j] /\ blocksToSave'[j] = blocksToSave[j]
           /\ targetBlock'[j] = targetBlock[j],
         \A b \in blocks' : Sound(b),
         \A n \in toFetch'[i] : Final(n),
         \A b \in blocksToSave'[i] : Sound(b),
         Final(targetBlock'[i])
  PROVE  AllSound'
<1>1. \A n : Final(n)' <=> Final(n)
  BY DEF Final, nodeVars
<1>2. \A b : Sound(b)' <=> Sound(b)
  BY <1>1 DEF Sound, BlockAt, nodeVars, chainVars
<1>3. FinalIsMined'
  BY <1>1 DEF AllSound, FinalIsMined, nodeVars, chainVars
<1>4. RowsSound'
  BY <1>2 DEF RowsSound
<1>5. ASSUME NEW j \in Instances PROVE BatchSound(j)' /\ PlanSound(j)'
  BY <1>1, <1>2 DEF AllSound, BatchSound, PlanSound
<1>6. QED
  BY <1>3, <1>4, <1>5 DEF AllSound

(* An instance that forgets its batch keeps everything sound.              *)
LEMMA ForgetSound ==
  ASSUME ShapeOK, AllSound, NEW i \in Instances, UNCHANGED nodeVars,
         \A b \in blocks' : Sound(b),
         ForgetBatch(i)
  PROVE  AllSound'
<1>1. /\ toFetch'[i] = {} /\ blocksToSave'[i] = {} /\ targetBlock'[i] = 0
      /\ \A j \in Instances \ {i} :
           /\ toFetch'[j] = toFetch[j] /\ blocksToSave'[j] = blocksToSave[j]
           /\ targetBlock'[j] = targetBlock[j]
  BY DEF ForgetBatch, ShapeOK, TypeOK
<1>2. QED
  BY <1>1, OneInstanceSound DEF Final

LEMMA EndsSound ==
  ASSUME ShapeOK, AllSound, NEW i \in Instances, UNCHANGED nodeVars,
         \A b \in blocks' : Sound(b),
         Exit(i) \/ Throws(i) \/ SyncReturns(i)
  PROVE  AllSound'
<1>1. ForgetBatch(i)
  BY DEF Exit, Throws, SyncReturns
<1>2. QED
  BY <1>1, ForgetSound

(* A batch up to a final block fetches final blocks.                       *)
LEMMA BeginSound ==
  ASSUME ShapeOK, AllSound, NEW i \in Instances, UNCHANGED nodeVars,
         \A b \in blocks' : Sound(b),
         NEW first \in Nat, NEW last \in Heights, NEW parent,
         Final(last), BeginBatch(i, first, last, parent),
         UNCHANGED targetBlock
  PROVE  AllSound'
<1>1. /\ toFetch'[i] = first..last /\ blocksToSave'[i] = {}
      /\ \A j \in Instances \ {i} :
           toFetch'[j] = toFetch[j] /\ blocksToSave'[j] = blocksToSave[j]
  BY DEF BeginBatch, ShapeOK, TypeOK
<1>2. \A n \in first..last : Final(n)
  BY FinalBelow DEF ShapeOK, TypeOK, Heights
<1>3. Final(targetBlock[i])
  BY DEF AllSound, PlanSound
<1>4. QED
  BY <1>1, <1>2, <1>3, OneInstanceSound

LEMMA StartupSound ==
  ASSUME ShapeOK, AllSound, NEW i \in Instances,
         \/ AcquireLock(i) \/ DetectGaps(i)
         \/ \E g \in gaps[i] : SkipGap(i, g) \/ RepairGap(i, g)
  PROVE  AllSound'
<1>1. UNCHANGED <<nodeVars, tableVars>>
  BY DEF AcquireLock, DetectGaps, SkipGap, GapDone, RepairGap
<1>2. \A b \in blocks' : Sound(b)
  BY <1>1 DEF tableVars, AllSound, RowsSound
<1>3. CASE UNCHANGED <<toFetch, blocksToSave, targetBlock>>
  BY <1>1, <1>2, <1>3, OneInstanceSound DEF AllSound, BatchSound, PlanSound
<1>4. CASE Throws(i)
  BY <1>1, <1>2, <1>4, EndsSound
<1>5. QED
  BY <1>3, <1>4 DEF AcquireLock, DetectGaps, SkipGap, GapDone, RepairGap, batchVars

LEMMA ToTipSound ==
  ASSUME Finality <= ConfirmationDepth,
         ShapeOK, AllSound, NEW i \in Instances, ReadMax(i) \/ ReadTip(i) \/ ReadParent(i)
  PROVE  AllSound'
<1> USE DEF ShapeOK
<1>1. UNCHANGED <<nodeVars, tableVars>>
  BY DEF ReadMax, ReadTip, ReadParent
<1>2. \A b \in blocks' : Sound(b)
  BY <1>1 DEF tableVars, AllSound, RowsSound
<1>3. BatchSound(i) /\ PlanSound(i)
  BY DEF AllSound
<1>4. CASE ReadMax(i)
  <2>1. UNCHANGED <<toFetch, blocksToSave, targetBlock>>
    BY <1>4 DEF ReadMax
  <2>2. QED
    BY <1>1, <1>2, <1>3, <2>1, OneInstanceSound DEF BatchSound, PlanSound
<1>5. CASE ReadTip(i)
  <2>1. CASE UpToDate(startBlock[i], Target(head))
    BY <1>1, <1>2, <1>5, <2>1, EndsSound DEF ReadTip
  <2>2. CASE ~ UpToDate(startBlock[i], Target(head))
    <3>1. Final(Target(head))
      <4>1. head \in Heights /\ peak \in Heights /\ head <= peak
        BY DEF AllSound, FinalIsMined, TypeOK, ChainTypeOK
      <4>2. Target(head) \in Heights /\ (Target(head) = 0 \/ Target(head) + ConfirmationDepth <= head)
        BY <4>1, TargetProperty
      <4>3. QED
        BY <4>1, <4>2 DEF Final, Heights
    <3>2. /\ UNCHANGED <<toFetch, blocksToSave>>
          /\ targetBlock' = [targetBlock EXCEPT ![i] = Target(head)]
      BY <1>5, <2>2 DEF ReadTip
    <3>3. /\ targetBlock'[i] = Target(head)
          /\ \A j \in Instances \ {i} : targetBlock'[j] = targetBlock[j]
      BY <3>2 DEF TypeOK
    <3>4. QED
      BY <1>1, <1>2, <1>3, <3>1, <3>2, <3>3, OneInstanceSound DEF BatchSound, PlanSound
  <2>3. QED
    BY <2>1, <2>2
<1>6. CASE ReadParent(i)
  <2> DEFINE last == BatchEnd(startBlock[i], targetBlock[i])
  <2>1. /\ startBlock[i] \in 0..(MaxHeight + 1) /\ targetBlock[i] \in Heights
        /\ startBlock[i] <= targetBlock[i]
    BY <1>6 DEF ReadParent, LocalShapeOK, LocalTypeOK, BelowTarget
  <2>2. last \in Heights /\ last <= targetBlock[i]
    BY <2>1, BatchEndProperty
  <2>3. Final(last)
    BY <1>3, <2>1, <2>2, FinalBelow DEF PlanSound, TypeOK
  <2>4. /\ BeginBatch(i, startBlock[i], last, ParentHash(i))
        /\ UNCHANGED targetBlock
    BY <1>6 DEF ReadParent
  <2>5. startBlock[i] \in Nat
    BY <2>1
  <2>6. QED
    <3> HIDE DEF last
    <3> QED BY <1>1, <1>2, <2>2, <2>3, <2>4, <2>5, BeginSound
<1>7. QED
  BY <1>4, <1>5, <1>6

LEMMA CommitSound ==
  ASSUME ShapeOK, AllSound, NEW i \in Instances, Commit(i)
  PROVE  AllSound'
<1> USE DEF ShapeOK
<1>1. UNCHANGED nodeVars
  BY DEF Commit
<1>2. BatchSound(i) /\ PlanSound(i)
  BY DEF AllSound
<1>3. \A b \in blocks' : Sound(b)
  BY <1>2 DEF Commit, Upserted, BatchSound, AllSound, RowsSound
<1> DEFINE next == endBlock[i] + 1
           last == BatchEnd(next, targetBlock[i])
<1>4. BatchReturns(i)
  BY DEF Commit
<1>5. next \in 0..(MaxHeight + 1) /\ next \in Nat /\ targetBlock[i] \in Heights
  BY DEF TypeOK, Heights
<1>6. CASE UpToDate(next, targetBlock[i])
  BY <1>1, <1>3, <1>4, <1>6, EndsSound DEF BatchReturns
<1>7. CASE ~ UpToDate(next, targetBlock[i])
  <2>1. next <= targetBlock[i]
    BY <1>5, <1>7 DEF UpToDate, Heights
  <2>2. /\ BeginBatch(i, next, last, LastHash(i))
        /\ UNCHANGED targetBlock
    BY <1>4, <1>7 DEF BatchReturns
  <2>3. last \in Heights /\ last <= targetBlock[i]
    BY <1>5, <2>1, BatchEndProperty
  <2>4. Final(last)
    BY <1>2, <1>5, <2>3, FinalBelow DEF PlanSound, TypeOK
  <2> HIDE DEF next, last
  <2>5. QED
    BY <1>1, <1>3, <1>5, <2>2, <2>3, <2>4, BeginSound
<1>8. QED
  BY <1>6, <1>7

LEMMA BatchStepSound ==
  ASSUME ShapeOK, AllSound, NEW i \in Instances,
         \/ \E n \in Heights : FetchBlock(i, n) \/ FetchMissing(i, n)
         \/ ChainValid(i) \/ ChainDiscontinuity(i) \/ GetTransferEvents(i)
         \/ CallFails(i) \/ Crash(i)
  PROVE  AllSound'
<1> USE DEF ShapeOK
<1>1. UNCHANGED <<nodeVars, tableVars>>
  BY DEF FetchBlock, FetchMissing, ChainValid, ChainDiscontinuity, GetTransferEvents,
         CallFails, Crash
<1>2. \A b \in blocks' : Sound(b)
  BY <1>1 DEF tableVars, AllSound, RowsSound
<1>3. BatchSound(i) /\ PlanSound(i)
  BY DEF AllSound
<1>4. ASSUME NEW n \in Heights, FetchBlock(i, n)
      PROVE  AllSound'
  <2>1. /\ n \in toFetch[i]
        /\ toFetch' = [toFetch EXCEPT ![i] = @ \ {n}]
        /\ blocksToSave' = [blocksToSave EXCEPT ![i] = @ \cup {BlockAt(n)}]
        /\ UNCHANGED targetBlock
    BY <1>4 DEF FetchBlock, procVars
  <2>2. Sound(BlockAt(n))
    BY <1>3, <2>1, BlockAtProperty DEF BatchSound, Sound, TypeOK
  <2>3. /\ toFetch'[i] = toFetch[i] \ {n}
        /\ blocksToSave'[i] = blocksToSave[i] \cup {BlockAt(n)}
        /\ \A j \in Instances \ {i} :
             toFetch'[j] = toFetch[j] /\ blocksToSave'[j] = blocksToSave[j]
    BY <2>1 DEF TypeOK
  <2>4. QED
    BY <1>1, <1>2, <1>3, <2>1, <2>2, <2>3, OneInstanceSound DEF BatchSound, PlanSound
<1>5. CASE ChainValid(i) \/ GetTransferEvents(i)
  <2>1. UNCHANGED <<toFetch, blocksToSave, targetBlock>>
    BY <1>5 DEF ChainValid, GetTransferEvents
  <2>2. QED
    BY <1>1, <1>2, <1>3, <2>1, OneInstanceSound DEF BatchSound, PlanSound
<1>6. CASE \/ \E n \in Heights : FetchMissing(i, n)
           \/ ChainDiscontinuity(i) \/ CallFails(i) \/ Crash(i)
  <2>1. Throws(i) \/ Exit(i)
    BY <1>6 DEF FetchMissing, ChainDiscontinuity, CallFails, Crash
  <2>2. QED
    BY <1>1, <1>2, <2>1, EndsSound
<1>7. QED
  BY <1>4, <1>5, <1>6

(* Neither the checkpoint nor the lock touches a block.                    *)
LEMMA CheckpointKeeps ==
  ASSUME NEW i \in Instances,
         UpdateCheckpoint(i) \/ InsertCheckpoint(i) \/ SessionCloses(i)
  PROVE  /\ UNCHANGED <<nodeVars, before, blocks, transfers, batchVars, gaps>>
         /\ pc' = pc \/ Goto(i, "max") \/ Goto(i, "insert")
BY DEF UpdateCheckpoint, InsertCheckpoint, SessionCloses, TurnEnds, tableVars

LEMMA CheckpointSound ==
  ASSUME ShapeOK, AllSound, NEW i \in Instances,
         \/ UpdateCheckpoint(i) \/ InsertCheckpoint(i) \/ CheckpointConflicts(i)
         \/ SessionCloses(i)
  PROVE  AllSound'
<1>1. CASE UpdateCheckpoint(i) \/ InsertCheckpoint(i) \/ SessionCloses(i)
  <2>1. UNCHANGED <<nodeVars, blocks, toFetch, blocksToSave, targetBlock>>
    BY <1>1, CheckpointKeeps DEF batchVars
  <2>2. QED
    BY <2>1, OneInstanceSound DEF AllSound, RowsSound, BatchSound, PlanSound
<1>2. CASE CheckpointConflicts(i)
  <2>1. Throws(i) /\ UNCHANGED <<nodeVars, blocks>>
    BY <1>2 DEF CheckpointConflicts, tableVars
  <2>2. QED
    BY <2>1, EndsSound DEF AllSound, RowsSound
<1>3. QED
  BY <1>1, <1>2

LEMMA SoundStep ==
  ASSUME Finality <= ConfirmationDepth, ShapeOK, AllSound, [Next]_vars
  PROVE  AllSound'
<1>1. CASE UNCHANGED vars
  BY <1>1 DEF vars, nodeVars, chainVars, tableVars, batchVars, procVars, AllSound,
              FinalIsMined, RowsSound, BatchSound, PlanSound, Sound, Final, BlockAt
<1>2. CASE NodeMines \/ \E k \in Heights : NodeReorgs(k)
  BY <1>2, NodeSound
<1>3. ASSUME NEW i \in Instances, Progress(i) \/ Disturbance(i)
      PROVE  AllSound'
  BY <1>3, StartupSound, ToTipSound, BatchStepSound, CommitSound, CheckpointSound
     DEF Progress, Disturbance
<1>4. QED
  BY <1>1, <1>2, <1>3 DEF Next

(* Under the finality assumption everything planned, held or stored is     *)
(* final and canonical.                                                    *)
THEOREM SoundInvariant ==
  ASSUME Finality <= ConfirmationDepth
  PROVE  Spec => [](ShapeOK /\ AllSound)
<1>1. Init => ShapeOK /\ AllSound
  BY ShapeInit, SoundInit
<1>2. ShapeOK /\ AllSound /\ [Next]_vars => (ShapeOK /\ AllSound)'
  BY ShapeStep, SoundStep
<1>3. QED
  BY <1>1, <1>2, PTL DEF Spec

(* A node that never replaces a block of the confirmation depth makes      *)
(* every stored row canonical for ever, for any number of instances that   *)
(* crash, fail and write the same table without a lock.                    *)
THEOREM RowsAreCanonical ==
  ASSUME Finality <= ConfirmationDepth
  PROVE  Spec => []StoredIsCanonical
<1>1. ShapeOK /\ AllSound => StoredIsCanonical
  BY DEF AllSound, RowsSound, Sound, StoredIsCanonical
<1>2. QED
  BY <1>1, SoundInvariant, PTL

-----------------------------------------------------------------------------
(* The events of a batch that is about to be written are those of its      *)
(* blocks: the blocks are final, so the later getLogs reads the same chain. *)
EventsFetched(i) ==
  pc[i] = "commit" => logs[i] = {b.hash : b \in blocksToSave[i]}

EventsOK == EventsMatchBlocks /\ \A i \in Instances : EventsFetched(i)

LEMMA EventsInit == Init => EventsOK
BY BlockAtProperty DEF Init, EventsOK, EventsMatchBlocks, EventsFetched, BlockAt

(* A step of one instance that does not fetch events.                      *)
LEMMA EventsElsewhere ==
  ASSUME ShapeOK, EventsOK, NEW i \in Instances, UNCHANGED tableVars,
         \A j \in Instances \ {i} :
           /\ pc'[j] = pc[j] /\ logs'[j] = logs[j] /\ blocksToSave'[j] = blocksToSave[j],
         pc'[i] # "commit"
  PROVE  EventsOK'
BY DEF EventsOK, EventsMatchBlocks, EventsFetched, tableVars

(* How the steps that end or begin a batch move the instance.              *)
LEMMA EndsMove ==
  ASSUME ShapeOK, NEW i \in Instances, Exit(i) \/ Throws(i) \/ SyncReturns(i)
  PROVE  /\ \A j \in Instances \ {i} :
              /\ pc'[j] = pc[j] /\ logs'[j] = logs[j] /\ blocksToSave'[j] = blocksToSave[j]
         /\ pc'[i] # "commit"
<1>1. ForgetBatch(i) /\ (Goto(i, "down") \/ Goto(i, "max") \/ Goto(i, "checkpoint"))
  BY DEF Exit, Throws, SyncReturns
<1>2. QED
  BY <1>1 DEF ForgetBatch, Goto, ShapeOK, TypeOK

LEMMA BeginMoves ==
  ASSUME ShapeOK, NEW i \in Instances, NEW first, NEW last, NEW parent,
         BeginBatch(i, first, last, parent)
  PROVE  /\ \A j \in Instances \ {i} :
              /\ pc'[j] = pc[j] /\ logs'[j] = logs[j] /\ blocksToSave'[j] = blocksToSave[j]
         /\ pc'[i] # "commit"
BY DEF BeginBatch, Goto, ShapeOK, TypeOK

(* getLogs over the batch returns the events of exactly its blocks.        *)
LEMMA LogsOfBatch ==
  ASSUME ShapeOK, AllSound, NEW i \in Instances, pc[i] = "logs"
  PROVE  LogsIn(startBlock[i], endBlock[i]) = {b.hash : b \in blocksToSave[i]}
<1>1. Numbers(blocksToSave[i]) = startBlock[i]..endBlock[i]
  BY DEF ShapeOK, LocalShapeOK, BatchComplete
<1>2. ASSUME NEW b \in blocksToSave[i]
      PROVE  b.number <= head /\ b.hash = <<b.number, chain[b.number]>>
  <2>1. Sound(b) /\ b.number \in Heights
    BY DEF AllSound, BatchSound, ShapeOK, TypeOK, Block
  <2>2. b.number <= head
    BY <2>1 DEF Sound, AllSound, FinalIsMined
  <2>3. BlockAt(b.number).hash = <<b.number, chain[b.number]>>
    BY DEF BlockAt
  <2>4. QED
    BY <2>1, <2>2, <2>3 DEF Sound
<1>3. ASSUME NEW n \in startBlock[i]..endBlock[i]
      PROVE  \E b \in blocksToSave[i] : b.number = n
  BY <1>1 DEF Numbers
<1>4. \A b \in blocksToSave[i] : b.number \in startBlock[i]..endBlock[i]
  BY <1>1 DEF Numbers
<1>5. ASSUME NEW n \in startBlock[i]..endBlock[i], n <= head
      PROVE  <<n, chain[n]>> \in {b.hash : b \in blocksToSave[i]}
  <2>1. PICK b \in blocksToSave[i] : b.number = n
    BY <1>3
  <2>2. b.hash = <<n, chain[n]>>
    BY <1>2, <2>1
  <2>3. QED
    BY <2>2
<1>6. ASSUME NEW b \in blocksToSave[i]
      PROVE  b.hash \in LogsIn(startBlock[i], endBlock[i])
  BY <1>2, <1>4 DEF LogsIn
<1>7. QED
  BY <1>5, <1>6 DEF LogsIn

LEMMA CommitEvents ==
  ASSUME ShapeOK, AllSound, EventsOK, NEW i \in Instances, Commit(i)
  PROVE  EventsMatchBlocks'
<1>1. /\ blocks' = Upserted(i) /\ transfers' = TransfersSaved(i)
      /\ logs[i] = {b.hash : b \in blocksToSave[i]}
  BY DEF Commit, EventsOK, EventsFetched
<1>2. /\ \A b \in blocks \cup blocksToSave[i] : Sound(b)
      /\ EventsMatchBlocks
  BY DEF AllSound, RowsSound, BatchSound, EventsOK
<1>3. ASSUME NEW b \in blocks \cup blocksToSave[i] PROVE b.hash[1] = b.number
  BY <1>2 DEF Sound, BlockAt
<1>4. ASSUME NEW b \in blocks \cup blocksToSave[i], NEW c \in blocks \cup blocksToSave[i],
             b.number = c.number
      PROVE  b = c
  BY <1>2, <1>4 DEF Sound
<1>5. ASSUME NEW t \in transfers' PROVE \E b \in blocks' : b.hash = t
  <2>1. CASE t \in KeptTransfers(i)
    <3>1. PICK b \in blocks : b.hash = t /\ Kept(i, b.number)
      BY <1>2, <1>3, <2>1 DEF KeptTransfers, EventsMatchBlocks
    <3>2. CASE b.number \in Numbers(blocksToSave[i])
      <4>1. PICK c \in blocksToSave[i] : c.number = b.number
        BY <3>2 DEF Numbers
      <4>2. c = b
        BY <1>4, <4>1
      <4>3. QED
        BY <1>1, <3>1, <4>2 DEF Upserted
    <3>3. CASE b.number \notin Numbers(blocksToSave[i])
      BY <1>1, <3>1, <3>3 DEF Upserted
    <3>4. QED
      BY <3>2, <3>3
  <2>2. CASE t \in logs[i]
    BY <1>1, <2>2 DEF Upserted
  <2>3. QED
    BY <1>1, <2>1, <2>2 DEF TransfersSaved
<1>6. ASSUME NEW b \in blocks' PROVE b.number \in before \/ b.hash \in transfers'
  <2>1. CASE b \in blocksToSave[i]
    <3>1. CASE \E u \in KeptTransfers(i) : u[1] = b.hash[1]
      <4>1. PICK u \in KeptTransfers(i) : u[1] = b.hash[1]
        BY <3>1
      <4>2. PICK d \in blocks : d.hash = u
        BY <1>2, <4>1 DEF KeptTransfers, EventsMatchBlocks
      <4>3. d = b
        BY <1>3, <1>4, <2>1, <4>1, <4>2
      <4>4. QED
        BY <1>1, <4>1, <4>2, <4>3 DEF TransfersSaved
    <3>2. CASE \A u \in KeptTransfers(i) : u[1] # b.hash[1]
      BY <1>1, <2>1, <3>2 DEF TransfersSaved
    <3>3. QED
      BY <3>1, <3>2
  <2>2. CASE b \in blocks /\ Kept(i, b.number)
    BY <1>1, <1>2, <1>3, <2>2 DEF EventsMatchBlocks, TransfersSaved, KeptTransfers
  <2>3. QED
    BY <1>1, <2>1, <2>2 DEF Upserted
<1>7. before' = before
  BY DEF Commit
<1>8. QED
  BY <1>5, <1>6, <1>7 DEF EventsMatchBlocks

LEMMA EventsStep ==
  ASSUME ShapeOK, AllSound, EventsOK, [Next]_vars
  PROVE  EventsOK'
<1>1. CASE UNCHANGED vars
  BY <1>1 DEF vars, tableVars, batchVars, procVars, EventsOK, EventsMatchBlocks, EventsFetched
<1>2. CASE NodeMines \/ \E k \in Heights : NodeReorgs(k)
  <2>1. UNCHANGED <<tableVars, batchVars, procVars>>
    BY <1>2 DEF NodeMines, NodeReorgs
  <2>2. QED
    BY <2>1 DEF tableVars, batchVars, procVars, EventsOK, EventsMatchBlocks, EventsFetched
<1>3. ASSUME NEW i \in Instances, Progress(i) \/ Disturbance(i)
      PROVE  EventsOK'
  <2> DEFINE Moved == /\ \A j \in Instances \ {i} : /\ pc'[j] = pc[j] /\ logs'[j] = logs[j]
                                                    /\ blocksToSave'[j] = blocksToSave[j]
                      /\ pc'[i] # "commit"
  <2>1. CASE \/ AcquireLock(i) \/ DetectGaps(i) \/ \E g \in gaps[i] : SkipGap(i, g)
             \/ ReadMax(i) \/ ChainValid(i)
    <3>1. UNCHANGED <<tableVars, logs, blocksToSave>>
      BY <2>1 DEF AcquireLock, DetectGaps, SkipGap, GapDone, ReadMax, ChainValid, batchVars
    <3>2. Goto(i, "gaps") \/ Goto(i, "max") \/ Goto(i, "gapTip") \/ Goto(i, "tip")
            \/ Goto(i, "logs")
      BY <2>1 DEF AcquireLock, DetectGaps, SkipGap, GapDone, ReadMax, ChainValid
    <3>3. Moved
      BY <3>1, <3>2 DEF Goto, ShapeOK, TypeOK
    <3>4. QED
      BY <3>1, <3>3, EventsElsewhere
  <2>2. CASE ReadParent(i)
    BY <2>2, BeginMoves, EventsElsewhere DEF ReadParent
  <2>3. CASE \/ \E g \in gaps[i] : RepairGap(i, g)
             \/ \E n \in Heights : FetchMissing(i, n)
             \/ ChainDiscontinuity(i) \/ CheckpointConflicts(i) \/ CallFails(i) \/ Crash(i)
    BY <2>3, EndsMove, EventsElsewhere
       DEF RepairGap, FetchMissing, ChainDiscontinuity, CheckpointConflicts, CallFails, Crash
  <2>4. CASE ReadTip(i)
    <3>1. CASE UpToDate(startBlock[i], Target(head))
      BY <2>4, <3>1, EndsMove, EventsElsewhere DEF ReadTip
    <3>2. CASE ~ UpToDate(startBlock[i], Target(head))
      <4>1. UNCHANGED <<tableVars, logs, blocksToSave>> /\ Goto(i, "parent")
        BY <2>4, <3>2 DEF ReadTip
      <4>2. Moved
        BY <4>1 DEF Goto, ShapeOK, TypeOK
      <4>3. QED
        BY <4>1, <4>2, EventsElsewhere
    <3>3. QED
      BY <3>1, <3>2
  <2>5. CASE \E n \in Heights : FetchBlock(i, n)
    <3>1. PICK n \in Heights : FetchBlock(i, n)
      BY <2>5
    <3>2. /\ UNCHANGED <<tableVars, logs, pc>> /\ pc[i] = "fetch"
          /\ blocksToSave' = [blocksToSave EXCEPT ![i] = @ \cup {BlockAt(n)}]
      BY <3>1 DEF FetchBlock, procVars
    <3>3. Moved
      BY <3>2 DEF ShapeOK, TypeOK
    <3>4. QED
      BY <3>2, <3>3, EventsElsewhere
  <2>6. CASE GetTransferEvents(i)
    <3>1. /\ UNCHANGED <<tableVars, blocksToSave>> /\ pc[i] = "logs"
          /\ logs' = [logs EXCEPT ![i] = LogsIn(startBlock[i], endBlock[i])]
          /\ Goto(i, "commit")
      BY <2>6 DEF GetTransferEvents
    <3>2. EventsFetched(i)'
      BY <3>1, LogsOfBatch DEF EventsFetched, ShapeOK, TypeOK
    <3>3. \A j \in Instances \ {i} : EventsFetched(j)'
      BY <3>1 DEF EventsOK, EventsFetched, Goto, ShapeOK, TypeOK
    <3>4. QED
      BY <3>1, <3>2, <3>3 DEF EventsOK, EventsMatchBlocks, tableVars
  <2>7. CASE Commit(i)
    <3>1. EventsMatchBlocks'
      BY <2>7, CommitEvents
    <3>2. Moved
      BY <2>7, EndsMove, BeginMoves DEF Commit, BatchReturns
    <3>3. \A j \in Instances : EventsFetched(j)'
      BY <3>2 DEF EventsOK, EventsFetched
    <3>4. QED
      BY <3>1, <3>3 DEF EventsOK
  <2>8. CASE UpdateCheckpoint(i) \/ InsertCheckpoint(i) \/ SessionCloses(i)
    <3>1. /\ UNCHANGED <<before, blocks, transfers, logs, blocksToSave>>
          /\ pc' = pc \/ Goto(i, "max") \/ Goto(i, "insert")
      BY <2>8, CheckpointKeeps DEF batchVars
    <3>2. \A j \in Instances : pc'[j] = "commit" => pc[j] = "commit"
      BY <3>1 DEF Goto, ShapeOK, TypeOK
    <3>3. QED
      BY <3>1, <3>2 DEF EventsOK, EventsMatchBlocks, EventsFetched
  <2>9. QED
    BY <1>3, <2>1, <2>2, <2>3, <2>4, <2>5, <2>6, <2>7, <2>8 DEF Progress, Disturbance
<1>4. QED
  BY <1>1, <1>2, <1>3 DEF Next

(* Under the same assumption a block is never stored without its Transfer  *)
(* events, nor an event without its block.                                 *)
THEOREM EventsAreAtomic ==
  ASSUME Finality <= ConfirmationDepth
  PROVE  Spec => []EventsMatchBlocks
<1>1. Init => EventsOK
  BY EventsInit
<1>2. ShapeOK /\ AllSound /\ EventsOK /\ [Next]_vars => EventsOK'
  BY EventsStep
<1>3. EventsOK => EventsMatchBlocks
  BY DEF EventsOK
<1>4. QED
  BY <1>1, <1>2, <1>3, SoundInvariant, PTL DEF Spec

-----------------------------------------------------------------------------
(* No hole appears above the rows another indexer left.  Every number      *)
(* below a planned batch is stored, or below the top of those rows.        *)
Closed(limit, rows, old) ==
  \A n \in Heights : n < limit /\ Above(n, old) => n \in Numbers(rows)

InSync == {"tip", "parent", "fetch", "logs", "commit"}

ReachOK(i) ==
  /\ reorgAt[i] = NoBlock
  /\ pc[i] \in InSync => Closed(startBlock[i], blocks, before)

HoleOK == NoHole /\ \A i \in Instances : ReachOK(i)

LEMMA HoleInit == Init => HoleOK
<1> SUFFICES ASSUME Init PROVE HoleOK
  OBVIOUS
<1>1. before \subseteq Heights
  BY DEF Init
<1>2. Numbers(blocks) = before
  <2>1. \A n \in before : BlockAt(n).number = n
    BY DEF BlockAt
  <2>2. blocks = {BlockAt(n) : n \in before}
    BY DEF Init
  <2>3. QED
    BY <2>1, <2>2 DEF Numbers
<1>3. blocks \in SUBSET Block
  BY ShapeInit DEF ShapeOK, TypeOK
<1>4. NoHole
  <2> SUFFICES ASSUME NEW n \in 0..MaxNumber(blocks), Above(n, before)
               PROVE  n \in Numbers(blocks)
    BY DEF NoHole
  <2>1. CASE blocks = {}
    BY <2>1 DEF MaxNumber, NoBlock
  <2>2. CASE blocks # {}
    <3>1. MaxNumber(blocks) \in before /\ MaxNumber(blocks) \in Heights
      BY <1>1, <1>2, <1>3, <2>2, MaxNumberOfNonEmpty
    <3>2. QED
      BY <3>1 DEF Above, Heights
  <2>3. QED
    BY <2>1, <2>2
<1>5. \A i \in Instances : ReachOK(i)
  BY DEF Init, ReachOK, InSync
<1>6. QED
  BY <1>4, <1>5 DEF HoleOK

(* Below the stored maximum, and one above it, everything is closed.       *)
LEMMA ClosedBelowMax ==
  ASSUME ShapeOK, NoHole, NEW limit \in Int, limit <= MaxNumber(blocks) + 1
  PROVE  Closed(limit, blocks, before)
<1>1. MaxNumber(blocks) \in Heights \cup {NoBlock}
  BY MaxNumberProperty DEF ShapeOK, TypeOK
<1>2. ASSUME NEW n \in Heights, n < limit
      PROVE  n \in 0..MaxNumber(blocks)
  BY <1>1, <1>2 DEF Heights, NoBlock
<1>3. QED
  BY <1>2 DEF NoHole, Closed

LEMMA ClosedDown ==
  ASSUME NEW limit \in Int, Closed(limit, blocks, before), NEW low \in Int, low <= limit
  PROVE  Closed(low, blocks, before)
BY DEF Closed, Heights

(* A step that keeps the numbers of the table keeps what is closed.        *)
LEMMA ClosedStays ==
  ASSUME Numbers(blocks) \subseteq Numbers(blocks'), NEW limit, Closed(limit, blocks, before)
  PROVE  Closed(limit, blocks', before)
BY DEF Closed

(* A step of one instance that writes no row.                              *)
LEMMA HoleElsewhere ==
  ASSUME ShapeOK, HoleOK, NEW i \in Instances, UNCHANGED <<before, blocks>>,
         \A j \in Instances \ {i} :
           /\ pc'[j] = pc[j] /\ startBlock'[j] = startBlock[j]
           /\ reorgAt'[j] = reorgAt[j],
         reorgAt'[i] = NoBlock,
         pc'[i] \in InSync => Closed(startBlock'[i], blocks, before)
  PROVE  HoleOK'
<1>1. NoHole'
  BY DEF HoleOK, NoHole
<1>2. ASSUME NEW j \in Instances PROVE ReachOK(j)'
  <2>1. /\ reorgAt'[j] = NoBlock
        /\ pc'[j] \in InSync => Closed(startBlock'[j], blocks, before)
    BY DEF HoleOK, ReachOK
  <2>2. QED
    BY <2>1 DEF ReachOK
<1>3. QED
  BY <1>1, <1>2 DEF HoleOK

(* How the steps that end or begin a batch move the instance.              *)
LEMMA EndsHole ==
  ASSUME ShapeOK, HoleOK, NEW i \in Instances, UNCHANGED <<before, blocks>>,
         Exit(i) \/ Throws(i) \/ SyncReturns(i)
  PROVE  HoleOK'
<1>1. ForgetBatch(i) /\ (Goto(i, "down") \/ Goto(i, "max") \/ Goto(i, "checkpoint"))
  BY DEF Exit, Throws, SyncReturns
<1>2. /\ reorgAt'[i] = NoBlock /\ pc'[i] \notin InSync
      /\ \A j \in Instances \ {i} :
           /\ pc'[j] = pc[j] /\ startBlock'[j] = startBlock[j]
           /\ reorgAt'[j] = reorgAt[j]
  BY <1>1 DEF ForgetBatch, Goto, InSync, ShapeOK, TypeOK
<1>3. QED
  BY <1>2, HoleElsewhere

LEMMA BeginHole ==
  ASSUME ShapeOK, HoleOK, NEW i \in Instances, UNCHANGED <<before, blocks>>,
         NEW first, NEW last, NEW parent,
         BeginBatch(i, first, last, parent), Closed(first, blocks, before)
  PROVE  HoleOK'
<1>1. /\ reorgAt'[i] = NoBlock /\ startBlock'[i] = first
      /\ \A j \in Instances \ {i} :
           /\ pc'[j] = pc[j] /\ startBlock'[j] = startBlock[j]
           /\ reorgAt'[j] = reorgAt[j]
  BY DEF BeginBatch, Goto, ShapeOK, TypeOK
<1>2. QED
  BY <1>1, HoleElsewhere

(* A block that does not hang on the one before it is stored differently   *)
(* only after a reorganisation of stored rows.  Where that cannot be, the  *)
(* branch of syncBatch that deletes rows does not run.                     *)
NoReorgBranch == \A i \in Instances : Fetched(i) /\ IsReorg(i) => Mismatched(i) = {}

LEMMA SoundFits == AllSound => NoReorgBranch
<1> SUFFICES ASSUME AllSound, NEW i \in Instances, IsReorg(i), NEW c \in Mismatched(i)
             PROVE  FALSE
  BY DEF NoReorgBranch
<1>1. c \in blocksToSave[i]
  BY DEF Mismatched
<1>2. PICK r \in blocks : r.number = c.number /\ r.hash # c.hash
  BY DEF IsReorg
<1>3. r = BlockAt(r.number) /\ c = BlockAt(c.number)
  BY <1>1 DEF AllSound, RowsSound, BatchSound, Sound
<1>4. QED
  BY <1>2, <1>3

LEMMA StartupHole ==
  ASSUME ShapeOK, HoleOK, NEW i \in Instances,
         \/ AcquireLock(i) \/ DetectGaps(i)
         \/ \E g \in gaps[i] : SkipGap(i, g) \/ RepairGap(i, g)
  PROVE  HoleOK'
<1>1. UNCHANGED <<before, blocks>>
  BY DEF AcquireLock, DetectGaps, SkipGap, GapDone, RepairGap, tableVars
<1>2. CASE Throws(i)
  BY <1>1, <1>2, EndsHole
<1>3. CASE /\ UNCHANGED <<startBlock, reorgAt>>
           /\ Goto(i, "gaps") \/ Goto(i, "max") \/ Goto(i, "gapTip")
  <2>1. pc'[i] \notin InSync /\ \A j \in Instances \ {i} : pc'[j] = pc[j]
    BY <1>3 DEF Goto, InSync, ShapeOK, TypeOK
  <2>2. QED
    BY <1>1, <1>3, <2>1, HoleElsewhere DEF HoleOK, ReachOK
<1>4. QED
  BY <1>2, <1>3 DEF AcquireLock, DetectGaps, SkipGap, GapDone, RepairGap, batchVars

LEMMA ToTipHole ==
  ASSUME ShapeOK, HoleOK, NEW i \in Instances, ReadMax(i) \/ ReadTip(i) \/ ReadParent(i)
  PROVE  HoleOK'
<1>1. UNCHANGED <<before, blocks>>
  BY DEF ReadMax, ReadTip, ReadParent, tableVars
<1>2. ReachOK(i) /\ NoHole
  BY DEF HoleOK
<1>3. CASE ReadMax(i)
  <2>1. /\ startBlock' = [startBlock EXCEPT ![i] = StartAfter(MaxNumber(blocks))]
        /\ Goto(i, "tip") /\ UNCHANGED <<reorgAt>>
    BY <1>3 DEF ReadMax
  <2>2. /\ startBlock'[i] = StartAfter(MaxNumber(blocks))
        /\ \A j \in Instances \ {i} : pc'[j] = pc[j] /\ startBlock'[j] = startBlock[j]
    BY <2>1 DEF Goto, ShapeOK, TypeOK
  <2>3. Closed(StartAfter(MaxNumber(blocks)), blocks, before)
    <3>1. MaxNumber(blocks) + 1 \in Int
      BY MaxNumberProperty DEF ShapeOK, TypeOK, Heights, NoBlock
    <3>2. QED
      BY <1>2, <3>1, ClosedBelowMax DEF StartAfter
  <2>4. QED
    BY <1>1, <1>2, <2>1, <2>2, <2>3, HoleElsewhere DEF ReachOK
<1>4. CASE ReadTip(i)
  <2>1. CASE UpToDate(startBlock[i], Target(head))
    BY <1>1, <1>4, <2>1, EndsHole DEF ReadTip
  <2>2. CASE ~ UpToDate(startBlock[i], Target(head))
    <3>1. UNCHANGED <<startBlock, reorgAt>> /\ Goto(i, "parent") /\ pc[i] = "tip"
      BY <1>4, <2>2 DEF ReadTip
    <3>2. \A j \in Instances \ {i} : pc'[j] = pc[j]
      BY <3>1 DEF Goto, ShapeOK, TypeOK
    <3>3. QED
      BY <1>1, <1>2, <3>1, <3>2, HoleElsewhere DEF ReachOK, InSync
  <2>3. QED
    BY <2>1, <2>2
<1>5. CASE ReadParent(i)
  <2>1. Closed(startBlock[i], blocks, before)
    BY <1>2, <1>5 DEF ReadParent, ReachOK, InSync
  <2>2. QED
    BY <1>1, <1>5, <2>1, BeginHole DEF ReadParent
<1>6. QED
  BY <1>3, <1>4, <1>5

LEMMA BatchHole ==
  ASSUME ShapeOK, NoReorgBranch, HoleOK, NEW i \in Instances,
         \/ \E n \in Heights : FetchBlock(i, n) \/ FetchMissing(i, n)
         \/ ChainValid(i) \/ ChainDiscontinuity(i) \/ GetTransferEvents(i)
         \/ CallFails(i) \/ Crash(i)
  PROVE  HoleOK'
<1>1. UNCHANGED <<before, blocks>>
  BY DEF FetchBlock, FetchMissing, ChainValid, ChainDiscontinuity, GetTransferEvents,
         CallFails, Crash, tableVars
<1>2. ReachOK(i)
  BY DEF HoleOK
<1>3. CASE \E n \in Heights : FetchBlock(i, n)
  <2>1. UNCHANGED <<pc, startBlock, reorgAt>>
    BY <1>3 DEF FetchBlock, procVars
  <2>2. QED
    BY <1>1, <1>2, <2>1, HoleElsewhere DEF ReachOK
<1>4. CASE ChainValid(i)
  <2>1. /\ pc[i] = "fetch" /\ Goto(i, "logs") /\ UNCHANGED startBlock
        /\ reorgAt' = [reorgAt EXCEPT ![i] = NoBlock]
    BY <1>4 DEF NoReorgBranch, ChainValid, Fetched, MaxNumber
  <2>2. /\ reorgAt'[i] = NoBlock
        /\ \A j \in Instances \ {i} : pc'[j] = pc[j] /\ reorgAt'[j] = reorgAt[j]
    BY <2>1 DEF Goto, ShapeOK, TypeOK
  <2>3. QED
    BY <1>1, <1>2, <2>1, <2>2, HoleElsewhere DEF ReachOK, InSync
<1>5. CASE GetTransferEvents(i)
  <2>1. pc[i] = "logs" /\ Goto(i, "commit") /\ UNCHANGED <<startBlock, reorgAt>>
    BY <1>5 DEF GetTransferEvents
  <2>2. \A j \in Instances \ {i} : pc'[j] = pc[j]
    BY <2>1 DEF Goto, ShapeOK, TypeOK
  <2>3. QED
    BY <1>1, <1>2, <2>1, <2>2, HoleElsewhere DEF ReachOK, InSync
<1>6. CASE \/ \E n \in Heights : FetchMissing(i, n)
           \/ ChainDiscontinuity(i) \/ CallFails(i) \/ Crash(i)
  <2>1. Throws(i) \/ Exit(i)
    BY <1>6 DEF FetchMissing, ChainDiscontinuity, CallFails, Crash
  <2>2. QED
    BY <1>1, <2>1, EndsHole
<1>7. QED
  BY <1>3, <1>4, <1>5, <1>6

(* The numbers of a table after a batch that deletes nothing.              *)
LEMMA NumbersUpserted ==
  ASSUME NEW i \in Instances, reorgAt[i] = NoBlock
  PROVE  Numbers(Upserted(i)) = Numbers(blocks) \cup Numbers(blocksToSave[i])
BY DEF Upserted, Kept, Numbers

(* Where a commit leads: the next batch begins after the one just written. *)
LEMMA CommitMoves ==
  ASSUME ShapeOK, NEW i \in Instances, Commit(i)
  PROVE  /\ reorgAt'[i] = NoBlock
         /\ pc'[i] \in InSync => startBlock'[i] = endBlock[i] + 1
         /\ \A j \in Instances \ {i} :
              /\ pc'[j] = pc[j] /\ startBlock'[j] = startBlock[j]
              /\ reorgAt'[j] = reorgAt[j]
<1>1. CASE UpToDate(endBlock[i] + 1, targetBlock[i])
  <2>1. ForgetBatch(i) /\ Goto(i, "checkpoint")
    BY <1>1 DEF Commit, BatchReturns, SyncReturns
  <2>2. QED
    BY <2>1 DEF ForgetBatch, Goto, InSync, ShapeOK, TypeOK
<1>2. CASE ~ UpToDate(endBlock[i] + 1, targetBlock[i])
  <2>1. BeginBatch(i, endBlock[i] + 1, BatchEnd(endBlock[i] + 1, targetBlock[i]), LastHash(i))
    BY <1>2 DEF Commit, BatchReturns
  <2>2. QED
    BY <2>1 DEF BeginBatch, Goto, ShapeOK, TypeOK
<1>3. QED
  BY <1>1, <1>2

LEMMA CommitHole ==
  ASSUME ShapeOK, HoleOK, NEW i \in Instances, Commit(i), blocks' \in SUBSET Block
  PROVE  HoleOK'
<1>1. /\ blocks' = Upserted(i) /\ before' = before /\ pc[i] = "commit"
      /\ Numbers(blocksToSave[i]) = startBlock[i]..endBlock[i]
      /\ startBlock[i] \in Int /\ endBlock[i] \in Int
  BY DEF Commit, ShapeOK, LocalShapeOK, BatchComplete, TypeOK, Heights
<1>2. /\ Closed(startBlock[i], blocks, before) /\ reorgAt[i] = NoBlock
      /\ NoHole
  BY <1>1 DEF HoleOK, ReachOK, InSync
<1>3. Numbers(blocks') = Numbers(blocks) \cup (startBlock[i]..endBlock[i])
  BY <1>1, <1>2, NumbersUpserted
<1>4. Closed(endBlock[i] + 1, blocks', before)
  <2> SUFFICES ASSUME NEW n \in Heights, n < endBlock[i] + 1, Above(n, before)
               PROVE  n \in Numbers(blocks')
    BY DEF Closed
  <2>1. CASE n < startBlock[i]
    BY <1>2, <1>3, <2>1 DEF Closed
  <2>2. CASE ~ (n < startBlock[i])
    BY <1>1, <1>3, <2>2 DEF Heights
  <2>3. QED
    BY <2>1, <2>2
<1>5. NoHole'
  <2> SUFFICES ASSUME NEW n \in 0..MaxNumber(blocks'), Above(n, before)
               PROVE  n \in Numbers(blocks')
    BY <1>1 DEF NoHole
  <2>1. /\ MaxNumber(blocks) \in Heights \cup {NoBlock}
        /\ \A r \in blocks : r.number <= MaxNumber(blocks)
    BY MaxNumberProperty DEF ShapeOK, TypeOK
  <2>2. MaxNumber(blocks') \in Heights \cup {NoBlock}
    BY MaxNumberProperty
  <2>3. blocks' # {}
    BY <2>2 DEF MaxNumber, NoBlock
  <2>4. MaxNumber(blocks') \in Numbers(blocks')
    BY <2>3, MaxNumberOfNonEmpty
  <2>5. n \in Heights
    BY <2>2 DEF Heights, NoBlock
  <2>6. CASE MaxNumber(blocks') \in Numbers(blocks)
    <3>1. MaxNumber(blocks') <= MaxNumber(blocks)
      BY <2>1, <2>6 DEF Numbers
    <3>2. n \in 0..MaxNumber(blocks)
      BY <2>1, <2>2, <2>5, <3>1 DEF Heights, NoBlock
    <3>3. QED
      BY <1>2, <1>3, <3>2 DEF NoHole
  <2>7. CASE MaxNumber(blocks') \in startBlock[i]..endBlock[i]
    <3>1. n < endBlock[i] + 1
      BY <1>1, <2>5, <2>7 DEF Heights
    <3>2. QED
      BY <1>4, <2>5, <3>1 DEF Closed
  <2>8. QED
    BY <1>3, <2>4, <2>6, <2>7
<1>6. \A limit : Closed(limit, blocks, before) => Closed(limit, blocks', before)
  BY <1>3, ClosedStays
<1>7. /\ reorgAt'[i] = NoBlock
      /\ pc'[i] \in InSync => startBlock'[i] = endBlock[i] + 1
      /\ \A j \in Instances \ {i} :
           /\ pc'[j] = pc[j] /\ startBlock'[j] = startBlock[j]
           /\ reorgAt'[j] = reorgAt[j]
  BY CommitMoves
<1>8. \A j \in Instances : ReachOK(j)'
  <2>1. ReachOK(i)'
    BY <1>1, <1>4, <1>7 DEF ReachOK
  <2>2. \A j \in Instances \ {i} : ReachOK(j)'
    BY <1>1, <1>6, <1>7 DEF HoleOK, ReachOK
  <2>3. QED
    BY <2>1, <2>2
<1>9. QED
  BY <1>5, <1>8 DEF HoleOK

LEMMA HoleStep ==
  ASSUME ShapeOK, NoReorgBranch, HoleOK, [Next]_vars
  PROVE  HoleOK'
<1>1. CASE UNCHANGED vars
  BY <1>1 DEF vars, tableVars, batchVars, procVars, HoleOK, NoHole, ReachOK, Closed
<1>2. CASE NodeMines \/ \E k \in Heights : NodeReorgs(k)
  <2>1. UNCHANGED <<tableVars, batchVars, procVars>>
    BY <1>2 DEF NodeMines, NodeReorgs
  <2>2. QED
    BY <2>1 DEF tableVars, batchVars, procVars, HoleOK, NoHole, ReachOK, Closed
<1>3. ASSUME NEW i \in Instances, Progress(i) \/ Disturbance(i)
      PROVE  HoleOK'
  <2>1. CASE Commit(i)
    <3>1. blocks' \in SUBSET Block
      BY ShapeStep DEF ShapeOK, TypeOK
    <3>2. QED
      BY <2>1, <3>1, CommitHole
  <2>2. CASE UpdateCheckpoint(i) \/ InsertCheckpoint(i) \/ SessionCloses(i)
    <3>1. /\ UNCHANGED <<before, blocks, startBlock, reorgAt>>
          /\ pc' = pc \/ Goto(i, "max") \/ Goto(i, "insert")
      BY <2>2, CheckpointKeeps DEF batchVars
    <3>2. /\ pc'[i] \in InSync => pc[i] \in InSync
          /\ \A j \in Instances \ {i} : pc'[j] = pc[j]
      BY <3>1 DEF Goto, InSync, ShapeOK, TypeOK
    <3>3. QED
      BY <3>1, <3>2, HoleElsewhere DEF HoleOK, ReachOK
  <2>3. CASE CheckpointConflicts(i)
    BY <2>3, EndsHole DEF CheckpointConflicts, tableVars
  <2>4. QED
    BY <1>3, <2>1, <2>2, <2>3, StartupHole, ToTipHole, BatchHole DEF Progress, Disturbance
<1>4. QED
  BY <1>1, <1>2, <1>3 DEF Next

(* Under the same assumption the table never has a hole above the rows     *)
(* another indexer left, whatever instances write it, fail and crash.      *)
THEOREM NoHoleAppears ==
  ASSUME Finality <= ConfirmationDepth
  PROVE  Spec => []NoHole
<1>1. Init => HoleOK
  BY HoleInit
<1>2. ShapeOK /\ AllSound /\ HoleOK /\ [Next]_vars => HoleOK'
  BY SoundFits, HoleStep
<1>3. HoleOK => NoHole
  BY DEF HoleOK
<1>4. QED
  BY <1>1, <1>2, <1>3, SoundInvariant, PTL DEF Spec

-----------------------------------------------------------------------------
(* A gap that is seen and covered by the chain comes before anything else. *)
(* Nobody writes above it, so what an instance that writes knows of the    *)
(* rows that were there at first holds: it starts above all of them.       *)
StartsAbove(i) == pc[i] \in InSync => \A m \in before : m < startBlock[i]

HeldUp(i) ==
  /\ startup[i] /\ pc[i] \in {"down", "gaps", "gapTip"}
  /\ pc[i] = "gapTip" => gaps[i] \subseteq SeenGaps(blocks)

FirstOK ==
  /\ before \subseteq Numbers(blocks)
  /\ \A i \in Instances : StartsAbove(i)
  /\ SeenGaps(blocks) # {} => \A i \in Instances : HeldUp(i)

LEMMA FirstInit == Init => FirstOK
<1> SUFFICES ASSUME Init PROVE FirstOK
  OBVIOUS
<1>1. blocks = {BlockAt(n) : n \in before} /\ \A n \in before : BlockAt(n).number = n
  BY DEF Init, BlockAt
<1>2. before \subseteq Numbers(blocks)
  BY <1>1 DEF Numbers
<1>3. QED
  BY <1>2 DEF Init, FirstOK, StartsAbove, HeldUp, InSync

(* A gap lies below a stored row, which is final: the chain covers it.     *)
LEMMA GapsAreCovered ==
  ASSUME ShapeOK, AllSound, NEW g \in GapsOf(blocks)
  PROVE  g[1] <= head
<1> DEFINE last(b) == Min({n \in Numbers(blocks) : n > b.number}) - 1
<1>0. \E b \in blocks : b.number < MaxNumber(blocks) /\ g = <<b.number + 1, last(b)>>
  BY DEF GapsOf
<1> HIDE DEF last
<1>1. PICK b \in blocks : b.number < MaxNumber(blocks) /\ g[1] = b.number + 1
  BY <1>0
<1>2. MaxNumber(blocks) \in Numbers(blocks)
  BY <1>1, MaxNumberOfNonEmpty DEF ShapeOK, TypeOK
<1>3. PICK c \in blocks : c.number = MaxNumber(blocks)
  BY <1>2 DEF Numbers
<1>4. b.number \in Heights /\ c.number \in Heights /\ head \in Heights
  BY DEF ShapeOK, TypeOK, ChainTypeOK, Block
<1>5. c.number <= head
  BY <1>4 DEF AllSound, RowsSound, Sound, FinalIsMined
<1>6. QED
  BY <1>1, <1>3, <1>4, <1>5 DEF Heights

(* A step of one instance that writes no row.                              *)
LEMMA FirstElsewhere ==
  ASSUME FirstOK, NEW i \in Instances, UNCHANGED <<before, blocks>>,
         \A j \in Instances \ {i} :
           /\ pc'[j] = pc[j] /\ startBlock'[j] = startBlock[j]
           /\ startup'[j] = startup[j] /\ gaps'[j] = gaps[j],
         pc'[i] \in InSync => \A m \in before : m < startBlock'[i],
         SeenGaps(blocks) # {} => HeldUp(i)'
  PROVE  FirstOK'
<1>1. SeenGaps(blocks)' = SeenGaps(blocks)
  BY DEF SeenGaps, GapsOf
<1>2. \A j \in Instances : StartsAbove(j)'
  BY DEF FirstOK, StartsAbove
<1>3. ASSUME SeenGaps(blocks) # {}, NEW j \in Instances
      PROVE  HeldUp(j)'
  BY <1>1, <1>3 DEF FirstOK, HeldUp
<1>4. QED
  BY <1>1, <1>2, <1>3 DEF FirstOK

(* At startup every error ends the process, and the next start begins with *)
(* the gaps again.                                                         *)
LEMMA ErrorFirst ==
  ASSUME ShapeOK, FirstOK, NEW i \in Instances, UNCHANGED <<before, blocks>>,
         Throws(i) \/ Exit(i)
  PROVE  FirstOK'
<1>1. /\ \A j \in Instances \ {i} :
           /\ pc'[j] = pc[j] /\ startBlock'[j] = startBlock[j]
           /\ startup'[j] = startup[j] /\ gaps'[j] = gaps[j]
      /\ pc'[i] \notin InSync
  BY DEF Throws, Exit, ForgetBatch, Goto, InSync, ShapeOK, TypeOK
<1>2. ASSUME SeenGaps(blocks) # {} PROVE HeldUp(i)'
  <2>1. startup[i]
    BY <1>2 DEF FirstOK, HeldUp
  <2>2. Exit(i)
    BY <2>1 DEF Throws
  <2>3. QED
    BY <2>2 DEF HeldUp, Exit, Goto, ShapeOK, TypeOK
<1>3. QED
  BY <1>1, <1>2, FirstElsewhere

LEMMA StartupFirst ==
  ASSUME ShapeOK, AllSound, FirstOK, NEW i \in Instances,
         \/ AcquireLock(i) \/ DetectGaps(i)
         \/ \E g \in gaps[i] : SkipGap(i, g) \/ RepairGap(i, g)
  PROVE  FirstOK'
<1>1. UNCHANGED <<before, blocks>>
  BY DEF AcquireLock, DetectGaps, SkipGap, GapDone, RepairGap, tableVars
<1>2. SeenGaps(blocks)' = SeenGaps(blocks)
  BY <1>1 DEF SeenGaps, GapsOf
<1>3. CASE \E g \in gaps[i] : RepairGap(i, g)
  BY <1>1, <1>3, ErrorFirst DEF RepairGap
<1>4. CASE AcquireLock(i) \/ DetectGaps(i)
  <2>1. /\ pc'[i] \in {"gaps", "max", "gapTip"}
        /\ \A j \in Instances \ {i} :
             /\ pc'[j] = pc[j] /\ startBlock'[j] = startBlock[j]
             /\ startup'[j] = startup[j] /\ gaps'[j] = gaps[j]
    BY <1>4 DEF AcquireLock, DetectGaps, Goto, batchVars, ShapeOK, TypeOK
  <2>2. ASSUME SeenGaps(blocks) # {} PROVE HeldUp(i)'
    <3>1. startup'[i]
      BY <1>4, <2>2 DEF FirstOK, HeldUp, AcquireLock, DetectGaps
    <3>2. CASE AcquireLock(i)
      BY <3>1, <3>2 DEF HeldUp, AcquireLock, Goto, ShapeOK, TypeOK
    <3>3. CASE DetectGaps(i)
      <4>1. pc'[i] = "gapTip" /\ gaps'[i] = SeenGaps(blocks)
        BY <2>2, <3>3 DEF DetectGaps, Goto, ShapeOK, TypeOK
      <4>2. QED
        BY <1>2, <3>1, <4>1 DEF HeldUp
    <3>4. QED
      BY <1>4, <3>2, <3>3
  <2>3. QED
    BY <1>1, <2>1, <2>2, FirstElsewhere DEF InSync
<1>5. ASSUME NEW g \in gaps[i], SkipGap(i, g)
      PROVE  FirstOK'
  <2>1. /\ pc[i] = "gapTip" /\ g[1] > head
        /\ pc'[i] \in {"max", "gapTip"}
        /\ \A j \in Instances \ {i} :
             /\ pc'[j] = pc[j] /\ startBlock'[j] = startBlock[j]
             /\ startup'[j] = startup[j] /\ gaps'[j] = gaps[j]
    BY <1>5 DEF SkipGap, GapDone, Goto, batchVars, ShapeOK, TypeOK
  <2>2. SeenGaps(blocks) = {}
    <3> SUFFICES ASSUME SeenGaps(blocks) # {} PROVE FALSE
      OBVIOUS
    <3>1. g \in GapsOf(blocks)
      BY <2>1 DEF FirstOK, HeldUp, SeenGaps
    <3>2. g \in Heights \X Heights /\ g[1] <= head
      BY <3>1, GapsAreCovered, GapsOfType DEF ShapeOK, TypeOK
    <3>3. g[1] \in Int /\ head \in Int
      BY <3>2 DEF ShapeOK, TypeOK, ChainTypeOK, Heights
    <3>4. QED
      BY <2>1, <3>2, <3>3
  <2>3. QED
    BY <1>1, <2>1, <2>2, FirstElsewhere DEF InSync
<1>6. QED
  BY <1>3, <1>4, <1>5

(* An instance that is past the gaps: there is none that is seen.          *)
LEMMA PastTheGaps ==
  ASSUME FirstOK, NEW i \in Instances, pc[i] \notin {"down", "gaps", "gapTip"}
  PROVE  SeenGaps(blocks) = {}
BY DEF FirstOK, HeldUp

LEMMA SyncFirst ==
  ASSUME ShapeOK, FirstOK, NEW i \in Instances,
         \/ ReadMax(i) \/ ReadTip(i) \/ ReadParent(i)
         \/ \E n \in Heights : FetchBlock(i, n)
         \/ ChainValid(i) \/ GetTransferEvents(i)
         \/ UpdateCheckpoint(i) \/ InsertCheckpoint(i)
  PROVE  FirstOK'
<1>1. /\ UNCHANGED <<before, blocks>>
      /\ \A j \in Instances \ {i} :
           /\ pc'[j] = pc[j] /\ startBlock'[j] = startBlock[j]
           /\ startup'[j] = startup[j] /\ gaps'[j] = gaps[j]
  BY DEF ReadMax, ReadTip, SyncReturns, ReadParent, BeginBatch, FetchBlock, ChainValid,
         GetTransferEvents, UpdateCheckpoint, InsertCheckpoint, TurnEnds, ForgetBatch, Goto,
         tableVars, batchVars, procVars, ShapeOK, TypeOK
<1>2. SeenGaps(blocks) = {}
  BY PastTheGaps
     DEF ReadMax, ReadTip, ReadParent, FetchBlock, ChainValid, Fetched, GetTransferEvents,
         UpdateCheckpoint, InsertCheckpoint
<1>3. \A m \in before : m \in Heights /\ m <= MaxNumber(blocks)
  BY MaxNumberProperty DEF FirstOK, Numbers, ShapeOK, TypeOK
<1>4. pc'[i] \in InSync => \A m \in before : m < startBlock'[i]
  <2>1. CASE ReadMax(i)
    <3>1. startBlock'[i] = MaxNumber(blocks) + 1
      BY <2>1 DEF ReadMax, StartAfter, ShapeOK, TypeOK
    <3>2. MaxNumber(blocks) \in Int /\ before \subseteq Int
      BY <1>3, MaxNumberProperty DEF ShapeOK, TypeOK, Heights, NoBlock
    <3>3. \A m \in before : m <= MaxNumber(blocks)
      BY <1>3, Zenon
    <3>4. \A m \in before : m < MaxNumber(blocks) + 1
      BY <3>2, <3>3
    <3>5. QED
      BY <3>1, <3>4, Zenon
  <2>2. CASE UpdateCheckpoint(i) \/ InsertCheckpoint(i)
    BY <2>2 DEF UpdateCheckpoint, InsertCheckpoint, TurnEnds, Goto, InSync, ShapeOK, TypeOK
  <2>3. CASE \/ ReadParent(i) \/ \E n \in Heights : FetchBlock(i, n)
             \/ ChainValid(i) \/ GetTransferEvents(i)
    <3>1. pc[i] \in InSync /\ startBlock'[i] = startBlock[i]
      BY <2>3 DEF ReadParent, BeginBatch, FetchBlock, ChainValid, Fetched, GetTransferEvents,
                  InSync, ShapeOK, TypeOK
    <3>2. QED
      BY <3>1 DEF FirstOK, StartsAbove
  <2>4. CASE ReadTip(i)
    <3>1. CASE UpToDate(startBlock[i], Target(head))
      BY <2>4, <3>1 DEF ReadTip, SyncReturns, Goto, InSync, ShapeOK, TypeOK
    <3>2. CASE ~ UpToDate(startBlock[i], Target(head))
      <4>1. pc[i] \in InSync /\ startBlock' = startBlock
        BY <2>4, <3>2 DEF ReadTip, InSync
      <4>2. QED
        BY <4>1 DEF FirstOK, StartsAbove
    <3>3. QED
      BY <3>1, <3>2
  <2>5. QED
    BY <2>1, <2>2, <2>3, <2>4
<1>5. QED
  BY <1>1, <1>2, <1>4, FirstElsewhere

(* A batch above the rows that were there at first opens no gap.           *)
LEMMA NoNewGap ==
  ASSUME ShapeOK, ShapeOK', HoleOK, HoleOK', FirstOK, NEW i \in Instances, Commit(i)
  PROVE  GapsOf(blocks') \subseteq GapsOf(blocks)
<1> SUFFICES ASSUME NEW g \in GapsOf(blocks')
             PROVE  g \in GapsOf(blocks)
  OBVIOUS
<1> DEFINE above(b) == {n \in Numbers(blocks) : n > b.number}
           aboveNow(b) == {n \in Numbers(blocks') : n > b.number}
<1>1. /\ Numbers(blocks') = Numbers(blocks) \cup (startBlock[i]..endBlock[i])
      /\ blocks' = Upserted(i) /\ before' = before
      /\ Numbers(blocksToSave[i]) = startBlock[i]..endBlock[i]
      /\ \A m \in before : m < startBlock[i]
  <2>1. pc[i] = "commit" /\ blocks' = Upserted(i) /\ before' = before
    BY DEF Commit
  <2>2. Numbers(blocksToSave[i]) = startBlock[i]..endBlock[i]
    BY <2>1 DEF ShapeOK, LocalShapeOK, BatchComplete
  <2>3. reorgAt[i] = NoBlock
    BY DEF HoleOK, ReachOK
  <2>4. \A m \in before : m < startBlock[i]
    BY <2>1 DEF FirstOK, StartsAbove, InSync
  <2>5. QED
    BY <2>1, <2>2, <2>3, <2>4, NumbersUpserted
<1>2. /\ blocks \in SUBSET Block /\ blocks' \in SUBSET Block /\ before \subseteq Heights
      /\ before \subseteq Numbers(blocks)
      /\ startBlock[i] \in Int /\ endBlock[i] \in Int
  BY DEF ShapeOK, TypeOK, FirstOK, Heights
<1>3. PICK b \in blocks' : /\ b.number < MaxNumber(blocks')
                           /\ b.number + 1 \notin Numbers(blocks')
                           /\ g = <<b.number + 1, Min(aboveNow(b)) - 1>>
  BY DEF GapsOf
<1>4. b.number \in Int /\ b.number + 1 \in 0..MaxNumber(blocks')
  <2>1. b.number \in Nat /\ MaxNumber(blocks') \in Int
    BY <1>2, MaxNumberProperty DEF Block, Heights, NoBlock
  <2>2. QED
    BY <1>3, <2>1
<1>5. PICK m \in before : ~ (m < b.number + 1)
  <2>1. NoHole'
    BY DEF HoleOK
  <2>2. ~ Above(b.number + 1, before)
    BY <1>1, <1>3, <1>4, <2>1 DEF NoHole
  <2>3. QED
    BY <2>2 DEF Above
<1>6. m \in Int /\ m \in Numbers(blocks) /\ b.number < m /\ m < startBlock[i]
  BY <1>1, <1>2, <1>4, <1>5 DEF Heights
<1>7. b \in blocks
  <2>1. b.number \notin startBlock[i]..endBlock[i]
    BY <1>2, <1>4, <1>6
  <2>2. b \notin blocksToSave[i]
    BY <1>1, <2>1 DEF Numbers
  <2>3. QED
    BY <1>1, <2>2 DEF Upserted
<1>8. b.number < MaxNumber(blocks)
  <2>1. m <= MaxNumber(blocks) /\ MaxNumber(blocks) \in Int
    BY <1>2, <1>6, MaxNumberProperty DEF Numbers, Heights, NoBlock
  <2>2. QED
    BY <1>4, <1>6, <2>1
<1>9. Min(aboveNow(b)) = Min(above(b))
  <2>1. /\ Min(above(b)) \in above(b)
        /\ \A n \in above(b) : Min(above(b)) <= n
    BY <1>2, <1>7, <1>8, NextNumber
  <2>2. \A n \in aboveNow(b) : n \in Int
    BY <1>2 DEF Numbers, Block, Heights
  <2>3. Min(above(b)) \in aboveNow(b)
    BY <1>1, <2>1
  <2>4. Min(above(b)) <= m
    BY <1>6, <2>1
  <2>5. ASSUME NEW n \in aboveNow(b) PROVE Min(above(b)) <= n
    <3>1. CASE n \in Numbers(blocks)
      BY <2>1, <3>1
    <3>2. CASE n \in startBlock[i]..endBlock[i]
      <4>1. Min(above(b)) \in Int /\ n \in Int
        BY <2>2, <2>3
      <4>2. m < startBlock[i] /\ startBlock[i] <= n /\ m \in Int /\ startBlock[i] \in Int
        BY <1>2, <1>6, <3>2
      <4> HIDE DEF above, aboveNow
      <4>3. QED
        BY <2>4, <4>1, <4>2
    <3>3. QED
      BY <1>1, <3>1, <3>2
  <2>6. /\ Min(aboveNow(b)) \in aboveNow(b)
        /\ \A n \in aboveNow(b) : Min(aboveNow(b)) <= n
    BY <1>2, <1>3, NextNumber
  <2> HIDE DEF above, aboveNow
  <2>7. Min(aboveNow(b)) <= Min(above(b)) /\ Min(above(b)) <= Min(aboveNow(b))
    BY <2>3, <2>5, <2>6
  <2>8. QED
    BY <2>2, <2>3, <2>6, <2>7
<1>10. b.number + 1 \notin Numbers(blocks)
  BY <1>1, <1>3
<1>11. QED
  BY <1>3, <1>7, <1>8, <1>9, <1>10 DEF GapsOf

LEMMA CommitFirst ==
  ASSUME ShapeOK, ShapeOK', HoleOK, HoleOK', FirstOK, NEW i \in Instances, Commit(i)
  PROVE  FirstOK'
<1>1. /\ blocks' = Upserted(i) /\ before' = before /\ pc[i] = "commit"
      /\ startBlock[i] <= endBlock[i] /\ startBlock[i] \in Int /\ endBlock[i] \in Int
  BY DEF Commit, ShapeOK, LocalShapeOK, BatchComplete, TypeOK, Heights
<1>2. before \subseteq Numbers(blocks')
  BY <1>1, NumbersUpserted DEF FirstOK, HoleOK, ReachOK
<1>3. \A j \in Instances : StartsAbove(j)'
  <2>1. /\ pc'[i] \in InSync => startBlock'[i] = endBlock[i] + 1
        /\ \A j \in Instances \ {i} : pc'[j] = pc[j] /\ startBlock'[j] = startBlock[j]
    BY CommitMoves
  <2>2. before \subseteq Int /\ \A m \in before : m < startBlock[i]
    <3>1. before \subseteq Int
      BY DEF ShapeOK, TypeOK, Heights
    <3>2. pc[i] \in InSync
      BY <1>1 DEF InSync
    <3>3. QED
      BY <3>1, <3>2 DEF FirstOK, StartsAbove
  <2>3. ASSUME NEW m \in before PROVE m < endBlock[i] + 1
    <3>1. m \in Int /\ m < startBlock[i]
      BY <2>2
    <3>2. QED
      BY <1>1, <3>1
  <2>4. QED
    BY <1>1, <2>1, <2>3 DEF FirstOK, StartsAbove
<1>4. SeenGaps(blocks)' = {}
  <2>1. SeenGaps(blocks) = {}
    BY <1>1, PastTheGaps
  <2>2. QED
    BY <2>1, NoNewGap DEF SeenGaps
<1>5. QED
  BY <1>1, <1>2, <1>3, <1>4 DEF FirstOK

LEMMA FirstStep ==
  ASSUME ShapeOK, ShapeOK', AllSound, HoleOK, HoleOK', FirstOK, [Next]_vars
  PROVE  FirstOK'
<1>1. CASE UNCHANGED vars \/ NodeMines \/ \E k \in Heights : NodeReorgs(k)
  <2>1. UNCHANGED <<tableVars, batchVars, procVars>>
    BY <1>1 DEF NodeMines, NodeReorgs, vars
  <2>2. QED
    <3>1. UNCHANGED <<before, blocks, pc, startBlock, startup, gaps>>
      BY <2>1 DEF tableVars, batchVars, procVars
    <3>2. QED
      BY <3>1 DEF FirstOK, StartsAbove, HeldUp, SeenGaps, GapsOf
<1>2. ASSUME NEW i \in Instances, Progress(i) \/ Disturbance(i)
      PROVE  FirstOK'
  <2>1. CASE \/ \E n \in Heights : FetchMissing(i, n)
             \/ ChainDiscontinuity(i) \/ CheckpointConflicts(i) \/ CallFails(i) \/ Crash(i)
    BY <2>1, ErrorFirst
       DEF FetchMissing, ChainDiscontinuity, CheckpointConflicts, CallFails, Crash, tableVars
  <2>2. CASE SessionCloses(i)
    <3>1. UNCHANGED <<before, blocks, pc, startBlock, startup, gaps>>
      BY <2>2 DEF SessionCloses, tableVars, batchVars
    <3>2. QED
      BY <3>1 DEF FirstOK, StartsAbove, HeldUp, SeenGaps, GapsOf
  <2>3. QED
    BY <1>2, <2>1, <2>2, StartupFirst, SyncFirst, CommitFirst DEF Progress, Disturbance
<1>3. QED
  BY <1>1, <1>2 DEF Next

(* Under the same assumption nobody writes a block while a gap that is     *)
(* seen is open: the sync waits for a repair that throws.                  *)
THEOREM GapsStopTheSync ==
  ASSUME Finality <= ConfirmationDepth
  PROVE  Spec => GapsComeFirst
<1>1. Init => HoleOK /\ FirstOK
  BY HoleInit, FirstInit
<1>2. (ShapeOK /\ AllSound) /\ (HoleOK /\ FirstOK) /\ [Next]_vars => (HoleOK /\ FirstOK)'
  BY ShapeStep, SoundFits, HoleStep, FirstStep
<1>3. (ShapeOK /\ AllSound) /\ (HoleOK /\ FirstOK) /\ [Next]_vars
        => [OpenGaps # {} => blocks' = blocks]_blocks
  <2> SUFFICES ASSUME ShapeOK, FirstOK, [Next]_vars, OpenGaps # {}
               PROVE  blocks' = blocks
    OBVIOUS
  <2>1. SeenGaps(blocks) # {}
    BY DEF OpenGaps
  <2>2. \A i \in Instances : ~ Commit(i)
    BY <2>1, PastTheGaps DEF Commit
  <2>3. QED
    BY <2>2, CheckpointKeeps
       DEF Next, vars, tableVars, NodeMines, NodeReorgs, Progress, Disturbance, AcquireLock,
           DetectGaps, SkipGap, GapDone, RepairGap, ReadMax, ReadTip, ReadParent, FetchBlock,
           FetchMissing, ChainValid, ChainDiscontinuity, GetTransferEvents,
           CheckpointConflicts, CallFails, Crash
<1>4. QED
  BY <1>1, <1>2, <1>3, SoundInvariant, PTL DEF Spec, GapsComeFirst

-----------------------------------------------------------------------------
(* The refinement of FinalLog.  Only a commit writes the tables, and what  *)
(* it writes is a batch of final blocks: nothing is deleted, a row that is *)
(* stored already is replaced by itself, an event that loses against a     *)
(* stored one is that event.                                               *)
LEMMA FinalBlocksAre ==
  ASSUME NEW b \in Block
  PROVE  Sound(b) <=> b \in FinalBlocks
<1>1. b.number \in Heights
  BY DEF Block
<1>2. ASSUME Sound(b) PROVE b \in FinalBlocks
  BY <1>1, <1>2 DEF Sound, Final, FinalBlocks
<1>3. ASSUME b \in FinalBlocks PROVE Sound(b)
  <2>1. PICK n \in Heights : (n = 0 \/ n + Finality <= peak) /\ b = BlockAt(n)
    BY <1>3 DEF FinalBlocks
  <2>2. b.number = n
    BY <2>1 DEF BlockAt
  <2>3. QED
    BY <2>1, <2>2 DEF Sound, Final
<1>4. QED
  BY <1>2, <1>3

LEMMA LogInit ==
  ASSUME Finality <= ConfirmationDepth, Init
  PROVE  Log!Init
<1>1. ShapeOK /\ AllSound
  BY ShapeInit, SoundInit
<1>2. blocks \subseteq FinalBlocks
  BY <1>1, FinalBlocksAre DEF ShapeOK, TypeOK, AllSound, RowsSound
<1>3. QED
  BY <1>2 DEF Log!Init, Init

LEMMA NodeFinalises ==
  ASSUME ShapeOK, AllSound, NodeMines \/ \E k \in Heights : NodeReorgs(k)
  PROVE  Log!Finalise
<1>1. \A n \in Heights : Final(n) => Final(n)' /\ BlockAt(n)' = BlockAt(n)
  BY NodeKeepsFinal DEF AllSound
<1>2. ASSUME NEW b \in FinalBlocks PROVE b \in FinalBlocks'
  <2>1. PICK n \in Heights : (n = 0 \/ n + Finality <= peak) /\ b = BlockAt(n)
    BY DEF FinalBlocks
  <2>2. (n = 0 \/ n + Finality <= peak') /\ b = BlockAt(n)'
    BY <1>1, <2>1 DEF Final
  <2>3. QED
    BY <2>2 DEF FinalBlocks
<1>3. UNCHANGED <<blocks, transfers>>
  BY DEF NodeMines, NodeReorgs, tableVars
<1>4. QED
  BY <1>2, <1>3 DEF Log!Finalise

LEMMA FinalBlocksStay == UNCHANGED nodeVars => FinalBlocks' = FinalBlocks
BY DEF FinalBlocks, BlockAt, nodeVars, chainVars

LEMMA CommitStores ==
  ASSUME ShapeOK, AllSound, EventsOK, HoleOK, NEW i \in Instances, Commit(i)
  PROVE  Log!Store(blocksToSave[i]) /\ blocksToSave[i] \in SUBSET FinalBlocks
<1>1. /\ blocks' = Upserted(i) /\ transfers' = TransfersSaved(i)
      /\ logs[i] = {b.hash : b \in blocksToSave[i]}
      /\ UNCHANGED nodeVars
      /\ reorgAt[i] = NoBlock
  BY DEF Commit, EventsOK, EventsFetched, HoleOK, ReachOK
<1>2. /\ \A b \in blocks \cup blocksToSave[i] : Sound(b)
      /\ blocks \cup blocksToSave[i] \subseteq Block
      /\ \A t \in transfers : \E b \in blocks : b.hash = t
  BY DEF AllSound, RowsSound, BatchSound, EventsOK, EventsMatchBlocks, ShapeOK, TypeOK
<1>3. ASSUME NEW b \in blocks \cup blocksToSave[i], NEW c \in blocks \cup blocksToSave[i],
             b.number = c.number
      PROVE  b = c
  BY <1>2, <1>3 DEF Sound
<1>4. blocksToSave[i] \subseteq FinalBlocks
  BY <1>2, FinalBlocksAre
<1>5. blocks' = blocks \cup blocksToSave[i]
  <2>1. ASSUME NEW b \in blocks, b.number \in Numbers(blocksToSave[i])
        PROVE  b \in blocksToSave[i]
    <3>1. PICK c \in blocksToSave[i] : c.number = b.number
      BY <2>1 DEF Numbers
    <3>2. QED
      BY <1>3, <3>1
  <2>2. Upserted(i) = {b \in blocks : b.number \notin Numbers(blocksToSave[i])}
                        \cup blocksToSave[i]
    BY <1>1 DEF Upserted, Kept
  <2>3. QED
    BY <1>1, <2>1, <2>2
<1>6. transfers' = transfers \cup logs[i]
  <2>1. KeptTransfers(i) = transfers
    BY <1>1 DEF KeptTransfers, Kept
  <2>2. ASSUME NEW t \in logs[i], NEW u \in transfers, u[1] = t[1]
        PROVE  t = u
    <3>1. PICK b \in blocksToSave[i] : b.hash = t
      BY <1>1
    <3>2. PICK c \in blocks : c.hash = u
      BY <1>2
    <3>3. b.hash[1] = b.number /\ c.hash[1] = c.number
      BY <1>2 DEF Sound, BlockAt
    <3>4. b = c
      BY <1>3, <2>2, <3>1, <3>2, <3>3
    <3>5. QED
      BY <3>1, <3>2, <3>4
  <2>3. QED
    BY <1>1, <2>1, <2>2 DEF TransfersSaved
<1>7. QED
  BY <1>1, <1>4, <1>5, <1>6, FinalBlocksStay DEF Log!Store

LEMMA LogStep ==
  ASSUME ShapeOK, AllSound, EventsOK, HoleOK, [Next]_vars
  PROVE  [Log!Next]_<<FinalBlocks, blocks, transfers>>
<1>1. CASE NodeMines \/ \E k \in Heights : NodeReorgs(k)
  BY <1>1, NodeFinalises DEF Log!Next
<1>2. ASSUME NEW i \in Instances, Commit(i)
      PROVE  Log!Next
  BY <1>2, CommitStores DEF Log!Next
<1>3. ASSUME NEW i \in Instances, Progress(i) \/ Disturbance(i), ~ Commit(i)
      PROVE  UNCHANGED <<nodeVars, blocks, transfers>>
  BY <1>3, CheckpointKeeps
     DEF tableVars, Progress, Disturbance, AcquireLock, DetectGaps, SkipGap, GapDone,
         RepairGap, ReadMax, ReadTip, ReadParent, FetchBlock, FetchMissing, ChainValid,
         ChainDiscontinuity, GetTransferEvents, CheckpointConflicts, CallFails, Crash
<1>4. UNCHANGED vars => UNCHANGED <<nodeVars, blocks, transfers>>
  BY DEF vars, tableVars
<1>5. QED
  BY <1>1, <1>2, <1>3, <1>4, FinalBlocksStay DEF Next

(* Under the same assumption the two tables are a log of final blocks with *)
(* their events, to which every writer appends and in which nothing is     *)
(* changed or taken back.                                                  *)
THEOREM EngineImplementsLog ==
  ASSUME Finality <= ConfirmationDepth
  PROVE  Spec => ImplementsLog
<1>1. Init => Log!Init /\ EventsOK /\ HoleOK
  BY LogInit, EventsInit, HoleInit
<1>2. (ShapeOK /\ AllSound) /\ (EventsOK /\ HoleOK) /\ [Next]_vars => (EventsOK /\ HoleOK)'
  BY EventsStep, SoundFits, HoleStep
<1>3. (ShapeOK /\ AllSound) /\ (EventsOK /\ HoleOK) /\ [Next]_vars
        => [Log!Next]_<<FinalBlocks, blocks, transfers>>
  BY LogStep
<1>4. QED
  BY <1>1, <1>2, <1>3, SoundInvariant, PTL DEF Spec, ImplementsLog, Log!Spec

-----------------------------------------------------------------------------
(* One instance, and a node that may replace any block but genesis.  What  *)
(* the instance plans to write lies above every row.  So nothing is        *)
(* rewritten, and the rows stay one chain, canonical or not.               *)
TableOK ==
  /\ \A b, c \in blocks : b.number = c.number => b = c
  /\ StoredLinked

InBatch == {"fetch", "logs", "commit"}

TipBatch(i) ==
  \A b \in blocks :
    /\ pc[i] \in InSync => b.number < startBlock[i]
    /\ pc[i] \in InBatch /\ b.number + 1 = startBlock[i] => expectedParent[i] = b.hash

BatchUnique(i) ==
  /\ \A b \in blocksToSave[i] : b.number \notin toFetch[i]
  /\ \A b, c \in blocksToSave[i] : b.number = c.number => b = c

BatchLinked(i) ==
  pc[i] \in {"logs", "commit"} =>
    \A c \in blocksToSave[i] :
      /\ \A b \in blocksToSave[i] : c.number = b.number + 1 => c.parentHash = b.hash
      /\ c.number = startBlock[i] /\ expectedParent[i] # NoHash =>
           c.parentHash = expectedParent[i]

LocalOK(i) == TipBatch(i) /\ BatchUnique(i) /\ BatchLinked(i)

AloneOK(i) == TableOK /\ LocalOK(i)

LEMMA AloneInit ==
  ASSUME NEW i \in Instances, Init
  PROVE  AloneOK(i)
<1>1. blocks = {BlockAt(n) : n \in before} /\ before \subseteq Heights
  BY DEF Init
<1>2. \A n \in before : BlockAt(n).number = n
  BY DEF BlockAt
<1>3. \A b \in blocks : b = BlockAt(b.number) /\ b.number \in Heights
  BY <1>1, <1>2
<1>4. StoredLinked
  <2> SUFFICES ASSUME NEW b \in blocks, NEW c \in blocks, c.number = b.number + 1
               PROVE  c.parentHash = b.hash
    BY DEF StoredLinked
  <2>1. c = BlockAt(b.number + 1) /\ b = BlockAt(b.number) /\ b.number \in Nat
    BY <1>3 DEF Heights
  <2>2. b.number + 1 # 0 /\ (b.number + 1) - 1 = b.number
    BY <2>1
  <2>3. BlockAt(b.number).hash = <<b.number, chain[b.number]>>
    BY DEF BlockAt
  <2>4. BlockAt(b.number + 1).parentHash = <<b.number, chain[b.number]>>
    BY <2>2 DEF BlockAt
  <2>5. QED
    BY <2>1, <2>3, <2>4
<1>5. TableOK
  BY <1>3, <1>4 DEF TableOK
<1>6. LocalOK(i)
  BY DEF Init, LocalOK, TipBatch, BatchUnique, BatchLinked, InSync, InBatch
<1>7. QED
  BY <1>5, <1>6 DEF AloneOK

(* No number of the batch in hand is stored.                               *)
LEMMA BatchIsFresh ==
  ASSUME ShapeOK, NEW i \in Instances, AloneOK(i), pc[i] \in InBatch
  PROVE  \A n \in startBlock[i]..endBlock[i] : n \notin Numbers(blocks)
<1>1. startBlock[i] \in Int /\ endBlock[i] \in Int
  BY DEF ShapeOK, TypeOK, Heights
<1>2. QED
  BY <1>1 DEF AloneOK, LocalOK, TipBatch, InBatch, InSync, Numbers, ShapeOK, TypeOK,
              Block, Heights

LEMMA AloneFits ==
  ASSUME ShapeOK, NEW i, Instances = {i}, AloneOK(i)
  PROVE  NoReorgBranch
<1> SUFFICES ASSUME Fetched(i), IsReorg(i), NEW c \in Mismatched(i)
             PROVE  FALSE
  BY DEF NoReorgBranch
<1>1. c \in blocksToSave[i] /\ pc[i] = "fetch" /\ toFetch[i] = {}
  BY DEF Mismatched, Fetched
<1>2. Numbers(blocksToSave[i]) = startBlock[i]..endBlock[i]
  BY <1>1 DEF ShapeOK, LocalShapeOK, BatchComplete
<1>3. c.number \in startBlock[i]..endBlock[i]
  BY <1>1, <1>2 DEF Numbers
<1>4. c.number \notin Numbers(blocks)
  BY <1>1, <1>3, BatchIsFresh DEF InBatch
<1>5. QED
  BY <1>4 DEF IsReorg, Numbers

(* An instance outside a batch has nothing to keep.                        *)
LEMMA EndsAlone ==
  ASSUME ShapeOK, NEW i \in Instances, Exit(i) \/ Throws(i) \/ SyncReturns(i)
  PROVE  LocalOK(i)'
<1>1. ForgetBatch(i) /\ (Goto(i, "down") \/ Goto(i, "max") \/ Goto(i, "checkpoint"))
  BY DEF Exit, Throws, SyncReturns
<1>2. /\ toFetch'[i] = {} /\ blocksToSave'[i] = {}
      /\ pc'[i] \in {"down", "max", "checkpoint"}
  BY <1>1 DEF ForgetBatch, Goto, ShapeOK, TypeOK
<1>3. QED
  BY <1>2 DEF LocalOK, TipBatch, BatchUnique, BatchLinked, InSync, InBatch

(* A batch begins above every row.                                         *)
LEMMA BeginAlone ==
  ASSUME ShapeOK, NEW i \in Instances, NEW first, NEW last, NEW parent,
         BeginBatch(i, first, last, parent),
         \A b \in blocks' : b.number < first /\ (b.number + 1 = first => parent = b.hash)
  PROVE  LocalOK(i)'
<1>1. /\ startBlock'[i] = first /\ expectedParent'[i] = parent
      /\ blocksToSave'[i] = {} /\ pc'[i] = "fetch"
  BY DEF BeginBatch, Goto, ShapeOK, TypeOK
<1>2. TipBatch(i)'
  BY <1>1 DEF TipBatch
<1>3. BatchUnique(i)' /\ BatchLinked(i)'
  BY <1>1 DEF BatchUnique, BatchLinked
<1>4. QED
  BY <1>2, <1>3 DEF LocalOK

LEMMA TableStays ==
  ASSUME TableOK, UNCHANGED <<before, blocks>>
  PROVE  TableOK'
BY DEF TableOK, StoredLinked

(* A step outside the batches that moves nothing but the program counter.  *)
LEMMA MovesAlone ==
  ASSUME NEW i \in Instances, LocalOK(i), UNCHANGED <<toFetch, blocksToSave>>,
         pc'[i] \notin InSync
  PROVE  LocalOK(i)'
<1>1. TipBatch(i)' /\ BatchLinked(i)'
  BY DEF TipBatch, BatchLinked, InSync, InBatch
<1>2. BatchUnique(i)'
  BY DEF LocalOK, BatchUnique
<1>3. QED
  BY <1>1, <1>2 DEF LocalOK

LEMMA StartupAlone ==
  ASSUME ShapeOK, NEW i \in Instances, AloneOK(i),
         \/ AcquireLock(i) \/ DetectGaps(i)
         \/ \E g \in gaps[i] : SkipGap(i, g) \/ RepairGap(i, g)
  PROVE  AloneOK(i)'
<1>1. UNCHANGED <<before, blocks>>
  BY DEF AcquireLock, DetectGaps, SkipGap, GapDone, RepairGap, tableVars
<1>2. TableOK' /\ LocalOK(i)
  BY <1>1, TableStays DEF AloneOK
<1>3. CASE Throws(i)
  BY <1>2, <1>3, EndsAlone DEF AloneOK
<1>4. CASE /\ UNCHANGED <<toFetch, blocksToSave>>
           /\ Goto(i, "gaps") \/ Goto(i, "max") \/ Goto(i, "gapTip")
  <2>1. pc'[i] \notin InSync
    BY <1>4 DEF Goto, InSync, ShapeOK, TypeOK
  <2>2. QED
    BY <1>2, <1>4, <2>1, MovesAlone DEF AloneOK
<1>5. QED
  BY <1>3, <1>4 DEF AcquireLock, DetectGaps, SkipGap, GapDone, RepairGap, batchVars

LEMMA ToTipAlone ==
  ASSUME ShapeOK, NEW i \in Instances, AloneOK(i),
         ReadMax(i) \/ ReadTip(i) \/ ReadParent(i)
  PROVE  AloneOK(i)'
<1>1. UNCHANGED <<before, blocks>>
  BY DEF ReadMax, ReadTip, ReadParent, tableVars
<1>2. TableOK' /\ TableOK /\ LocalOK(i)
  BY <1>1, TableStays DEF AloneOK
<1>3. CASE ReadMax(i)
  <2>1. /\ startBlock' = [startBlock EXCEPT ![i] = StartAfter(MaxNumber(blocks))]
        /\ Goto(i, "tip") /\ UNCHANGED <<toFetch, blocksToSave>>
    BY <1>3 DEF ReadMax
  <2>2. startBlock'[i] = MaxNumber(blocks) + 1 /\ pc'[i] = "tip"
    BY <2>1 DEF Goto, StartAfter, ShapeOK, TypeOK
  <2>3. \A b \in blocks : b.number < MaxNumber(blocks) + 1
    BY MaxNumberProperty DEF ShapeOK, TypeOK, Block, Heights, NoBlock
  <2>4. BatchUnique(i)' /\ BatchLinked(i)'
    BY <1>2, <2>1, <2>2 DEF LocalOK, BatchUnique, BatchLinked
  <2>5. TipBatch(i)'
    BY <1>1, <2>2, <2>3 DEF TipBatch, InBatch
  <2>6. QED
    BY <1>2, <2>4, <2>5 DEF AloneOK, LocalOK
<1>4. CASE ReadTip(i)
  <2>1. CASE UpToDate(startBlock[i], Target(head))
    BY <1>2, <1>4, <2>1, EndsAlone DEF ReadTip, AloneOK
  <2>2. CASE ~ UpToDate(startBlock[i], Target(head))
    <3>1. /\ UNCHANGED <<startBlock, expectedParent, toFetch, blocksToSave>>
          /\ Goto(i, "parent") /\ pc[i] = "tip"
      BY <1>4, <2>2 DEF ReadTip
    <3>2. pc'[i] = "parent"
      BY <3>1 DEF Goto, ShapeOK, TypeOK
    <3>3. LocalOK(i)'
      BY <1>1, <1>2, <3>1, <3>2
         DEF LocalOK, TipBatch, BatchUnique, BatchLinked, InSync, InBatch
    <3>4. QED
      BY <1>2, <3>3 DEF AloneOK
  <2>3. QED
    BY <2>1, <2>2
<1>5. CASE ReadParent(i)
  <2>1. \A b \in blocks : b.number < startBlock[i]
    BY <1>2, <1>5 DEF LocalOK, TipBatch, ReadParent, InSync
  <2>2. ASSUME NEW b \in blocks, b.number + 1 = startBlock[i]
        PROVE  ParentHash(i) = b.hash
    <3>1. b.number = startBlock[i] - 1
      BY <2>2 DEF ShapeOK, TypeOK, Block, Heights
    <3>2. b \in ParentRow(i) /\ \A c \in ParentRow(i) : c = b
      BY <1>2, <3>1 DEF ParentRow, TableOK
    <3>3. ParentRow(i) # {} /\ (CHOOSE c \in ParentRow(i) : TRUE) = b
      BY <3>2
    <3>4. QED
      BY <3>3 DEF ParentHash
  <2>3. LocalOK(i)'
    BY <1>1, <1>5, <2>1, <2>2, BeginAlone DEF ReadParent
  <2>4. QED
    BY <1>2, <2>3 DEF AloneOK
<1>6. QED
  BY <1>3, <1>4, <1>5

LEMMA FetchAlone ==
  ASSUME ShapeOK, NEW i \in Instances, AloneOK(i), NEW n \in Heights, FetchBlock(i, n)
  PROVE  AloneOK(i)'
<1>1. /\ n \in toFetch[i] /\ pc[i] = "fetch"
      /\ toFetch' = [toFetch EXCEPT ![i] = @ \ {n}]
      /\ blocksToSave' = [blocksToSave EXCEPT ![i] = @ \cup {BlockAt(n)}]
      /\ UNCHANGED <<before, blocks, pc, startBlock, expectedParent>>
  BY DEF FetchBlock, tableVars, procVars
<1>2. /\ toFetch'[i] = toFetch[i] \ {n}
      /\ blocksToSave'[i] = blocksToSave[i] \cup {BlockAt(n)}
  BY <1>1 DEF ShapeOK, TypeOK
<1>3. TableOK' /\ LocalOK(i)
  BY <1>1, TableStays DEF AloneOK
<1>4. TipBatch(i)' /\ BatchLinked(i)'
  BY <1>1, <1>3 DEF LocalOK, TipBatch, BatchLinked
<1>5. BatchUnique(i)'
  <2>1. BlockAt(n).number = n
    BY DEF BlockAt
  <2>2. QED
    BY <1>1, <1>2, <1>3, <2>1 DEF LocalOK, BatchUnique
<1>6. QED
  BY <1>3, <1>4, <1>5 DEF AloneOK, LocalOK

(* The validation of the batch, when it finds nothing, has compared every  *)
(* block with the one before it.                                           *)
LEMMA ValidAlone ==
  ASSUME ShapeOK, NoReorgBranch, NEW i \in Instances, AloneOK(i), ChainValid(i)
  PROVE  AloneOK(i)'
<1>1. /\ pc[i] = "fetch" /\ Goto(i, "logs") /\ Mismatched(i) = {}
      /\ UNCHANGED <<before, blocks, startBlock, expectedParent, toFetch, blocksToSave>>
  BY DEF ChainValid, Fetched, NoReorgBranch, tableVars
<1>2. pc'[i] = "logs"
  BY <1>1 DEF Goto, ShapeOK, TypeOK
<1>3. TableOK' /\ LocalOK(i)
  BY <1>1, TableStays DEF AloneOK
<1>4. TipBatch(i)' /\ BatchUnique(i)'
  BY <1>1, <1>2, <1>3 DEF LocalOK, TipBatch, BatchUnique, InSync, InBatch
<1>5. BatchLinked(i)'
  <2> SUFFICES ASSUME NEW c \in blocksToSave[i]
               PROVE  /\ \A b \in blocksToSave[i] : c.number = b.number + 1 => c.parentHash = b.hash
                      /\ c.number = startBlock[i] /\ expectedParent[i] # NoHash =>
                           c.parentHash = expectedParent[i]
    BY <1>1 DEF BatchLinked
  <2>1. c \notin Mismatched(i)
    BY <1>1
  <2>2. ASSUME NEW b \in blocksToSave[i], c.number = b.number + 1
        PROVE  c.parentHash = b.hash
    <3>1. \A d \in blocksToSave[i] : d.number \in Int
      BY DEF ShapeOK, TypeOK, Block, Heights
    <3>2. Follows(b, c, blocksToSave[i])
      BY <2>2, <3>1 DEF Follows
    <3>3. QED
      BY <2>1, <3>2 DEF Mismatched
  <2>3. QED
    BY <2>1, <2>2 DEF Mismatched
<1>6. QED
  BY <1>3, <1>4, <1>5 DEF AloneOK, LocalOK

LEMMA EventsAlone ==
  ASSUME ShapeOK, NEW i \in Instances, AloneOK(i), GetTransferEvents(i)
  PROVE  AloneOK(i)'
<1>1. /\ pc[i] = "logs" /\ Goto(i, "commit")
      /\ UNCHANGED <<before, blocks, startBlock, expectedParent, toFetch, blocksToSave>>
  BY DEF GetTransferEvents, tableVars
<1>2. pc'[i] = "commit"
  BY <1>1 DEF Goto, ShapeOK, TypeOK
<1>3. TableOK' /\ LocalOK(i)
  BY <1>1, TableStays DEF AloneOK
<1>4. LocalOK(i)'
  BY <1>1, <1>2, <1>3 DEF LocalOK, TipBatch, BatchUnique, BatchLinked, InSync, InBatch
<1>5. QED
  BY <1>3, <1>4 DEF AloneOK

(* What a batch adds, and that it deletes and rewrites nothing.            *)
LEMMA CommitAppends ==
  ASSUME ShapeOK, HoleOK, NEW i \in Instances, AloneOK(i), Commit(i)
  PROVE  /\ blocks' = blocks \cup blocksToSave[i]
         /\ Numbers(blocksToSave[i]) = startBlock[i]..endBlock[i]
         /\ \A n \in startBlock[i]..endBlock[i] : n \notin Numbers(blocks)
<1>1. pc[i] = "commit" /\ blocks' = Upserted(i)
  BY DEF Commit
<1>2. Numbers(blocksToSave[i]) = startBlock[i]..endBlock[i]
  BY <1>1 DEF ShapeOK, LocalShapeOK, BatchComplete
<1>3. \A n \in startBlock[i]..endBlock[i] : n \notin Numbers(blocks)
  BY <1>1, BatchIsFresh DEF InBatch
<1>4. reorgAt[i] = NoBlock
  BY DEF HoleOK, ReachOK
<1>5. \A b \in blocks : b.number \notin Numbers(blocksToSave[i])
  BY <1>2, <1>3 DEF Numbers
<1>6. QED
  BY <1>1, <1>2, <1>3, <1>4, <1>5 DEF Upserted, Kept

LEMMA CommitLinks ==
  ASSUME ShapeOK, HoleOK, NEW i \in Instances, AloneOK(i), Commit(i)
  PROVE  TableOK'
<1>1. /\ blocks' = blocks \cup blocksToSave[i] /\ before' = before
      /\ Numbers(blocksToSave[i]) = startBlock[i]..endBlock[i]
      /\ \A n \in startBlock[i]..endBlock[i] : n \notin Numbers(blocks)
  BY CommitAppends DEF Commit
<1>2. TableOK /\ TipBatch(i) /\ BatchUnique(i) /\ BatchLinked(i)
  BY DEF AloneOK, LocalOK
<1>3. /\ pc[i] = "commit" /\ startBlock[i] \in Int /\ endBlock[i] \in Int
      /\ \A b \in blocks \cup blocksToSave[i] : b.number \in Int /\ b.hash \in Hash
  BY DEF Commit, ShapeOK, TypeOK, Block, Heights
<1>4. /\ \A b \in blocksToSave[i] : b.number \in startBlock[i]..endBlock[i]
      /\ \A b \in blocks : b.number \notin startBlock[i]..endBlock[i]
  BY <1>1 DEF Numbers
<1>5. \A b, c \in blocks' : b.number = c.number => b = c
  BY <1>1, <1>2, <1>4 DEF TableOK, BatchUnique
<1>6. ASSUME NEW b \in blocks', NEW c \in blocks', c.number = b.number + 1,
             Above(c.number, before)
      PROVE  c.parentHash = b.hash
  <2>1. CASE b \in blocks /\ c \in blocks
    BY <1>2, <1>6, <2>1 DEF TableOK, StoredLinked
  <2>2. CASE b \in blocksToSave[i] /\ c \in blocksToSave[i]
    BY <1>2, <1>3, <1>6, <2>2 DEF BatchLinked
  <2>3. CASE b \in blocks /\ c \in blocksToSave[i]
    <3>1. b.number < startBlock[i]
      BY <1>2, <1>3, <2>3 DEF TipBatch, InSync
    <3>2. c.number = startBlock[i]
      BY <1>3, <1>4, <1>6, <2>3, <3>1
    <3>3. expectedParent[i] = b.hash
      BY <1>2, <1>3, <1>6, <2>3, <3>2 DEF TipBatch, InBatch
    <3>4. b.hash # NoHash
      <4>1. b.hash \in Hash
        BY <1>3, <2>3
      <4>2. QED
        BY <4>1, HashIsNotNone
    <3>5. expectedParent[i] # NoHash
      BY <3>3, <3>4
    <3>6. pc[i] = "commit"
      BY <1>3
    <3>7. QED
      BY <1>2, <2>3, <3>2, <3>3, <3>5, <3>6 DEF BatchLinked
  <2>4. CASE b \in blocksToSave[i] /\ c \in blocks
    <3>1. c.number < startBlock[i]
      BY <1>2, <1>3, <2>4 DEF TipBatch, InSync
    <3>2. QED
      BY <1>3, <1>4, <1>6, <2>4, <3>1
  <2>5. QED
    BY <1>1, <1>6, <2>1, <2>2, <2>3, <2>4
<1>7. StoredLinked'
  BY <1>1, <1>6 DEF StoredLinked
<1>8. QED
  BY <1>5, <1>7 DEF TableOK

LEMMA CommitAlone ==
  ASSUME ShapeOK, HoleOK, NEW i \in Instances, AloneOK(i), Commit(i)
  PROVE  AloneOK(i)'
<1>1. /\ blocks' = blocks \cup blocksToSave[i]
      /\ Numbers(blocksToSave[i]) = startBlock[i]..endBlock[i]
      /\ TableOK'
  BY CommitAppends, CommitLinks
<1>2. TipBatch(i) /\ BatchUnique(i)
  BY DEF AloneOK, LocalOK
<1>3. /\ pc[i] = "commit" /\ startBlock[i] \in Int /\ endBlock[i] \in Int
      /\ startBlock[i] <= endBlock[i]
      /\ \A b \in blocks \cup blocksToSave[i] : b.number \in Int
  BY DEF Commit, ShapeOK, TypeOK, LocalShapeOK, BatchComplete, Block, Heights
<1>4. \A b \in blocksToSave[i] : b.number \in startBlock[i]..endBlock[i]
  BY <1>1 DEF Numbers
<1> DEFINE next == endBlock[i] + 1
           last == BatchEnd(next, targetBlock[i])
<1>5. BatchReturns(i)
  BY DEF Commit
<1>6. CASE UpToDate(next, targetBlock[i])
  BY <1>1, <1>5, <1>6, EndsAlone DEF BatchReturns, AloneOK
<1>7. CASE ~ UpToDate(next, targetBlock[i])
  <2>1. BeginBatch(i, next, last, LastHash(i))
    BY <1>5, <1>7 DEF BatchReturns
  <2>2. \A b \in blocks : b.number < startBlock[i]
    BY <1>2, <1>3 DEF TipBatch, InSync
  <2>3. \A b \in blocks' : b.number < next
    BY <1>1, <1>3, <1>4, <2>2
  <2>4. ASSUME NEW b \in blocks', b.number + 1 = next
        PROVE  LastHash(i) = b.hash
    <3>1. b.number = endBlock[i]
      BY <1>1, <1>3, <2>4
    <3>2. b \in blocksToSave[i]
      BY <1>1, <1>3, <2>2, <3>1
    <3>3. \A c \in blocksToSave[i] : c.number = endBlock[i] => c = b
      BY <1>2, <3>1, <3>2 DEF BatchUnique
    <3>4. (CHOOSE c \in blocksToSave[i] : c.number = endBlock[i]) = b
      BY <3>1, <3>2, <3>3
    <3>5. QED
      BY <3>4 DEF LastHash
  <2> HIDE DEF next, last
  <2>5. LocalOK(i)'
    BY <2>1, <2>3, <2>4, BeginAlone
  <2>6. QED
    BY <1>1, <2>5 DEF AloneOK
<1>8. QED
  BY <1>6, <1>7

LEMMA CheckpointAlone ==
  ASSUME ShapeOK, NEW i \in Instances, AloneOK(i),
         \/ UpdateCheckpoint(i) \/ InsertCheckpoint(i) \/ SessionCloses(i)
  PROVE  AloneOK(i)'
<1>1. UNCHANGED <<before, blocks, toFetch, blocksToSave, startBlock, expectedParent>>
  BY CheckpointKeeps DEF batchVars
<1>2. TableOK' /\ LocalOK(i)
  BY <1>1, TableStays DEF AloneOK
<1>3. CASE SessionCloses(i)
  <2>1. pc' = pc
    BY <1>3 DEF SessionCloses
  <2>2. LocalOK(i)'
    BY <1>1, <1>2, <2>1 DEF LocalOK, TipBatch, BatchUnique, BatchLinked
  <2>3. QED
    BY <1>2, <2>2 DEF AloneOK
<1>4. CASE UpdateCheckpoint(i) \/ InsertCheckpoint(i)
  <2>1. Goto(i, "max") \/ Goto(i, "insert")
    BY <1>4 DEF UpdateCheckpoint, InsertCheckpoint, TurnEnds
  <2>2. pc'[i] \notin InSync
    BY <2>1 DEF InSync, Goto, ShapeOK, TypeOK
  <2>3. QED
    BY <1>1, <1>2, <2>2, MovesAlone DEF AloneOK
<1>5. QED
  BY <1>3, <1>4

LEMMA ErrorAlone ==
  ASSUME ShapeOK, NEW i \in Instances, AloneOK(i),
         \/ \E n \in Heights : FetchMissing(i, n)
         \/ ChainDiscontinuity(i) \/ CheckpointConflicts(i) \/ CallFails(i) \/ Crash(i)
  PROVE  AloneOK(i)'
<1>1. UNCHANGED <<before, blocks>> /\ (Throws(i) \/ Exit(i))
  BY DEF FetchMissing, ChainDiscontinuity, CheckpointConflicts, CallFails, Crash, tableVars
<1>2. TableOK'
  BY <1>1, TableStays DEF AloneOK
<1>3. QED
  BY <1>1, <1>2, EndsAlone DEF AloneOK

LEMMA AloneStep ==
  ASSUME NEW i, Instances = {i}, ShapeOK, HoleOK, AloneOK(i), [Next]_vars
  PROVE  AloneOK(i)'
<1>1. NoReorgBranch
  BY AloneFits
<1>2. CASE UNCHANGED vars \/ NodeMines \/ \E k \in Heights : NodeReorgs(k)
  <2>1. UNCHANGED <<tableVars, batchVars, procVars>>
    BY <1>2 DEF NodeMines, NodeReorgs, vars
  <2>2. TableOK'
    BY <2>1, TableStays DEF AloneOK, tableVars
  <2>3. LocalOK(i)'
    BY <2>1 DEF tableVars, batchVars, procVars, AloneOK, LocalOK, TipBatch, BatchUnique,
                BatchLinked
  <2>4. QED
    BY <2>2, <2>3 DEF AloneOK
<1>3. CASE Progress(i) \/ Disturbance(i)
  BY <1>1, <1>3, StartupAlone, ToTipAlone, FetchAlone, ValidAlone, EventsAlone, CommitAlone,
     CheckpointAlone, ErrorAlone
     DEF Progress, Disturbance
<1>4. QED
  BY <1>2, <1>3 DEF Next

(* A step of one instance adds rows and leaves the others alone.           *)
LEMMA AppendStep ==
  ASSUME NEW i, Instances = {i}, ShapeOK, HoleOK, AloneOK(i), [Next]_vars
  PROVE  blocks \subseteq blocks'
<1>1. CASE Commit(i)
  BY <1>1, CommitAppends
<1>2. CASE ~ Commit(i)
  <2>1. UNCHANGED blocks
    BY <1>2, CheckpointKeeps
       DEF Next, vars, tableVars, NodeMines, NodeReorgs, Progress, Disturbance, AcquireLock,
           DetectGaps, SkipGap, GapDone, RepairGap, ReadMax, ReadTip, ReadParent, FetchBlock,
           FetchMissing, ChainValid, ChainDiscontinuity, GetTransferEvents,
           CheckpointConflicts, CallFails, Crash
  <2>2. QED
    BY <2>1
<1>3. QED
  BY <1>1, <1>2

(* What one instance plans to write is not stored, whatever the node does. *)
THEOREM AloneInvariant ==
  ASSUME NEW i, Instances = {i}
  PROVE  Spec => []((ShapeOK /\ HoleOK) /\ AloneOK(i))
<1>1. Init => (ShapeOK /\ HoleOK) /\ AloneOK(i)
  BY ShapeInit, HoleInit, AloneInit
<1>2. (ShapeOK /\ HoleOK) /\ AloneOK(i) /\ [Next]_vars => ((ShapeOK /\ HoleOK) /\ AloneOK(i))'
  BY ShapeStep, HoleStep, AloneFits, AloneStep
<1>3. QED
  BY <1>1, <1>2, PTL DEF Spec

(* One instance keeps its rows one chain, whatever the node replaces.      *)
THEOREM OneInstanceStoresAChain ==
  ASSUME NEW i, Instances = {i}
  PROVE  Spec => []StoredLinked
<1>1. (ShapeOK /\ HoleOK) /\ AloneOK(i) => StoredLinked
  BY DEF AloneOK, TableOK
<1>2. QED
  BY <1>1, AloneInvariant, PTL

(* One instance never rewrites or deletes a row.                           *)
THEOREM OneInstanceOnlyAppends ==
  ASSUME NEW i, Instances = {i}
  PROVE  Spec => OnlyAppends
<1>1. (ShapeOK /\ HoleOK) /\ AloneOK(i) /\ [Next]_vars => [blocks \subseteq blocks']_vars
  BY AppendStep
<1>2. QED
  BY <1>1, AloneInvariant, PTL DEF Spec, OnlyAppends
=============================================================================
