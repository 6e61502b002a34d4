---------------------- MODULE ProductionIndexerProofs ----------------------
(***************************************************************************)
(* Theorems of ProductionIndexer, for every number of processes, batch     *)
(* size and bound.                                                         *)
(***************************************************************************)
EXTENDS ProductionIndexer, TableLemmas

USE ChainAssumption, IndexerAssumption

-----------------------------------------------------------------------------
(* Type correctness.                                                       *)
LEMMA NoBoundType == NoBound \in Hash
BY DEF NoBound, Hash, Heights

LEMMA ExitType ==
  ASSUME TypeOK, NEW i \in Indexers, Exit(i)
  PROVE  /\ pc' \in [Indexers -> Labels]
         /\ startup' \in [Indexers -> BOOLEAN]
         /\ isRunning' \in [Indexers -> BOOLEAN]
         /\ bound' \in [Indexers -> Hash]
         /\ latestBlock' \in [Indexers -> Heights]
         /\ startBlock' \in [Indexers -> Cursor]
         /\ endBlock' \in [Indexers -> Heights]
         /\ toFetch' \in [Indexers -> SUBSET Heights]
         /\ rawBlocks' \in [Indexers -> SUBSET Block]
BY NoBoundType DEF TypeOK, Exit, Goto, Labels, Cursor, Heights

LEMMA BatchReturnsType ==
  ASSUME TypeOK, NEW i \in Indexers, BatchReturns(i)
  PROVE  /\ pc' \in [Indexers -> Labels]
         /\ startup' \in [Indexers -> BOOLEAN]
         /\ isRunning' \in [Indexers -> BOOLEAN]
         /\ bound' \in [Indexers -> Hash]
         /\ latestBlock' \in [Indexers -> Heights]
         /\ startBlock' \in [Indexers -> Cursor]
         /\ endBlock' \in [Indexers -> Heights]
         /\ toFetch' \in [Indexers -> SUBSET Heights]
         /\ rawBlocks' \in [Indexers -> SUBSET Block]
<1>1. endBlock[i] + 1 \in Cursor
  BY DEF TypeOK, Cursor, Heights
<1>2. QED
  BY <1>1 DEF TypeOK, BatchReturns, Goto, Labels

LEMMA BatchThrowsType ==
  ASSUME TypeOK, NEW i \in Indexers, BatchThrows(i)
  PROVE  /\ pc' \in [Indexers -> Labels]
         /\ startup' \in [Indexers -> BOOLEAN]
         /\ isRunning' \in [Indexers -> BOOLEAN]
         /\ bound' \in [Indexers -> Hash]
         /\ latestBlock' \in [Indexers -> Heights]
         /\ startBlock' \in [Indexers -> Cursor]
         /\ endBlock' \in [Indexers -> Heights]
         /\ toFetch' \in [Indexers -> SUBSET Heights]
         /\ rawBlocks' \in [Indexers -> SUBSET Block]
<1>1. CASE startup[i]
  BY <1>1, ExitType DEF BatchThrows
<1>2. CASE ~ startup[i]
  BY <1>2 DEF TypeOK, BatchThrows, Goto, Labels
<1>3. QED
  BY <1>1, <1>2

LEMMA BeginBatchType ==
  ASSUME TypeOK, NEW i \in Indexers, NEW first \in Cursor, NEW last \in Heights,
         BeginBatch(i, first, last)
  PROVE  /\ pc' \in [Indexers -> Labels]
         /\ startBlock' \in [Indexers -> Cursor]
         /\ endBlock' \in [Indexers -> Heights]
         /\ toFetch' \in [Indexers -> SUBSET Heights]
         /\ rawBlocks' \in [Indexers -> SUBSET Block]
<1>1. first..last \subseteq Heights
  BY DEF Cursor, Heights
<1>2. QED
  BY <1>1 DEF TypeOK, BeginBatch, Goto, Labels

LEMMA FaultType ==
  ASSUME TypeOK, Fault
  PROVE  faults' \in 0..MaxFaults
BY DEF TypeOK, Fault

(* Every variable keeps its type, in every interleaving of the processes   *)
(* with the node, the faults and each other.                               *)
LEMMA TypeStep == TypeOK /\ [Next]_vars => TypeOK'
<1> SUFFICES ASSUME TypeOK, [Next]_vars
             PROVE  TypeOK'
  OBVIOUS
<1> USE DEF vars, chainVars, tableVars, batchVars
<1>1. CASE NodeStep
  <2>1. ChainTypeOK'
    BY <1>1, ChainStepType DEF NodeStep, TypeOK
  <2>2. QED
    BY <1>1, <2>1 DEF NodeStep, TypeOK
<1>2. CASE UNCHANGED vars
  BY <1>2 DEF TypeOK, ChainTypeOK
<1>3. ASSUME NEW i \in Indexers, Progress(i)
      PROVE  TypeOK'
  <2> USE DEF Goto, Labels
  <2>1. CASE Start(i)
    BY <2>1 DEF Start, TypeOK, ChainTypeOK
  <2>2. CASE ReadMax(i)
    <3>1. ResumeFrom(MaxNumber(blocks)) \in Cursor
      BY MaxNumberProperty DEF ResumeFrom, TypeOK, Cursor, Heights, NoBlock
    <3>2. QED
      BY <2>2, <3>1 DEF ReadMax, TypeOK, ChainTypeOK
  <2>3. CASE ReadHead(i)
    BY <2>3 DEF ReadHead, TypeOK, ChainTypeOK
  <2>4. CASE NextStartupBatch(i)
    <3>1. Smaller(startBlock[i] + BatchSize - 1, latestBlock[i]) \in Heights
      BY <2>4 DEF NextStartupBatch, Smaller, TypeOK, Cursor, Heights
    <3>2. startBlock[i] \in Cursor
      BY DEF TypeOK
    <3>3. BeginBatch(i, startBlock[i],
                     Smaller(startBlock[i] + BatchSize - 1, latestBlock[i]))
      BY <2>4 DEF NextStartupBatch
    <3> HIDE DEF Goto
    <3>4. QED
      BY <2>4, <3>1, <3>2, <3>3, BeginBatchType
         DEF NextStartupBatch, TypeOK, ChainTypeOK
  <2>5. CASE StartupDone(i)
    BY <2>5 DEF StartupDone, TypeOK, ChainTypeOK
  <2>6. ASSUME NEW n \in Heights, FetchBlock(i, n) PROVE TypeOK'
    <3>1. BlockAt(n) \in Block
      BY BlockAtProperty DEF TypeOK
    <3>2. QED
      BY <2>6, <3>1 DEF FetchBlock, TypeOK, ChainTypeOK
  <2>7. ASSUME NEW n \in Heights, FetchMissing(i, n) PROVE TypeOK'
    BY <2>7 DEF FetchMissing, DropBlock, TypeOK, ChainTypeOK
  <2> HIDE DEF Goto, Labels
  <2>8. CASE NothingFetched(i)
    BY <2>8, BatchReturnsType DEF NothingFetched, TypeOK, ChainTypeOK
  <2>9. CASE ContinuityBroken(i)
    BY <2>9, BatchThrowsType DEF ContinuityBroken, TypeOK, ChainTypeOK
  <2>10. CASE SaveBatch(i)
    <3>1. FirstOf(rawBlocks[i]) \subseteq Heights
      BY DEF FirstOf, TypeOK, Block
    <3>2. blocks' \subseteq Block
      BY <2>10 DEF SaveBatch, Inserted, TypeOK
    <3>3. QED
      BY <2>10, <3>1, <3>2 DEF SaveBatch, Goto, Labels, TypeOK, ChainTypeOK
  <2>11. CASE SaveConflicts(i)
    BY <2>11, BatchThrowsType DEF SaveConflicts, TypeOK, ChainTypeOK
  <2>12. CASE VerifyWritten(i)
    <3>1. CASE Written(blocks, rawBlocks[i])
      BY <2>12, <3>1 DEF VerifyWritten, Goto, Labels, TypeOK, ChainTypeOK
    <3>2. CASE ~ Written(blocks, rawBlocks[i])
      BY <2>12, <3>2, BatchThrowsType DEF VerifyWritten, TypeOK, ChainTypeOK
    <3>3. QED
      BY <3>1, <3>2
  <2>13. CASE VerifyHashes(i)
    BY <2>13, BatchReturnsType, BatchThrowsType
       DEF VerifyHashes, TypeOK, ChainTypeOK
  <2>14. CASE PollHead(i)
    BY <2>14 DEF PollHead, Goto, Labels, TypeOK, ChainTypeOK
  <2>15. CASE PollMax(i)
    <3>1. /\ MaxNumber(blocks) + 1 \in Cursor
          /\ latestBlock[i] \in Heights
      BY MaxNumberProperty DEF TypeOK, Cursor, Heights, NoBlock
    <3>2. CASE Behind(latestBlock[i], MaxNumber(blocks))
      BY <2>15, <3>1, <3>2, BeginBatchType DEF PollMax, TypeOK, ChainTypeOK
    <3>3. CASE ~ Behind(latestBlock[i], MaxNumber(blocks))
      BY <2>15, <3>3 DEF PollMax, Goto, Labels, TypeOK, ChainTypeOK
    <3>4. QED
      BY <3>2, <3>3
  <2>16. CASE Terminate(i)
    BY <2>16, ExitType DEF Terminate, TypeOK, ChainTypeOK
  <2>17. CASE ValidationFails(i)
    BY <2>17, BatchThrowsType DEF ValidationFails, TypeOK, ChainTypeOK
  <2>18. QED
    BY <1>3, <2>1, <2>2, <2>3, <2>4, <2>5, <2>6, <2>7, <2>8, <2>9, <2>10,
       <2>11, <2>12, <2>13, <2>14, <2>15, <2>16, <2>17 DEF Progress
<1>4. ASSUME NEW i \in Indexers, Disturbance(i)
      PROVE  TypeOK'
  <2>1. ASSUME NEW n \in Heights, FetchFails(i, n) PROVE TypeOK'
    BY <2>1, FaultType DEF FetchFails, DropBlock, TypeOK, ChainTypeOK
  <2>2. CASE SaveFails(i)
    BY <2>2, FaultType, BatchThrowsType DEF SaveFails, TypeOK, ChainTypeOK
  <2>3. CASE PollFails(i)
    BY <2>3, FaultType, BatchThrowsType DEF PollFails, TypeOK, ChainTypeOK
  <2>4. CASE StopSignal(i)
    BY <2>4, FaultType DEF StopSignal, TypeOK, ChainTypeOK
  <2>5. CASE Crash(i)
    BY <2>5, FaultType, ExitType DEF Crash, TypeOK, ChainTypeOK
  <2>6. CASE DayPasses(i)
    <3>1. head \in Heights
      BY DEF TypeOK, ChainTypeOK
    <3>2. BoundNow \in Hash
      BY <3>1, BlockAtProperty DEF BoundNow, TypeOK, Block
    <3>3. QED
      BY <2>6, <3>2, FaultType DEF DayPasses, TypeOK, ChainTypeOK
  <2>7. QED
    BY <1>4, <2>1, <2>2, <2>3, <2>4, <2>5, <2>6 DEF Disturbance
<1>5. QED
  BY <1>1, <1>2, <1>3, <1>4 DEF Next

(* Every variable keeps its type.                                          *)
THEOREM TypeCorrect == Spec => []TypeOK
<1>1. Init => TypeOK
  BY NoBoundType
     DEF Init, TypeOK, ChainInit, ChainTypeOK, Labels, Cursor, Heights, NotMined
<1>2. QED
  BY <1>1, TypeStep, PTL DEF Spec

-----------------------------------------------------------------------------
(* The invariant behind the safety theorems.  Fetched blocks are well      *)
(* formed, that is, a parent hash names the height below: this is what     *)
(* turns "each block names the hash of the one before it" into "no block   *)
(* is missing between them".                                               *)
FetchedWellFormed == \A i \in Indexers : \A b \in rawBlocks[i] : WellFormed(b)
StoredWellFormed == \A b \in blocks : WellFormed(b)

IInv ==
  /\ TypeOK
  /\ FetchedWellFormed
  /\ StoredWellFormed
  /\ LinkedInsideBatches

(* What a step that is not a commit does: the table stays as it is, and a  *)
(* fetched block is new only because the node just returned it.            *)
Quiet ==
  /\ UNCHANGED tableVars
  /\ \A j \in Indexers : \A b \in rawBlocks'[j] :
       b \in rawBlocks[j] \/ \E n \in Heights : b = BlockAt(n)

LEMMA ExitIsQuiet ==
  ASSUME TypeOK, NEW i \in Indexers, Exit(i), UNCHANGED tableVars
  PROVE  Quiet
BY DEF TypeOK, Exit, Goto, Quiet

LEMMA BatchThrowsIsQuiet ==
  ASSUME TypeOK, NEW i \in Indexers, BatchThrows(i), UNCHANGED tableVars
  PROVE  Quiet
<1>1. CASE startup[i]
  BY <1>1, ExitIsQuiet DEF BatchThrows
<1>2. CASE ~ startup[i]
  BY <1>2 DEF TypeOK, BatchThrows, Goto, Quiet
<1>3. QED
  BY <1>1, <1>2

LEMMA BatchReturnsIsQuiet ==
  ASSUME TypeOK, NEW i \in Indexers, BatchReturns(i), UNCHANGED tableVars
  PROVE  Quiet
BY DEF TypeOK, BatchReturns, Goto, Quiet

(* Only SaveBatch changes the table.                                       *)
LEMMA StepKinds ==
  ASSUME TypeOK, [Next]_vars
  PROVE  Quiet \/ \E i \in Indexers : SaveBatch(i)
<1> USE DEF vars, chainVars, tableVars, batchVars
<1>1. CASE NodeStep
  BY <1>1 DEF NodeStep, Quiet
<1>2. CASE UNCHANGED vars
  BY <1>2 DEF Quiet
<1>3. ASSUME NEW i \in Indexers, Progress(i), ~ SaveBatch(i)
      PROVE  Quiet
  <2>1. CASE Start(i)
    BY <2>1 DEF Start, Goto, Quiet, TypeOK
  <2>2. CASE ReadMax(i)
    BY <2>2 DEF ReadMax, Goto, Quiet, TypeOK
  <2>3. CASE ReadHead(i)
    BY <2>3 DEF ReadHead, Goto, Quiet, TypeOK
  <2>4. CASE NextStartupBatch(i)
    BY <2>4 DEF NextStartupBatch, BeginBatch, Goto, Quiet, TypeOK
  <2>5. CASE StartupDone(i)
    BY <2>5 DEF StartupDone, Goto, Quiet, TypeOK
  <2>6. ASSUME NEW n \in Heights, FetchBlock(i, n) PROVE Quiet
    BY <2>6 DEF FetchBlock, Quiet, TypeOK
  <2>7. ASSUME NEW n \in Heights, FetchMissing(i, n) PROVE Quiet
    BY <2>7 DEF FetchMissing, DropBlock, Quiet, TypeOK
  <2>8. CASE NothingFetched(i)
    BY <2>8, BatchReturnsIsQuiet DEF NothingFetched
  <2>9. CASE ContinuityBroken(i)
    BY <2>9, BatchThrowsIsQuiet DEF ContinuityBroken
  <2>10. CASE SaveConflicts(i)
    BY <2>10, BatchThrowsIsQuiet DEF SaveConflicts
  <2>11. CASE VerifyWritten(i)
    <3>1. CASE Written(blocks, rawBlocks[i])
      BY <2>11, <3>1 DEF VerifyWritten, Goto, Quiet, TypeOK
    <3>2. CASE ~ Written(blocks, rawBlocks[i])
      BY <2>11, <3>2, BatchThrowsIsQuiet DEF VerifyWritten
    <3>3. QED
      BY <3>1, <3>2
  <2>12. CASE VerifyHashes(i)
    BY <2>12, BatchReturnsIsQuiet, BatchThrowsIsQuiet DEF VerifyHashes
  <2>13. CASE PollHead(i)
    BY <2>13 DEF PollHead, Goto, Quiet, TypeOK
  <2>14. CASE PollMax(i)
    <3>1. CASE Behind(latestBlock[i], MaxNumber(blocks))
      BY <2>14, <3>1 DEF PollMax, BeginBatch, Goto, Quiet, TypeOK
    <3>2. CASE ~ Behind(latestBlock[i], MaxNumber(blocks))
      BY <2>14, <3>2 DEF PollMax, Goto, Quiet, TypeOK
    <3>3. QED
      BY <3>1, <3>2
  <2>15. CASE Terminate(i)
    BY <2>15, ExitIsQuiet DEF Terminate
  <2>16. CASE ValidationFails(i)
    BY <2>16, BatchThrowsIsQuiet DEF ValidationFails
  <2>17. QED
    BY <1>3, <2>1, <2>2, <2>3, <2>4, <2>5, <2>6, <2>7, <2>8, <2>9, <2>10,
       <2>11, <2>12, <2>13, <2>14, <2>15, <2>16 DEF Progress
<1>4. ASSUME NEW i \in Indexers, Disturbance(i)
      PROVE  Quiet
  <2>1. ASSUME NEW n \in Heights, FetchFails(i, n) PROVE Quiet
    BY <2>1 DEF FetchFails, DropBlock, Quiet, TypeOK
  <2>2. CASE SaveFails(i)
    BY <2>2, BatchThrowsIsQuiet DEF SaveFails
  <2>3. CASE PollFails(i)
    BY <2>3, BatchThrowsIsQuiet DEF PollFails
  <2>4. CASE StopSignal(i)
    BY <2>4 DEF StopSignal, Quiet, TypeOK
  <2>5. CASE Crash(i)
    BY <2>5, ExitIsQuiet DEF Crash
  <2>6. CASE DayPasses(i)
    BY <2>6 DEF DayPasses, Quiet
  <2>7. QED
    BY <1>4, <2>1, <2>2, <2>3, <2>4, <2>5, <2>6 DEF Disturbance
<1>5. QED
  BY <1>1, <1>2, <1>3, <1>4 DEF Next

(* In a batch that passed the continuity check every block but the first   *)
(* has its parent in the batch, at the height just below: a hole inside    *)
(* the batch would have failed the check.                                  *)
LEMMA LinkedBatchHasNoHoles ==
  ASSUME NEW batch \in SUBSET Block, Linked(batch),
         \A b \in batch : WellFormed(b),
         NEW c \in batch
  PROVE  \/ c.number \in FirstOf(batch)
         \/ \E b \in batch : b.number = c.number - 1 /\ b.hash = c.parentHash
<1>1. CASE \A d \in batch : c.number <= d.number
  BY <1>1 DEF FirstOf
<1>2. CASE \E d \in batch : d.number < c.number
  <2> DEFINE below == {d.number : d \in {e \in batch : e.number < c.number}}
  <2>1. below \in SUBSET Nat /\ below # {} /\ \A n \in below : n <= c.number
    BY <1>2 DEF Block, Heights
  <2>2. PICK m \in below : \A n \in below : n <= m
    <3> HIDE DEF below
    <3>1. c.number \in Nat
      BY DEF Block, Heights
    <3>2. QED
      BY <2>1, <3>1, GreatestElement
  <2>3. PICK b \in batch : b.number = m /\ b.number < c.number
    BY <2>2
  <2>4. Follows(b, c, batch)
    <3>1. ASSUME NEW d \in batch, d.number < c.number
          PROVE  d.number <= b.number
      BY <2>2, <2>3, <3>1
    <3>2. QED
      BY <2>3, <3>1 DEF Follows, Block, Heights
  <2>5. c.parentHash = b.hash
    BY <2>4 DEF Linked
  <2>6. b.number = c.number - 1
    BY <2>3, <2>5 DEF WellFormed, Block, Heights
  <2>7. QED
    BY <2>5, <2>6
<1>3. QED
  BY <1>1, <1>2 DEF Block, Heights

LEMMA IInvStep == IInv /\ [Next]_vars => IInv'
<1> SUFFICES ASSUME IInv, [Next]_vars
             PROVE  IInv'
  OBVIOUS
<1>1. TypeOK'
  BY TypeStep DEF IInv
<1>2. CASE Quiet
  <2>1. FetchedWellFormed'
    <3> SUFFICES ASSUME NEW j \in Indexers, NEW b \in rawBlocks'[j]
                 PROVE  WellFormed(b)
      BY DEF FetchedWellFormed, WellFormed
    <3>1. b \in rawBlocks[j] \/ \E n \in Heights : b = BlockAt(n)
      BY <1>2 DEF Quiet
    <3>2. QED
      BY <3>1, BlockAtProperty DEF IInv, FetchedWellFormed, TypeOK
  <2>2. StoredWellFormed' /\ LinkedInsideBatches'
    BY <1>2 DEF IInv, Quiet, tableVars, StoredWellFormed, LinkedInsideBatches, WellFormed
  <2>3. QED
    BY <1>1, <2>1, <2>2 DEF IInv
<1>3. ASSUME NEW i \in Indexers, SaveBatch(i)
      PROVE  IInv'
  <2>1. /\ blocks' = blocks \cup rawBlocks[i]
        /\ batchStarts' = batchStarts \cup FirstOf(rawBlocks[i])
        /\ rawBlocks' = rawBlocks
        /\ Linked(rawBlocks[i])
    BY <1>3 DEF SaveBatch, Inserted, ReadyToSave, batchVars, IInv, TypeOK
  <2>2. FetchedWellFormed' /\ StoredWellFormed'
    BY <2>1 DEF IInv, FetchedWellFormed, StoredWellFormed, WellFormed
  <2>3. LinkedInsideBatches'
    <3> SUFFICES ASSUME NEW c \in blocks'
                 PROVE  \/ c.number \in batchStarts'
                        \/ \E b \in blocks' : b.number = c.number - 1 /\ b.hash = c.parentHash
      BY DEF LinkedInsideBatches
    <3>1. CASE c \in blocks
      BY <2>1, <3>1 DEF IInv, LinkedInsideBatches
    <3>2. CASE c \in rawBlocks[i]
      <4>1. rawBlocks[i] \in SUBSET Block /\ \A b \in rawBlocks[i] : WellFormed(b)
        BY DEF IInv, TypeOK, FetchedWellFormed
      <4>2. QED
        BY <2>1, <3>2, <4>1, LinkedBatchHasNoHoles
    <3>3. QED
      BY <2>1, <3>1, <3>2
  <2>4. QED
    BY <1>1, <2>2, <2>3 DEF IInv
<1>4. QED
  BY <1>2, <1>3, StepKinds DEF IInv

LEMMA IInvInit == Init => IInv
<1> SUFFICES ASSUME Init PROVE IInv
  OBVIOUS
<1>1. TypeOK
  BY NoBoundType
     DEF Init, TypeOK, ChainInit, ChainTypeOK, Labels, Cursor, Heights, NotMined
<1>2. QED
  BY <1>1 DEF Init, IInv, FetchedWellFormed, StoredWellFormed,
              LinkedInsideBatches

(* A stored block that does not begin a batch hangs on the stored block    *)
(* below it, for any number of processes, reorganisations and faults.      *)
THEOREM BatchesAreLinked == Spec => []LinkedInsideBatches
<1>1. IInv => LinkedInsideBatches
  BY DEF IInv
<1>2. QED
  BY <1>1, IInvInit, IInvStep, PTL DEF Spec

-----------------------------------------------------------------------------
(* One process.  Between reading the resume point and the commit no row is *)
(* stored at or above the batch (Fresh), except for the restart that takes *)
(* a lone genesis for an empty table (GenesisRestart).                     *)
Fresh(i) == \A r \in blocks : r.number < startBlock[i]

GenesisRestart(i) ==
  /\ startup[i]
  /\ startBlock[i] = 0
  /\ \A r \in blocks : r.number = 0

InBatch(i, n) == startBlock[i] <= n /\ n <= endBlock[i]

Ahead(i) ==
  /\ pc[i] \in {"down", "readMax", "readHead", "loop"} => startup[i]
  /\ pc[i] \in {"readHead", "loop", "fetch"} => Fresh(i) \/ GenesisRestart(i)
  /\ pc[i] = "fetch" =>
       /\ startBlock[i] <= endBlock[i]
       /\ \A n \in toFetch[i] : InBatch(i, n)
       /\ \A b \in rawBlocks[i] : InBatch(i, b.number)
  /\ pc[i] \in {"verify", "rehash"} => \A r \in blocks : r.number <= endBlock[i]

LEMMA ExitAhead ==
  ASSUME TypeOK, NEW p \in Indexers, Exit(p)
  PROVE  Ahead(p)'
BY DEF TypeOK, Exit, Goto, Ahead

LEMMA BatchThrowsAhead ==
  ASSUME TypeOK, NEW p \in Indexers, BatchThrows(p)
  PROVE  Ahead(p)'
<1>1. CASE startup[p]
  BY <1>1, ExitAhead DEF BatchThrows
<1>2. CASE ~ startup[p]
  BY <1>2 DEF TypeOK, BatchThrows, Goto, Ahead
<1>3. QED
  BY <1>1, <1>2

(* The cursor moves past every stored row when a batch returns.            *)
LEMMA BatchReturnsAhead ==
  ASSUME TypeOK, NEW p \in Indexers, BatchReturns(p), UNCHANGED tableVars,
         \A r \in blocks : r.number <= endBlock[p]
  PROVE  Ahead(p)'
<1> USE DEF tableVars
<1>1. CASE startup[p]
  <2>1. /\ startBlock'[p] = endBlock[p] + 1
        /\ pc'[p] = "loop"
        /\ startup'[p]
    BY <1>1 DEF TypeOK, BatchReturns, Goto
  <2>2. Fresh(p)'
    BY <2>1 DEF Fresh, TypeOK, Block, Heights
  <2>3. QED
    BY <2>1, <2>2 DEF Ahead
<1>2. CASE ~ startup[p]
  BY <1>2 DEF TypeOK, BatchReturns, Goto, Ahead
<1>3. QED
  BY <1>1, <1>2

(* A batch begins above every stored row, or from a lone genesis.          *)
LEMMA BeginBatchAhead ==
  ASSUME TypeOK, NEW p \in Indexers, NEW first \in Cursor, NEW last \in Heights,
         BeginBatch(p, first, last), UNCHANGED <<tableVars, startup>>, first <= last,
         \/ \A r \in blocks : r.number < first
         \/ startup[p] /\ first = 0 /\ \A r \in blocks : r.number = 0
  PROVE  Ahead(p)'
<1>1. /\ pc'[p] = "fetch"
      /\ startBlock'[p] = first
      /\ endBlock'[p] = last
      /\ toFetch'[p] = first..last
      /\ rawBlocks'[p] = {}
      /\ UNCHANGED <<blocks, startup>>
  BY DEF TypeOK, BeginBatch, Goto, tableVars
<1>2. Fresh(p)' \/ GenesisRestart(p)'
  BY <1>1 DEF Fresh, GenesisRestart
<1>3. \A n \in first..last : InBatch(p, n)'
  BY <1>1 DEF InBatch, Cursor, Heights
<1>4. QED
  BY <1>1, <1>2, <1>3 DEF Ahead

(* A process that is not in the way of a step keeps its place.             *)
LEMMA AheadUnchanged ==
  ASSUME NEW p \in Indexers, Ahead(p),
         UNCHANGED <<blocks, batchVars, pc, startup>>
  PROVE  Ahead(p)'
BY DEF Ahead, Fresh, GenesisRestart, InBatch, batchVars

LEMMA AheadStep ==
  ASSUME NEW p, Indexers = {p}, IInv, Ahead(p), [Next]_vars
  PROVE  Ahead(p)'
<1> USE DEF vars, chainVars, tableVars, batchVars
<1>1. CASE NodeStep
  BY <1>1, AheadUnchanged DEF NodeStep
<1>2. CASE UNCHANGED vars
  BY <1>2, AheadUnchanged
<1>3. CASE Progress(p)
  <2> USE DEF Goto
  <2>1. CASE Start(p)
    BY <2>1 DEF Start, Ahead, IInv, TypeOK
  <2>2. CASE ReadMax(p)
    <3>1. /\ pc[p] = "readMax" /\ pc'[p] = "readHead"
          /\ startBlock'[p] = ResumeFrom(MaxNumber(blocks))
          /\ UNCHANGED <<blocks, startup>>
      BY <2>2 DEF ReadMax, IInv, TypeOK
    <3>2. CASE MaxNumber(blocks) > 0
      BY <3>1, <3>2, MaxNumberProperty
         DEF Ahead, Fresh, ResumeFrom, IInv, TypeOK, Block, Heights, NoBlock
    <3>3. CASE ~ MaxNumber(blocks) > 0
      <4>1. \A r \in blocks : r.number = 0
        BY <3>3, MaxNumberProperty DEF IInv, TypeOK, Block, Heights, NoBlock
      <4>2. QED
        BY <3>1, <3>3, <4>1 DEF Ahead, GenesisRestart, ResumeFrom
    <3>4. QED
      BY <3>2, <3>3
  <2>3. CASE ReadHead(p)
    BY <2>3 DEF ReadHead, Ahead, Fresh, GenesisRestart, IInv, TypeOK
  <2>4. CASE NextStartupBatch(p)
    <3> DEFINE last == Smaller(startBlock[p] + BatchSize - 1, latestBlock[p])
    <3>1. /\ startBlock[p] \in Cursor
          /\ last \in Heights
          /\ startBlock[p] <= last
      BY <2>4 DEF NextStartupBatch, Smaller, IInv, TypeOK, Cursor, Heights
    <3>2. /\ BeginBatch(p, startBlock[p], last)
          /\ UNCHANGED <<tableVars, startup>>
          /\ pc[p] = "loop"
      BY <2>4 DEF NextStartupBatch
    <3>3. Fresh(p) \/ GenesisRestart(p)
      BY <3>2 DEF Ahead
    <3> HIDE DEF last, Goto
    <3>4. QED
      BY <3>1, <3>2, <3>3, BeginBatchAhead DEF Fresh, GenesisRestart, IInv
  <2>5. CASE StartupDone(p)
    BY <2>5 DEF StartupDone, Ahead, IInv, TypeOK
  <2>6. ASSUME NEW n \in Heights, FetchBlock(p, n) PROVE Ahead(p)'
    <3>1. BlockAt(n).number = n
      BY BlockAtProperty DEF IInv, TypeOK
    <3>2. /\ pc[p] = "fetch" /\ n \in toFetch[p]
          /\ toFetch'[p] = toFetch[p] \ {n}
          /\ rawBlocks'[p] = rawBlocks[p] \cup {BlockAt(n)}
          /\ UNCHANGED <<blocks, pc, startup, startBlock, endBlock>>
      BY <2>6 DEF FetchBlock, IInv, TypeOK
    <3>3. QED
      BY <3>1, <3>2 DEF Ahead, Fresh, GenesisRestart, InBatch
  <2>7. ASSUME NEW n \in Heights, FetchMissing(p, n) PROVE Ahead(p)'
    BY <2>7 DEF FetchMissing, DropBlock, Ahead, Fresh, GenesisRestart, InBatch,
                IInv, TypeOK
  <2> HIDE DEF Goto
  <2>8. CASE NothingFetched(p)
    <3>1. pc[p] = "fetch" /\ BatchReturns(p) /\ UNCHANGED tableVars
      BY <2>8 DEF NothingFetched, Fetched
    <3>2. \A r \in blocks : r.number <= endBlock[p]
      BY <3>1 DEF Ahead, Fresh, GenesisRestart, IInv, TypeOK, Block, Cursor, Heights
    <3>3. QED
      BY <3>1, <3>2, BatchReturnsAhead DEF IInv
  <2>9. CASE ContinuityBroken(p)
    BY <2>9, BatchThrowsAhead DEF ContinuityBroken, IInv
  <2>10. CASE SaveBatch(p)
    <3>1. /\ pc[p] = "fetch" /\ pc'[p] = "verify"
          /\ blocks' = blocks \cup rawBlocks[p]
          /\ UNCHANGED <<endBlock, startup>>
      BY <2>10 DEF SaveBatch, ReadyToSave, Fetched, Inserted, Goto, IInv, TypeOK
    <3>2. \A r \in blocks' : r.number <= endBlock[p]
      BY <3>1 DEF Ahead, Fresh, GenesisRestart, InBatch, IInv, TypeOK, Block, Cursor, Heights
    <3>3. QED
      BY <3>1, <3>2 DEF Ahead
  <2>11. CASE SaveConflicts(p)
    BY <2>11, BatchThrowsAhead DEF SaveConflicts, IInv
  <2>12. CASE VerifyWritten(p)
    <3>1. CASE Written(blocks, rawBlocks[p])
      BY <2>12, <3>1 DEF VerifyWritten, Goto, Ahead, IInv, TypeOK
    <3>2. CASE ~ Written(blocks, rawBlocks[p])
      BY <2>12, <3>2, BatchThrowsAhead DEF VerifyWritten, IInv
    <3>3. QED
      BY <3>1, <3>2
  <2>13. CASE VerifyHashes(p)
    <3>1. \A r \in blocks : r.number <= endBlock[p]
      BY <2>13 DEF VerifyHashes, Ahead
    <3>2. QED
      BY <2>13, <3>1, BatchReturnsAhead, BatchThrowsAhead DEF VerifyHashes, IInv
  <2>14. CASE PollHead(p)
    BY <2>14 DEF PollHead, Goto, Ahead, IInv, TypeOK
  <2>15. CASE PollMax(p)
    <3>1. CASE Behind(latestBlock[p], MaxNumber(blocks))
      <4> DEFINE max == MaxNumber(blocks)
      <4>1. /\ BeginBatch(p, max + 1, latestBlock[p])
            /\ UNCHANGED <<tableVars, startup>>
        BY <2>15, <3>1 DEF PollMax
      <4>2. /\ max + 1 \in Cursor
            /\ latestBlock[p] \in Heights
            /\ max + 1 <= latestBlock[p]
            /\ \A r \in blocks : r.number < max + 1
        BY <3>1, MaxNumberProperty DEF Behind, IInv, TypeOK, Block, Cursor, Heights, NoBlock
      <4> HIDE DEF max
      <4>3. QED
        BY <4>1, <4>2, BeginBatchAhead DEF IInv
    <3>2. CASE ~ Behind(latestBlock[p], MaxNumber(blocks))
      BY <2>15, <3>2 DEF PollMax, Goto, Ahead, IInv, TypeOK
    <3>3. QED
      BY <3>1, <3>2
  <2>16. CASE Terminate(p)
    BY <2>16, ExitAhead DEF Terminate, IInv
  <2>17. CASE ValidationFails(p)
    BY <2>17, BatchThrowsAhead DEF ValidationFails, IInv
  <2>18. QED
    BY <1>3, <2>1, <2>2, <2>3, <2>4, <2>5, <2>6, <2>7, <2>8, <2>9, <2>10,
       <2>11, <2>12, <2>13, <2>14, <2>15, <2>16, <2>17 DEF Progress
<1>4. CASE Disturbance(p)
  <2>1. ASSUME NEW n \in Heights, FetchFails(p, n) PROVE Ahead(p)'
    BY <2>1 DEF FetchFails, DropBlock, Ahead, Fresh, GenesisRestart, InBatch,
                IInv, TypeOK
  <2>2. CASE SaveFails(p)
    BY <2>2, BatchThrowsAhead DEF SaveFails, IInv
  <2>3. CASE PollFails(p)
    BY <2>3, BatchThrowsAhead DEF PollFails, IInv
  <2>4. CASE StopSignal(p)
    BY <2>4, AheadUnchanged DEF StopSignal
  <2>5. CASE Crash(p)
    BY <2>5, ExitAhead DEF Crash, IInv
  <2>6. CASE DayPasses(p)
    BY <2>6, AheadUnchanged DEF DayPasses
  <2>7. QED
    BY <1>4, <2>1, <2>2, <2>3, <2>4, <2>5, <2>6 DEF Disturbance
<1>5. QED
  BY <1>1, <1>2, <1>3, <1>4 DEF Next

(* One process meets a duplicate key in the restart from a lone genesis    *)
(* only.                                                                   *)
LEMMA AheadConflict ==
  ASSUME NEW p, Indexers = {p}, IInv, Ahead(p)
  PROVE  ConflictOnlyAtGenesis
<1> SUFFICES ASSUME ReadyToSave(p), ~ NoConflict(blocks, rawBlocks[p])
             PROVE  startup[p] /\ Numbers(blocks) = {0}
  BY DEF ConflictOnlyAtGenesis
<1>1. PICK r \in blocks, b \in rawBlocks[p] : r.number = b.number \/ r.hash = b.hash
  BY DEF NoConflict
<1>2. r.number = b.number
  BY <1>1 DEF IInv, FetchedWellFormed, StoredWellFormed, WellFormed
<1>3. /\ pc[p] = "fetch"
      /\ startBlock[p] <= b.number
      /\ Fresh(p) \/ GenesisRestart(p)
  BY DEF ReadyToSave, Fetched, Ahead, InBatch
<1>4. ~ Fresh(p)
  BY <1>2, <1>3 DEF Fresh, IInv, TypeOK, Block, Cursor, Heights
<1>5. QED
  BY <1>1, <1>3, <1>4 DEF GenesisRestart, Numbers

(* One process adds rows above every stored row only.                      *)
LEMMA AheadAppends ==
  ASSUME NEW p, Indexers = {p}, IInv, Ahead(p), [Next]_vars,
         NEW b \in blocks' \ blocks, NEW c \in blocks
  PROVE  c.number < b.number
<1>1. SaveBatch(p)
  BY StepKinds DEF Quiet, tableVars, IInv
<1>2. /\ b \in rawBlocks[p]
      /\ pc[p] = "fetch"
      /\ NoConflict(blocks, rawBlocks[p])
  BY <1>1 DEF SaveBatch, ReadyToSave, Fetched, Inserted
<1>3. /\ startBlock[p] <= b.number
      /\ Fresh(p) \/ GenesisRestart(p)
      /\ b.number # c.number
  BY <1>2 DEF Ahead, InBatch, NoConflict
<1>4. b.number \in Nat /\ c.number \in Nat /\ startBlock[p] \in Nat
  BY <1>2 DEF IInv, TypeOK, Block, Cursor, Heights
<1>5. QED
  BY <1>3, <1>4 DEF Fresh, GenesisRestart

LEMMA AheadInit ==
  ASSUME NEW p, Indexers = {p}, Init
  PROVE  Ahead(p)
BY DEF Init, Ahead

(* With a single process no insert ever meets a duplicate key, but for the *)
(* restart on a table that holds only genesis.                             *)
THEOREM ConflictsOnlyAtGenesis ==
  ASSUME NEW p, Indexers = {p}
  PROVE  Spec => []ConflictOnlyAtGenesis
<1>1. IInv /\ Ahead(p) /\ [Next]_vars => Ahead(p)'
  BY AheadStep
<1>2. Init => Ahead(p)
  BY AheadInit
<1>3. IInv /\ Ahead(p) => ConflictOnlyAtGenesis
  BY AheadConflict
<1>4. QED
  BY <1>1, <1>2, <1>3, IInvInit, IInvStep, PTL DEF Spec

(* With a single process the table only grows upwards.                     *)
THEOREM TableGrowsUpwards ==
  ASSUME NEW p, Indexers = {p}
  PROVE  Spec => AppendsAboveMax
<1>1. IInv /\ Ahead(p) /\ [Next]_vars => Ahead(p)'
  BY AheadStep
<1>2. Init => Ahead(p)
  BY AheadInit
<1>3. IInv /\ Ahead(p) /\ [Next]_vars
        => [\A b \in blocks' \ blocks, c \in blocks : c.number < b.number]_vars
  BY AheadAppends
<1>4. QED
  BY <1>1, <1>2, <1>3, IInvInit, IInvStep, PTL DEF Spec, AppendsAboveMax
=============================================================================
