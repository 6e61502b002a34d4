----------------------------- MODULE SyncEngine -----------------------------
(***************************************************************************)
(* The sync engine (src/src/sync-engine.ts) as src/src/index-enhanced.ts   *)
(* drives it: an instance takes the startup lock, looks for gaps in the    *)
(* table, synchronises to the tip, releases the lock and polls without it. *)
(* A batch is all or nothing: one failed fetch or a broken parent link     *)
(* throws, otherwise the blocks and their Transfer events are written in   *)
(* one transaction.                                                        *)
(*                                                                         *)
(* The bounds of a gap come from the driver as text, as nobody sets a      *)
(* parser for int8.  The filter of detectGaps compares them as text, so    *)
(* that some gaps, such as 9 to 10, are not seen; for the others the       *)
(* subtraction at the beginning of syncBatch throws a TypeError.  A gap    *)
(* another program left is therefore never repaired.                       *)
(*                                                                         *)
(* Every await is a step boundary: the node mines and reorganises and the  *)
(* other instances write the tables between any two of them.               *)
(*                                                                         *)
(* Assumed of the schema: blocks.number is UNIQUE, as the upsert ON        *)
(* CONFLICT (number) and the foreign key of transfers need it.             *)
(*                                                                         *)
(* Simplifications:                                                        *)
(*  - retries of one call are folded into its outcome;                     *)
(*  - a batch that its schema refuses is a call that fails; what only the  *)
(*    age of the process makes it refuse is in module ProductionIndexer;   *)
(*  - BatchSize is less than the range above which syncBatch throws;       *)
(*  - the transaction is one step, and so are the two queries of           *)
(*    detectGaps and the row reads of one chain validation;                *)
(*  - a token contract is configured and every block emits one Transfer,   *)
(*    named by the hash of its block;                                      *)
(*  - the program writes the checkpoint but never resumes from it: only    *)
(*    whether its row exists is kept;                                      *)
(*  - timers are not modelled: a poll may start at any time.               *)
(***************************************************************************)
EXTENDS Chain, BlockTable

CONSTANTS
  Instances,          \* the processes that run index-enhanced
  NoInstance,         \* nobody holds the startup lock
  BatchSize,          \* BATCH_SIZE
  ConfirmationDepth,  \* CONFIRMATION_DEPTH
  MaxErrors,          \* MAX_CONSECUTIVE_ERRORS
  UnseenGaps,         \* the gaps whose end is before their start as text
  FirstHead,          \* the head of the chain when the first instance starts
  TablesBefore,       \* the numbers of the rows another indexer may have left
  Finality,           \* the node never replaces a block with so many above it
  MaxFaults           \* bound: failed calls and crashes

ASSUME EngineAssumption ==
  /\ NoInstance \notin Instances
  /\ BatchSize \in Nat \ {0}
  /\ ConfirmationDepth \in Nat
  /\ MaxErrors \in Nat \ {0}
  /\ UnseenGaps \subseteq Heights \X Heights
  /\ FirstHead \in 0..MaxHeight
  /\ TablesBefore \subseteq
       SUBSET {n \in Heights : n = 0 \/ n + ConfirmationDepth <= FirstHead}
  /\ Finality \in Nat
  /\ MaxFaults \in Nat

VARIABLES
  peak,            \* history: the highest head the node ever had
  before,          \* history: the numbers of the rows that were there at first
  blocks,          \* the rows of the blocks table (durable)
  transfers,       \* the rows of the transfers table, by the hash of their block
  checkpointed,    \* sync_checkpoints has the row 'latest' (durable)
  lock,            \* who holds the advisory lock 'block-sync'
  pc,              \* where each instance is
  startup,         \* TRUE until the initial synchronisation has ended
  errors,          \* consecutiveErrors
  gaps,            \* the gaps repairGaps has not tried yet, as <<start, end>>
  startBlock,      \* syncToTip's and syncBatch's startBlock
  targetBlock,     \* syncToTip's targetBlock
  endBlock,        \* syncBatch's endBlock
  expectedParent,  \* expectedParentHash
  toFetch,         \* the numbers of the batch whose fetch has not ended
  blocksToSave,    \* the blocks fetched for the batch
  reorgAt,         \* reorgDetectedAt
  logs,            \* the Transfer events fetched for the batch
  faults           \* how many faults have happened

nodeVars == <<chainVars, peak>>
tableVars == <<before, blocks, transfers, checkpointed>>
batchVars == <<startBlock, targetBlock, endBlock, expectedParent, toFetch,
               blocksToSave, reorgAt, logs>>
procVars == <<lock, pc, startup, errors, gaps>>
vars == <<nodeVars, tableVars, batchVars, procVars, faults>>

NoHash == <<>>
Labels == {"down", "gaps", "gapTip", "max", "tip", "parent", "fetch", "logs", "commit",
           "checkpoint", "insert"}

TypeOK ==
  /\ ChainTypeOK
  /\ peak \in Heights
  /\ before \subseteq Heights
  /\ blocks \subseteq Block
  /\ transfers \subseteq Hash
  /\ checkpointed \in BOOLEAN
  /\ lock \in Instances \cup {NoInstance}
  /\ pc \in [Instances -> Labels]
  /\ startup \in [Instances -> BOOLEAN]
  /\ errors \in [Instances -> 0..(MaxErrors - 1)]
  /\ gaps \in [Instances -> SUBSET (Heights \X Heights)]
  /\ startBlock \in [Instances -> 0..(MaxHeight + 1)]
  /\ targetBlock \in [Instances -> Heights]
  /\ endBlock \in [Instances -> Heights]
  /\ expectedParent \in [Instances -> Hash \cup {NoHash}]
  /\ toFetch \in [Instances -> SUBSET Heights]
  /\ blocksToSave \in [Instances -> SUBSET Block]
  /\ reorgAt \in [Instances -> Heights \cup {NoBlock}]
  /\ logs \in [Instances -> SUBSET Hash]
  /\ faults \in 0..MaxFaults

Init ==
  /\ head = FirstHead
  /\ fork = 1
  /\ chain = [n \in Heights |-> IF n <= FirstHead THEN 1 ELSE NotMined]
  /\ peak = FirstHead
  /\ before \in TablesBefore
  /\ blocks = {BlockAt(n) : n \in before}
  /\ transfers = {}
  /\ checkpointed = FALSE
  /\ lock = NoInstance
  /\ pc = [i \in Instances |-> "down"]
  /\ startup = [i \in Instances |-> TRUE]
  /\ errors = [i \in Instances |-> 0]
  /\ gaps = [i \in Instances |-> {}]
  /\ startBlock = [i \in Instances |-> 0]
  /\ targetBlock = [i \in Instances |-> 0]
  /\ endBlock = [i \in Instances |-> 0]
  /\ expectedParent = [i \in Instances |-> NoHash]
  /\ toFetch = [i \in Instances |-> {}]
  /\ blocksToSave = [i \in Instances |-> {}]
  /\ reorgAt = [i \in Instances |-> NoBlock]
  /\ logs = [i \in Instances |-> {}]
  /\ faults = 0

(***************************************************************************)
(* The node.  Genesis is not replaced.                                     *)
(***************************************************************************)
NodeMines ==
  /\ Mine
  /\ peak' = IF head' > peak THEN head' ELSE peak
  /\ UNCHANGED <<tableVars, batchVars, procVars, faults>>

NodeReorgs(k) ==
  /\ k > 0
  /\ k + Finality > peak
  /\ Reorg(k)
  /\ UNCHANGED <<peak, tableVars, batchVars, procVars, faults>>

(***************************************************************************)
(* How a sync ends.                                                        *)
(***************************************************************************)
Goto(i, label) == pc' = [pc EXCEPT ![i] = label]

Fault == faults < MaxFaults /\ faults' = faults + 1

Unlock(i) == lock' = IF lock = i THEN NoInstance ELSE lock

(* The local variables of a batch are gone.                                *)
ForgetBatch(i) ==
  /\ targetBlock' = [targetBlock EXCEPT ![i] = 0]
  /\ startBlock' = [startBlock EXCEPT ![i] = 0]
  /\ endBlock' = [endBlock EXCEPT ![i] = 0]
  /\ expectedParent' = [expectedParent EXCEPT ![i] = NoHash]
  /\ toFetch' = [toFetch EXCEPT ![i] = {}]
  /\ blocksToSave' = [blocksToSave EXCEPT ![i] = {}]
  /\ reorgAt' = [reorgAt EXCEPT ![i] = NoBlock]
  /\ logs' = [logs EXCEPT ![i] = {}]

(* The process exits; its database session ends, and with it the lock.     *)
Exit(i) ==
  /\ Goto(i, "down")
  /\ startup' = [startup EXCEPT ![i] = TRUE]
  /\ errors' = [errors EXCEPT ![i] = 0]
  /\ gaps' = [gaps EXCEPT ![i] = {}]
  /\ Unlock(i)
  /\ ForgetBatch(i)

\* Mutant of TooManyErrors: one error too many is tolerated.
TooManyErrorsLate(i) == errors[i] + 1 > MaxErrors

TooManyErrors(i) == errors[i] + 1 >= MaxErrors

(* An error leaves repairGaps, syncToTip or the checkpoint: fatal at       *)
(* startup, counted while polling.                                         *)
Throws(i) ==
  IF startup[i] \/ TooManyErrors(i)
    THEN Exit(i)
    ELSE /\ Goto(i, "max")
         /\ errors' = [errors EXCEPT ![i] = @ + 1]
         /\ ForgetBatch(i)
         /\ UNCHANGED <<lock, startup, gaps>>

(* syncToTip returns; the checkpoint of the turn is next.                  *)
SyncReturns(i) ==
  /\ Goto(i, "checkpoint")
  /\ ForgetBatch(i)
  /\ UNCHANGED <<lock, startup, errors, gaps>>

(* The turn has ended.  At startup the lock is released, unless the pool   *)
(* runs pg_advisory_unlock on another session; then it stays held until    *)
(* its own session ends.  Only now the error counter is reset.             *)
TurnEnds(i) ==
  /\ Goto(i, "max")
  /\ startup' = [startup EXCEPT ![i] = FALSE]
  /\ errors' = [errors EXCEPT ![i] = 0]
  /\ IF startup[i] THEN Unlock(i) \/ UNCHANGED lock ELSE UNCHANGED lock
  /\ UNCHANGED <<batchVars, gaps>>

(***************************************************************************)
(* Startup and repairGaps.                                                 *)
(***************************************************************************)
(* An instance that does not get the lock exits with 0 and is restarted.   *)
AcquireLock(i) ==
  /\ pc[i] = "down"
  /\ lock = NoInstance
  /\ lock' = i
  /\ Goto(i, "gaps")
  /\ UNCHANGED <<nodeVars, tableVars, batchVars, startup, errors, gaps, faults>>

(* detectGaps: for every stored number but the greatest whose successor is *)
(* missing, the stretch up to the next stored number.                      *)
GapsOf(rows) ==
  {<<b.number + 1, Min({n \in Numbers(rows) : n > b.number}) - 1>> : b \in
     {r \in rows : r.number < MaxNumber(rows) /\ r.number + 1 \notin Numbers(rows)}}

SeenGaps(rows) == GapsOf(rows) \ UnseenGaps

DetectGaps(i) ==
  /\ pc[i] = "gaps"
  /\ gaps' = [gaps EXCEPT ![i] = SeenGaps(blocks)]
  /\ Goto(i, IF SeenGaps(blocks) = {} THEN "max" ELSE "gapTip")
  /\ UNCHANGED <<nodeVars, tableVars, batchVars, lock, startup, errors, faults>>

(* repairGaps goes on with another gap, or returns.                        *)
GapDone(i, g) ==
  /\ gaps' = [gaps EXCEPT ![i] = @ \ {g}]
  /\ Goto(i, IF gaps[i] = {g} THEN "max" ELSE "gapTip")
  /\ UNCHANGED <<nodeVars, tableVars, batchVars, lock, startup, errors, faults>>

(* A gap beyond the tip of the chain is skipped.                           *)
SkipGap(i, g) == pc[i] = "gapTip" /\ g \in gaps[i] /\ g[1] > head /\ GapDone(i, g)

\* Mutant of RepairGap: the error is logged, and the sync goes on.
RepairGapLogged(i, g) ==
  pc[i] = "gapTip" /\ g \in gaps[i] /\ g[1] <= head /\ GapDone(i, g)

(* syncBatch throws before its first fetch.                                *)
RepairGap(i, g) ==
  /\ pc[i] = "gapTip" /\ g \in gaps[i] /\ g[1] <= head
  /\ Throws(i)
  /\ UNCHANGED <<nodeVars, tableVars, faults>>

(* syncBatch is called for first..last.                                    *)
BeginBatch(i, first, last, parent) ==
  /\ startBlock' = [startBlock EXCEPT ![i] = first]
  /\ endBlock' = [endBlock EXCEPT ![i] = last]
  /\ expectedParent' = [expectedParent EXCEPT ![i] = parent]
  /\ toFetch' = [toFetch EXCEPT ![i] = first..last]
  /\ blocksToSave' = [blocksToSave EXCEPT ![i] = {}]
  /\ reorgAt' = [reorgAt EXCEPT ![i] = NoBlock]
  /\ logs' = [logs EXCEPT ![i] = {}]
  /\ Goto(i, "fetch")

(***************************************************************************)
(* syncToTip.                                                              *)
(***************************************************************************)
\* Mutants of StartAfter: the stored maximum is fetched again, or a block is
\* skipped.
StartAtMax(max) == IF max = NoBlock THEN 0 ELSE max
StartTwoAfter(max) == max + 2

StartAfter(max) == max + 1        \* 0 on an empty table

ReadMax(i) ==
  /\ pc[i] = "max"
  /\ startBlock' = [startBlock EXCEPT ![i] = StartAfter(MaxNumber(blocks))]
  /\ Goto(i, "tip")
  /\ UNCHANGED <<nodeVars, tableVars, targetBlock, endBlock, expectedParent, toFetch,
                 blocksToSave, reorgAt, logs, lock, startup, errors, gaps, faults>>

\* Mutant of Target: the confirmation depth is ignored.
TargetTip(tip) == tip

Target(tip) == IF tip > ConfirmationDepth THEN tip - ConfirmationDepth ELSE 0

\* Mutant of UpToDate: the loop ends one block early.
NearlyUpToDate(first, target) == first >= target

UpToDate(first, target) == first > target

ReadTip(i) ==
  /\ pc[i] = "tip"
  /\ IF UpToDate(startBlock[i], Target(head))
       THEN SyncReturns(i)
       ELSE /\ targetBlock' = [targetBlock EXCEPT ![i] = Target(head)]
            /\ Goto(i, "parent")
            /\ UNCHANGED <<startBlock, endBlock, expectedParent, toFetch,
                           blocksToSave, reorgAt, logs, lock, startup, errors, gaps>>
  /\ UNCHANGED <<nodeVars, tableVars, faults>>

Smaller(m, n) == IF m <= n THEN m ELSE n

BatchEnd(first, target) == Smaller(first + BatchSize - 1, target)

(* The hash of the stored maximum, undefined when the table is empty or    *)
(* the row is gone.                                                        *)
ParentRow(i) == {b \in blocks : b.number = startBlock[i] - 1}
ParentHash(i) ==
  IF ParentRow(i) = {} THEN NoHash ELSE (CHOOSE b \in ParentRow(i) : TRUE).hash

ReadParent(i) ==
  /\ pc[i] = "parent"
  /\ BeginBatch(i, startBlock[i], BatchEnd(startBlock[i], targetBlock[i]), ParentHash(i))
  /\ UNCHANGED <<nodeVars, tableVars, targetBlock, lock, startup, errors, gaps, faults>>

(***************************************************************************)
(* syncBatch.                                                              *)
(***************************************************************************)
FetchBlock(i, n) ==
  /\ pc[i] = "fetch"
  /\ n \in toFetch[i]
  /\ n <= head
  /\ toFetch' = [toFetch EXCEPT ![i] = @ \ {n}]
  /\ blocksToSave' = [blocksToSave EXCEPT ![i] = @ \cup {BlockAt(n)}]
  /\ UNCHANGED <<nodeVars, tableVars, procVars, startBlock, targetBlock, endBlock,
                 expectedParent, reorgAt, logs, faults>>

(* The node does not have the block (any more): the batch is aborted.      *)
FetchMissing(i, n) ==
  /\ pc[i] = "fetch"
  /\ n \in toFetch[i]
  /\ n > head
  /\ Throws(i)
  /\ UNCHANGED <<nodeVars, tableVars, faults>>

Fetched(i) == pc[i] = "fetch" /\ toFetch[i] = {}

\* Mutant of Mismatched: no chain validation.
NoneMismatched(i) == {}

(* The blocks whose parent hash is not the hash of the block before them,  *)
(* or, for the first one, not the expected hash when there is one.         *)
Mismatched(i) ==
  {c \in blocksToSave[i] :
     \/ \E b \in blocksToSave[i] : /\ Follows(b, c, blocksToSave[i])
                                   /\ c.parentHash # b.hash
     \/ /\ c.number = startBlock[i]
        /\ expectedParent[i] # NoHash
        /\ c.parentHash # expectedParent[i]}

(* A mismatch is taken for a reorganisation when a different block is      *)
(* stored at that number.                                                  *)
IsReorg(i) ==
  \A c \in Mismatched(i) : \E r \in blocks : r.number = c.number /\ r.hash # c.hash

ChainValid(i) ==
  /\ Fetched(i)
  /\ IsReorg(i)
  /\ reorgAt' = [reorgAt EXCEPT ![i] = MaxNumber(Mismatched(i))]   \* the last one wins
  /\ Goto(i, "logs")
  /\ UNCHANGED <<nodeVars, tableVars, startBlock, targetBlock, endBlock, expectedParent,
                 toFetch, blocksToSave, logs, lock, startup, errors, gaps, faults>>

ChainDiscontinuity(i) ==
  /\ Fetched(i)
  /\ ~ IsReorg(i)
  /\ Throws(i)
  /\ UNCHANGED <<nodeVars, tableVars, faults>>

\* Mutant of LogsIn: the last block of the page is left out.
LogsBefore(first, last) == {<<n, chain[n]>> : n \in {m \in first..(last - 1) : m <= head}}

(* eth_getLogs over first..last: the events of the canonical blocks.       *)
LogsIn(first, last) == {<<n, chain[n]>> : n \in {m \in first..last : m <= head}}

GetTransferEvents(i) ==
  /\ pc[i] = "logs"
  /\ logs' = [logs EXCEPT ![i] = LogsIn(startBlock[i], endBlock[i])]
  /\ Goto(i, "commit")
  /\ UNCHANGED <<nodeVars, tableVars, startBlock, targetBlock, endBlock, expectedParent,
                 toFetch, blocksToSave, reorgAt, lock, startup, errors, gaps, faults>>

(* The rows at or above reorgDetectedAt are deleted, those of the batch    *)
(* inserted or updated.                                                    *)
Kept(i, number) == reorgAt[i] = NoBlock \/ number < reorgAt[i]

Upserted(i) ==
  {b \in blocks : Kept(i, b.number) /\ b.number \notin Numbers(blocksToSave[i])}
    \cup blocksToSave[i]

(* The delete cascades to the transfers; a new one is dropped when its     *)
(* (block_number, log_index) is taken (DO NOTHING).                        *)
KeptTransfers(i) == {t \in transfers : Kept(i, t[1])}

TransfersSaved(i) ==
  KeptTransfers(i) \cup {t \in logs[i] : \A u \in KeptTransfers(i) : u[1] # t[1]}

LastHash(i) == (CHOOSE b \in blocksToSave[i] : b.number = endBlock[i]).hash

(* What follows a batch of syncToTip: the next batch, or the end.          *)
BatchReturns(i) ==
  LET next == endBlock[i] + 1
  IN IF UpToDate(next, targetBlock[i])
       THEN SyncReturns(i)
       ELSE /\ BeginBatch(i, next, BatchEnd(next, targetBlock[i]), LastHash(i))
            /\ UNCHANGED <<targetBlock, lock, startup, errors, gaps>>

Commit(i) ==
  /\ pc[i] = "commit"
  /\ blocks' = Upserted(i)
  /\ transfers' = TransfersSaved(i)
  /\ BatchReturns(i)
  /\ UNCHANGED <<nodeVars, before, checkpointed, faults>>

(***************************************************************************)
(* The checkpoint: an update, and an insert when there was no row.         *)
(***************************************************************************)
(* A maximum of 0n counts as none.                                         *)
NothingToSave == MaxNumber(blocks) <= 0

UpdateCheckpoint(i) ==
  /\ pc[i] = "checkpoint"
  /\ IF NothingToSave \/ checkpointed
       THEN TurnEnds(i)
       ELSE /\ Goto(i, "insert")
            /\ UNCHANGED <<batchVars, lock, startup, errors, gaps>>
  /\ UNCHANGED <<nodeVars, tableVars, faults>>

InsertCheckpoint(i) ==
  /\ pc[i] = "insert"
  /\ ~ checkpointed
  /\ checkpointed' = TRUE
  /\ TurnEnds(i)
  /\ UNCHANGED <<nodeVars, before, blocks, transfers, faults>>

(* Another instance inserted the row since the update: its name is UNIQUE. *)
CheckpointConflicts(i) ==
  /\ pc[i] = "insert"
  /\ checkpointed
  /\ Throws(i)
  /\ UNCHANGED <<nodeVars, tableVars, faults>>

(***************************************************************************)
(* Failures.                                                               *)
(***************************************************************************)
(* A call of the node or the database fails; a transaction rolls back.     *)
CallFails(i) ==
  /\ pc[i] # "down"
  /\ Fault
  /\ Throws(i)
  /\ UNCHANGED <<nodeVars, tableVars>>

(* A crash, or a signal: the handlers exit the process, maybe in a batch.  *)
Crash(i) ==
  /\ pc[i] # "down"
  /\ Fault
  /\ Exit(i)
  /\ UNCHANGED <<nodeVars, tableVars>>

(* The lock belongs to the session of one pooled connection, and the pool  *)
(* closes a connection that has been idle for thirty seconds: the lock is  *)
(* gone, and its holder does not notice.                                   *)
SessionCloses(i) ==
  /\ lock = i
  /\ lock' = NoInstance
  /\ UNCHANGED <<nodeVars, tableVars, batchVars, pc, startup, errors, gaps, faults>>

-----------------------------------------------------------------------------
Progress(i) ==
  \/ AcquireLock(i) \/ DetectGaps(i)
  \/ \E g \in gaps[i] : SkipGap(i, g) \/ RepairGap(i, g)
  \/ ReadMax(i) \/ ReadTip(i) \/ ReadParent(i)
  \/ \E n \in Heights : FetchBlock(i, n) \/ FetchMissing(i, n)
  \/ ChainValid(i) \/ ChainDiscontinuity(i) \/ GetTransferEvents(i) \/ Commit(i)
  \/ UpdateCheckpoint(i) \/ InsertCheckpoint(i) \/ CheckpointConflicts(i)

Disturbance(i) == CallFails(i) \/ Crash(i) \/ SessionCloses(i)

Next ==
  \/ NodeMines
  \/ \E k \in Heights : NodeReorgs(k)
  \/ \E i \in Instances : Progress(i) \/ Disturbance(i)

Spec == Init /\ [][Next]_vars

(* The event loop runs whatever is ready and the container restarts a      *)
(* process that exited; the node and the faults need not do anything.      *)
FairSpec == Spec /\ \A i \in Instances : WF_vars(Progress(i))

-----------------------------------------------------------------------------
(* When the node keeps blocks of the confirmation depth, every stored row  *)
(* is the canonical block of its number for ever, however many instances   *)
(* write the table, crash or fail: the depth really prevents "reorg        *)
(* storms", and the reorganisation branch of syncBatch is dead code.       *)
StoredIsCanonical == \A b \in blocks : b = BlockAt(b.number)

(* Under the same condition a block is never stored without its Transfer   *)
(* events nor an event without its block, although the events are fetched  *)
(* later than the blocks, by another call.                                 *)
EventsMatchBlocks ==
  /\ \A t \in transfers : \E b \in blocks : b.hash = t
  /\ \A b \in blocks : b.number \in before \/ b.hash \in transfers

(* And the tables implement a log of final blocks (module FinalLog): the   *)
(* upsert, the delete of a reorganisation and the events that lose against *)
(* stored ones come to appending each batch with its events, also when two *)
(* instances write the same numbers.  A block is final when the node       *)
(* cannot replace it any more.                                             *)
FinalBlocks == {BlockAt(n) : n \in {m \in Heights : m = 0 \/ m + Finality <= peak}}

Log == INSTANCE FinalLog WITH final <- FinalBlocks, log <- blocks, events <- transfers

ImplementsLog == Log!Spec

(* No crash, failed call or concurrent instance leaves a hole above the    *)
(* rows another indexer left: a batch is all or nothing.                   *)
Above(n, numbers) == \A m \in numbers : m < n
NoHole ==
  \A n \in 0..MaxNumber(blocks) : Above(n, before) => n \in Numbers(blocks)

(* Nobody builds on a table with a gap that is seen and that the chain     *)
(* covers: whatever fails, and whoever holds the lock or has lost it, no   *)
(* instance gets past its repair, which throws, to write anything.         *)
OpenGaps == {g \in SeenGaps(blocks) : g[1] <= head}
GapsComeFirst == [][OpenGaps # {} => blocks' = blocks]_blocks

(* A row above those another indexer left hangs on the stored row below it. *)
StoredLinked ==
  \A b, c \in blocks :
    c.number = b.number + 1 /\ Above(c.number, before) => c.parentHash = b.hash

(* One instance only appends: without a second writer the upsert never     *)
(* meets a stored row, whatever the node reorganises.                      *)
OnlyAppends == [][blocks \subseteq blocks']_vars

(* Whatever calls fail and processes crash, in the end the table holds     *)
(* every block from the confirmed tip down to the rows another indexer     *)
(* left; but a gap among these that is seen stops every start, for ever.   *)
Confirmed == {n \in 0..Target(head) : Above(n, before)}
ConfirmedAreStored ==
  <>[](Confirmed \subseteq Numbers(blocks) \/ OpenGaps # {})

-----------------------------------------------------------------------------
(* What the repository's comments say, and the program does not do.        *)

(* sync-engine.ts: chain validation and reorg handling, so that after a    *)
(* reorganisation the canonical chain is stored again in the end.          *)
ReorgIsHealed ==
  <>[](Confirmed \subseteq Numbers(blocks) /\ StoredIsCanonical)
=============================================================================
