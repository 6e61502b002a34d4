------------------------- MODULE ProductionIndexer -------------------------
(***************************************************************************)
(* The production entry point (src/src/index-production.ts): each process  *)
(* synchronises the missing blocks at startup, then polls the node for new *)
(* ones.  Blocks are fetched in parallel, a fetch that fails is counted    *)
(* and dropped, the batch that is left is checked for continuity, inserted *)
(* in one transaction and read back.                                       *)
(*                                                                         *)
(* Interleaving: every await of the program is a step boundary, so the     *)
(* node mines and reorganises between any two of them (also between two    *)
(* fetches of one batch), and other indexer processes write the table.     *)
(*                                                                         *)
(* Simplifications:                                                        *)
(*  - rate limiter, circuit breaker and retries of one call are folded     *)
(*    into its outcome: it returns the node's answer or it fails;          *)
(*  - creating the table and running the migrations are part of Start;     *)
(*  - the hash re-reads after a save are one step (nothing in this program *)
(*    deletes or updates rows between them);                               *)
(*  - timers are not modelled: a poll may start at any time.               *)
(***************************************************************************)
EXTENDS BlockSchema, BlockTable

CONSTANTS Indexers,    \* the processes that run index-production
          BatchSize,   \* DB_SYNC_BATCH_SIZE
          MaxFaults    \* bound: failed calls, crashes and stop signals

ASSUME IndexerAssumption == BatchSize \in Nat \ {0} /\ MaxFaults \in Nat

VARIABLES
  blocks,       \* the rows of the blocks table (durable)
  pc,           \* where each process is
  startup,      \* TRUE from the start until syncMissingBlocks has returned
  isRunning,    \* the flag the sync loops test
  bound,        \* the latest block whose timestamp the block schema accepts
  latestBlock,  \* the chain head the process read last
  startBlock,   \* syncBlockBatch's startBlock; currentBlock of the startup loop
  endBlock,     \* syncBlockBatch's endBlock
  toFetch,      \* the numbers of the batch whose fetch has not ended
  rawBlocks,    \* the blocks fetched for the batch
  faults,       \* how many faults have happened
  batchStarts   \* history: the numbers at which a committed batch began

tableVars == <<blocks, batchStarts>>
batchVars == <<startBlock, endBlock, toFetch, rawBlocks>>
vars == <<chainVars, tableVars, batchVars, pc, startup, isRunning, bound,
          latestBlock, faults>>

Labels == {"down", "readMax", "readHead", "loop", "fetch", "verify", "rehash",
           "poll", "pollMax"}
Cursor == 0..(MaxHeight + 1)

TypeOK ==
  /\ ChainTypeOK
  /\ blocks \subseteq Block
  /\ batchStarts \subseteq Heights
  /\ pc \in [Indexers -> Labels]
  /\ startup \in [Indexers -> BOOLEAN]
  /\ isRunning \in [Indexers -> BOOLEAN]
  /\ bound \in [Indexers -> Hash]
  /\ latestBlock \in [Indexers -> Heights]
  /\ startBlock \in [Indexers -> Cursor]
  /\ endBlock \in [Indexers -> Heights]
  /\ toFetch \in [Indexers -> SUBSET Heights]
  /\ rawBlocks \in [Indexers -> SUBSET Block]
  /\ faults \in 0..MaxFaults

Init ==
  /\ ChainInit
  /\ blocks = {}
  /\ batchStarts = {}
  /\ pc = [i \in Indexers |-> "down"]
  /\ startup = [i \in Indexers |-> TRUE]
  /\ isRunning = [i \in Indexers |-> TRUE]
  /\ bound = [i \in Indexers |-> NoBound]
  /\ latestBlock = [i \in Indexers |-> 0]
  /\ startBlock = [i \in Indexers |-> 0]
  /\ endBlock = [i \in Indexers |-> 0]
  /\ toFetch = [i \in Indexers |-> {}]
  /\ rawBlocks = [i \in Indexers |-> {}]
  /\ faults = 0

Goto(i, label) == pc' = [pc EXCEPT ![i] = label]

(* The fault budget: one more call fails, or the process is interrupted.   *)
Fault == faults < MaxFaults /\ faults' = faults + 1

(***************************************************************************)
(* Process exit.  Local variables are lost; resetting them here keeps one  *)
(* state per dead process.                                                 *)
(***************************************************************************)
Exit(i) ==
  /\ Goto(i, "down")
  /\ startup' = [startup EXCEPT ![i] = TRUE]
  /\ isRunning' = [isRunning EXCEPT ![i] = TRUE]
  /\ bound' = [bound EXCEPT ![i] = NoBound]
  /\ latestBlock' = [latestBlock EXCEPT ![i] = 0]
  /\ startBlock' = [startBlock EXCEPT ![i] = 0]
  /\ endBlock' = [endBlock EXCEPT ![i] = 0]
  /\ toFetch' = [toFetch EXCEPT ![i] = {}]
  /\ rawBlocks' = [rawBlocks EXCEPT ![i] = {}]

(***************************************************************************)
(* main and the startup synchronisation, syncMissingBlocks.                *)
(***************************************************************************)
Start(i) ==
  /\ pc[i] = "down"
  /\ Goto(i, "readMax")
  /\ UNCHANGED <<chainVars, tableVars, batchVars, startup, isRunning, bound,
                 latestBlock, faults>>

\* Mutants of ResumeFrom: resume at the stored maximum, or always from genesis.
ResumeAtMax(max) == IF max > 0 THEN max ELSE 0
ResumeAtZero(max) == 0

(* localMaxBlock ? localMaxBlock + 1n : 0n -- null and 0n are both falsy.  *)
ResumeFrom(max) == IF max > 0 THEN max + 1 ELSE 0

ReadMax(i) ==
  /\ pc[i] = "readMax"
  /\ startBlock' = [startBlock EXCEPT ![i] = ResumeFrom(MaxNumber(blocks))]
  /\ Goto(i, "readHead")
  /\ UNCHANGED <<chainVars, tableVars, endBlock, toFetch, rawBlocks, startup,
                 isRunning, bound, latestBlock, faults>>

ReadHead(i) ==
  /\ pc[i] = "readHead"
  /\ latestBlock' = [latestBlock EXCEPT ![i] = head]
  /\ Goto(i, "loop")
  /\ UNCHANGED <<chainVars, tableVars, batchVars, startup, isRunning,
                 bound, faults>>

\* Mutant of BeginBatch: the end of the range is one block too far.
BeginBatchToHead(i, first, last) ==
  /\ startBlock' = [startBlock EXCEPT ![i] = first]
  /\ endBlock' = [endBlock EXCEPT ![i] = last + 1]
  /\ toFetch' = [toFetch EXCEPT ![i] = first..last]
  /\ rawBlocks' = [rawBlocks EXCEPT ![i] = {}]
  /\ Goto(i, "fetch")

(* syncBlockBatch is called for the blocks first..last.                    *)
BeginBatch(i, first, last) ==
  /\ startBlock' = [startBlock EXCEPT ![i] = first]
  /\ endBlock' = [endBlock EXCEPT ![i] = last]
  /\ toFetch' = [toFetch EXCEPT ![i] = first..last]
  /\ rawBlocks' = [rawBlocks EXCEPT ![i] = {}]
  /\ Goto(i, "fetch")

Smaller(m, n) == IF m <= n THEN m ELSE n

(* One turn of the while loop of syncMissingBlocks.                        *)
NextStartupBatch(i) ==
  /\ pc[i] = "loop"
  /\ startBlock[i] <= latestBlock[i]
  /\ BeginBatch(i, startBlock[i],
                Smaller(startBlock[i] + BatchSize - 1, latestBlock[i]))
  /\ UNCHANGED <<chainVars, tableVars, startup, isRunning, bound,
                 latestBlock, faults>>

StartupDone(i) ==
  /\ pc[i] = "loop"
  /\ startBlock[i] > latestBlock[i]
  /\ startup' = [startup EXCEPT ![i] = FALSE]
  /\ Goto(i, "poll")
  /\ UNCHANGED <<chainVars, tableVars, batchVars, isRunning, bound,
                 latestBlock, faults>>

(***************************************************************************)
(* syncBlockBatch.                                                         *)
(***************************************************************************)
(* One of the parallel fetches returns the node's block.                   *)
FetchBlock(i, n) ==
  /\ pc[i] = "fetch"
  /\ n \in toFetch[i]
  /\ n <= head
  /\ toFetch' = [toFetch EXCEPT ![i] = @ \ {n}]
  /\ rawBlocks' = [rawBlocks EXCEPT ![i] = @ \cup {BlockAt(n)}]
  /\ UNCHANGED <<chainVars, tableVars, pc, startBlock, endBlock, startup,
                 isRunning, bound, latestBlock, faults>>

DropBlock(i, n) ==
  /\ pc[i] = "fetch"
  /\ n \in toFetch[i]
  /\ toFetch' = [toFetch EXCEPT ![i] = @ \ {n}]
  /\ UNCHANGED <<chainVars, tableVars, pc, startBlock, endBlock, rawBlocks,
                 startup, isRunning, bound, latestBlock>>

(* The node does not have the block (any more): {success: false}.          *)
FetchMissing(i, n) == n > head /\ DropBlock(i, n) /\ UNCHANGED faults

(* Retries exhausted, breaker open or rate limiter timeout: {success: false}. *)
FetchFails(i, n) == Fault /\ DropBlock(i, n)

Fetched(i) == pc[i] = "fetch" /\ toFetch[i] = {}

(* The batch is over without an error: the startup loop moves to the next  *)
(* batch, the polling loop to its next turn.                               *)
BatchReturns(i) ==
  /\ IF startup[i]
       THEN /\ startBlock' = [startBlock EXCEPT ![i] = endBlock[i] + 1]
            /\ Goto(i, "loop")
       ELSE /\ Goto(i, "poll")
            /\ UNCHANGED startBlock
  /\ rawBlocks' = [rawBlocks EXCEPT ![i] = {}]
  /\ toFetch' = [toFetch EXCEPT ![i] = {}]
  /\ UNCHANGED <<endBlock, startup, isRunning, bound, latestBlock>>

(* The batch throws: main exits the process, the polling loop goes on.     *)
BatchThrows(i) ==
  IF startup[i]
    THEN Exit(i)
    ELSE /\ Goto(i, "poll")
         /\ rawBlocks' = [rawBlocks EXCEPT ![i] = {}]
         /\ toFetch' = [toFetch EXCEPT ![i] = {}]
         /\ UNCHANGED <<startBlock, endBlock, startup, isRunning, bound,
                        latestBlock>>

NothingFetched(i) ==
  /\ Fetched(i)
  /\ rawBlocks[i] = {}
  /\ BatchReturns(i)
  /\ UNCHANGED <<chainVars, tableVars, faults>>

ContinuityBroken(i) ==
  /\ Fetched(i)
  /\ ~ Linked(rawBlocks[i])
  /\ BatchThrows(i)
  /\ UNCHANGED <<chainVars, tableVars, faults>>

ReadyToSave(i) == Fetched(i) /\ rawBlocks[i] # {} /\ Linked(rawBlocks[i])

Validated(i) == WithinBound(rawBlocks[i], bound[i])

ValidationFails(i) ==
  /\ ReadyToSave(i)
  /\ ~ Validated(i)
  /\ BatchThrows(i)
  /\ UNCHANGED <<chainVars, tableVars, faults>>

(* The table after the rows of the batch are inserted one by one.          *)
Inserted(rows, batch) == rows \cup batch

(* saveValidatedBlocks commits.                                            *)
SaveBatch(i) ==
  /\ ReadyToSave(i)
  /\ Validated(i)
  /\ NoConflict(blocks, rawBlocks[i])
  /\ blocks' = Inserted(blocks, rawBlocks[i])
  /\ batchStarts' = batchStarts \cup FirstOf(rawBlocks[i])
  /\ Goto(i, "verify")
  /\ UNCHANGED <<chainVars, batchVars, startup, isRunning, bound,
                 latestBlock, faults>>

(* saveValidatedBlocks rolls back on a duplicate number or hash.           *)
SaveConflicts(i) ==
  /\ ReadyToSave(i)
  /\ Validated(i)
  /\ ~ NoConflict(blocks, rawBlocks[i])
  /\ BatchThrows(i)
  /\ UNCHANGED <<chainVars, tableVars, faults>>

(* saveValidatedBlocks rolls back because the database failed.             *)
SaveFails(i) ==
  /\ ReadyToSave(i)
  /\ Validated(i)
  /\ Fault
  /\ BatchThrows(i)
  /\ UNCHANGED <<chainVars, tableVars>>

VerifyWritten(i) ==
  /\ pc[i] = "verify"
  /\ IF Written(blocks, rawBlocks[i])
       THEN /\ Goto(i, "rehash")
            /\ UNCHANGED <<batchVars, startup, isRunning, bound,
                           latestBlock>>
       ELSE BatchThrows(i)
  /\ UNCHANGED <<chainVars, tableVars, faults>>

VerifyHashes(i) ==
  /\ pc[i] = "rehash"
  /\ IF SameHashes(blocks, rawBlocks[i]) THEN BatchReturns(i) ELSE BatchThrows(i)
  /\ UNCHANGED <<chainVars, tableVars, faults>>

(***************************************************************************)
(* pollNewBlocks.                                                          *)
(***************************************************************************)
PollHead(i) ==
  /\ pc[i] = "poll"
  /\ isRunning[i]
  /\ latestBlock' = [latestBlock EXCEPT ![i] = head]
  /\ Goto(i, "pollMax")
  /\ UNCHANGED <<chainVars, tableVars, batchVars, startup, isRunning,
                 bound, faults>>

\* Mutant of Behind: the block after the stored maximum is not waited for.
BehindByTwo(latest, max) == latest > max + 1

Behind(latest, max) == latest > max

PollMax(i) ==
  /\ pc[i] = "pollMax"
  /\ LET max == MaxNumber(blocks)
     IN IF Behind(latestBlock[i], max)
          THEN BeginBatch(i, max + 1, latestBlock[i])
          ELSE Goto(i, "poll") /\ UNCHANGED batchVars
  /\ UNCHANGED <<chainVars, tableVars, startup, isRunning, bound,
                 latestBlock, faults>>

(* A call of the polling loop, or of a read-back, fails: Polling error.    *)
PollFails(i) ==
  /\ pc[i] \in {"pollMax", "verify", "rehash"}
  /\ ~ startup[i]
  /\ Fault
  /\ BatchThrows(i)
  /\ UNCHANGED <<chainVars, tableVars>>

(* SIGTERM or SIGINT while polling: the handlers clear isRunning first; the *)
(* batch in flight goes on until it ends or the process exits under it.    *)
StopSignal(i) ==
  /\ ~ startup[i]
  /\ isRunning[i]
  /\ Fault
  /\ isRunning' = [isRunning EXCEPT ![i] = FALSE]
  /\ UNCHANGED <<chainVars, tableVars, batchVars, pc, startup, bound,
                 latestBlock>>

(* A day has passed since the process was started: it refuses every block  *)
(* that is mined from now on.                                              *)
DayPasses(i) ==
  /\ pc[i] # "down"
  /\ bound[i] = NoBound
  /\ Fault
  /\ bound' = [bound EXCEPT ![i] = BoundNow]
  /\ UNCHANGED <<chainVars, tableVars, batchVars, pc, startup, isRunning,
                 latestBlock>>

(* The shutdown manager exits the process, maybe inside a batch.           *)
Terminate(i) ==
  /\ ~ isRunning[i]
  /\ Exit(i)
  /\ UNCHANGED <<chainVars, tableVars, faults>>

(* A crash, a kill, or at startup any failed call (main exits with 1).     *)
Crash(i) ==
  /\ pc[i] # "down"
  /\ Fault
  /\ Exit(i)
  /\ UNCHANGED <<chainVars, tableVars>>

-----------------------------------------------------------------------------
(* What a process does by itself when nothing fails.                       *)
Progress(i) ==
  \/ Start(i) \/ ReadMax(i) \/ ReadHead(i) \/ NextStartupBatch(i) \/ StartupDone(i)
  \/ \E n \in Heights : FetchBlock(i, n) \/ FetchMissing(i, n)
  \/ NothingFetched(i) \/ ContinuityBroken(i) \/ ValidationFails(i)
  \/ SaveBatch(i) \/ SaveConflicts(i) \/ VerifyWritten(i) \/ VerifyHashes(i)
  \/ PollHead(i) \/ PollMax(i) \/ Terminate(i)

Disturbance(i) ==
  \/ \E n \in Heights : FetchFails(i, n)
  \/ SaveFails(i) \/ PollFails(i) \/ StopSignal(i) \/ DayPasses(i) \/ Crash(i)

NodeStep ==
  /\ ChainNext
  /\ UNCHANGED <<tableVars, batchVars, pc, startup, isRunning, bound,
                 latestBlock, faults>>

Next == NodeStep \/ \E i \in Indexers : Progress(i) \/ Disturbance(i)

Spec == Init /\ [][Next]_vars

(* The event loop runs whatever is ready, and the restart policy of        *)
(* docker-compose.yml (restart: unless-stopped) starts a process that      *)
(* exited; the node and the faults are not required to do anything.        *)
FairSpec == Spec /\ \A i \in Indexers : WF_vars(Progress(i))

-----------------------------------------------------------------------------
(* A block that is not the first of its batch hangs on the stored block    *)
(* below it: what the continuity check before the insert leaves possible,  *)
(* so that holes and broken links appear at the border of two batches and  *)
(* nowhere else, whatever fetches failed and however the node reorganised  *)
(* while the batch was fetched.                                            *)
LinkedInsideBatches ==
  \A c \in blocks :
    \/ c.number \in batchStarts
    \/ \E b \in blocks : b.number = c.number - 1 /\ b.hash = c.parentHash

(* With one process a duplicate key is met in one situation only: the      *)
(* table holds genesis and nothing else, and a restart takes its number 0  *)
(* for an empty table.                                                     *)
ConflictOnlyAtGenesis ==
  \A i \in Indexers :
    ReadyToSave(i) /\ ~ NoConflict(blocks, rawBlocks[i])
      => startup[i] /\ Numbers(blocks) = {0}

(* With one process rows are only ever added above every stored row:       *)
(* resuming from the maximum never fills a hole, and never re-inserts.     *)
AppendsAboveMax ==
  [][\A b \in blocks' \ blocks, c \in blocks : c.number < b.number]_vars

CaughtUp == MaxNumber(blocks) >= head

(* Every process keeps dying at startup: its first batch begins with the   *)
(* genesis block that is stored already.                                   *)
GenesisOnly == Numbers(blocks) = {0} /\ \A i \in Indexers : startup[i]

(* A process that is up for more than a day refuses a block that the table *)
(* lacks.                                                                  *)
Outdated ==
  \E i \in Indexers, n \in Heights :
    MaxNumber(blocks) < n /\ n <= head /\ MinedAfter(BlockAt(n), bound[i])

(* When faults and reorganisations are over, the stored maximum reaches    *)
(* the head of the chain, but for two situations no retry gets out of: a   *)
(* lone genesis row, and a process older than a day.                       *)
CatchesUp == <>[](CaughtUp \/ GenesisOnly \/ Outdated)
-----------------------------------------------------------------------------
(* What a comment of the repository says, and the program does not do.     *)

(* database/schemas.ts: only a timestamp more than a day in the future is  *)
(* refused, so that the present blocks of the node are stored whatever the *)
(* age of the process.                                                     *)
KeepsUp == <>[](CaughtUp \/ GenesisOnly)
=============================================================================
