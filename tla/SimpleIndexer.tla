--------------------------- MODULE SimpleIndexer ---------------------------
(***************************************************************************)
(* The two simple entry points, which may share one table: index.ts and    *)
(* index-failfast.ts.  Both synchronise the missing blocks at startup and  *)
(* then poll; both fetch a batch block by block and insert what they got,  *)
(* without a continuity check and without reading it back.  They differ in *)
(* what they do about an error: index.ts drops a failed fetch and polls on *)
(* after any other error; index-failfast.ts asks the ErrorHandler of       *)
(* utils/error-classifier.ts, and exits on what is rethrown.               *)
(*                                                                         *)
(* Every await is a step boundary.  Abstracted: the waits between polls    *)
(* (retryCount of index.ts only chooses their length), the connection and  *)
(* the first RPC call of main (part of Start; when they fail, Crash).      *)
(***************************************************************************)
EXTENDS BlockSchema, BlockTable

CONSTANTS Indexers,    \* the processes
          FailFast,    \* those that run index-failfast.ts
          BatchSize,   \* DB_SYNC_BATCH_SIZE
          MaxFaults    \* bound: failed calls, crashes and stop signals

ASSUME SimpleAssumption ==
  FailFast \subseteq Indexers /\ BatchSize \in Nat \ {0} /\ MaxFaults \in Nat

VARIABLES
  blocks,  \* the rows of the blocks table (durable)
  proc,    \* the state of each process
  lost,    \* history: the numbers whose fetch, or whose batch, was given up
  faults   \* how many faults have happened

tableVars == <<blocks, lost>>
vars == <<chainVars, tableVars, proc, faults>>

Process ==
  [pc        : {"down", "readMax", "readHead", "loop", "fetch", "poll", "pollMax"},
   startup   : BOOLEAN,               \* in syncMissingBlocks
   isRunning : BOOLEAN,
   latest    : Heights,               \* latestBlock; currentBlock of a poll
   next      : 0..(MaxHeight + 1),    \* currentBlock; blockNumber within a batch
   last      : Heights,               \* endBlock
   bound     : Hash,                  \* the latest block the schema accepts
   raw       : SUBSET Block]          \* rawBlocks

\* A process none of whose functions holds a local variable.
At(label, starting, running, accepted) ==
  [pc |-> label, startup |-> starting, isRunning |-> running, bound |-> accepted,
   latest |-> 0, next |-> 0, last |-> 0, raw |-> {}]

Down == At("down", TRUE, TRUE, NoBound)

TypeOK ==
  /\ ChainTypeOK
  /\ blocks \subseteq Block
  /\ lost \subseteq Heights
  /\ proc \in [Indexers -> Process]
  /\ faults \in 0..MaxFaults

Init ==
  /\ ChainInit
  /\ blocks = {}
  /\ lost = {}
  /\ proc = [i \in Indexers |-> Down]
  /\ faults = 0

Fault == faults < MaxFaults /\ faults' = faults + 1

(***************************************************************************)
(* utils/error-classifier.ts.  An error is abstracted to the set of the    *)
(* keyword lists that its message or its stack matches.                    *)
(***************************************************************************)
Keywords == {"network", "rpc", "validation", "database"}

(* classify: the first list with a match decides; no match is critical.    *)
Category(error) ==
  IF "network" \in error THEN "network"
  ELSE IF "rpc" \in error THEN "rpc"
  ELSE IF "validation" \in error THEN "validation"
  ELSE IF "database" \in error THEN "database" ELSE "critical"

(* handleError: a validation error is skipped (shouldContinue) and a       *)
(* critical one shuts down.  What is retried or aborted is neither; no     *)
(* caller uses shouldRetry.                                                *)
HandleError(error) ==
  [shouldContinue |-> Category(error) = "validation",
   shouldShutdown |-> Category(error) = "critical"]

\* viem's message for a block the node lacks holds "block", so "lock".
MissingBlock == {"database"}
\* The unique constraint that refuses a row.
DuplicateKey == {"database"}
\* "validation failed", with the digits of the bound, maybe 429 or 503 in them.
Refusals == {{"validation"}, {"rpc", "validation"}}

(***************************************************************************)
(* main: a process that exits loses its local state.                       *)
(***************************************************************************)
Exit(i) == proc' = [proc EXCEPT ![i] = Down]

Start(i) ==
  /\ proc[i].pc = "down"
  /\ proc' = [proc EXCEPT ![i].pc = "readMax"]
  /\ UNCHANGED <<chainVars, tableVars, faults>>

(* The next turn of the polling loop; the local variables of the last one  *)
(* are gone.                                                               *)
Poll(i) ==
  proc' = [proc EXCEPT ![i] = At("poll", FALSE, @.isRunning, @.bound)]

(* An error that leaves syncBlockBatch.  At startup it reaches main, which *)
(* exits; index.ts polls on, index-failfast.ts rethrows it to main.        *)
Throw(i) ==
  IF proc[i].startup \/ i \in FailFast
    THEN Exit(i)
    ELSE Poll(i)

(***************************************************************************)
(* syncMissingBlocks.                                                      *)
(***************************************************************************)
(* localMaxBlock ? localMaxBlock + 1n : 0n -- null and 0n are both falsy.  *)
ResumeFrom(max) == IF max > 0 THEN max + 1 ELSE 0

ReadMax(i) ==
  /\ proc[i].pc = "readMax"
  /\ proc' = [proc EXCEPT ![i].pc = "readHead",
                          ![i].next = ResumeFrom(MaxNumber(blocks))]
  /\ UNCHANGED <<chainVars, tableVars, faults>>

ReadHead(i) ==
  /\ proc[i].pc = "readHead"
  /\ proc' = [proc EXCEPT ![i].pc = "loop", ![i].latest = head]
  /\ UNCHANGED <<chainVars, tableVars, faults>>

(* batchEnd: BatchSize blocks from current on, but not above latest.       *)
BatchEnd(current, latest) ==
  IF current + BatchSize - 1 <= latest THEN current + BatchSize - 1 ELSE latest

(* One turn of the startup loop, which a stop signal ends.                 *)
NextStartupBatch(i) ==
  /\ proc[i].pc = "loop"
  /\ proc[i].next <= proc[i].latest
  /\ proc[i].isRunning
  /\ proc' = [proc EXCEPT ![i].pc = "fetch",
                          ![i].last = BatchEnd(proc[i].next, proc[i].latest)]
  /\ UNCHANGED <<chainVars, tableVars, faults>>

StartupDone(i) ==
  /\ proc[i].pc = "loop"
  /\ proc[i].next > proc[i].latest \/ ~ proc[i].isRunning
  /\ Poll(i)
  /\ UNCHANGED <<chainVars, tableVars, faults>>

(***************************************************************************)
(* syncBlockBatch: the blocks one after the other, then one transaction.   *)
(***************************************************************************)
Fetching(i) == proc[i].pc = "fetch" /\ proc[i].next <= proc[i].last

FetchBlock(i) ==
  /\ Fetching(i)
  /\ proc[i].next <= head
  /\ proc' = [proc EXCEPT ![i].next = @ + 1,
                          ![i].raw = @ \cup {BlockAt(proc[i].next)}]
  /\ UNCHANGED <<chainVars, tableVars, faults>>

(* getBlock throws: index.ts goes on with the next block, and so does      *)
(* index-failfast.ts unless the error shuts it down.                       *)
FetchError(i, error) ==
  IF i \in FailFast /\ HandleError(error).shouldShutdown
    THEN Throw(i) /\ UNCHANGED lost
    ELSE /\ proc' = [proc EXCEPT ![i].next = @ + 1]
         /\ lost' = lost \cup {proc[i].next}

(* The node does not have the block (any more).                            *)
FetchMissing(i) ==
  /\ Fetching(i)
  /\ proc[i].next > head
  /\ FetchError(i, MissingBlock)
  /\ UNCHANGED <<chainVars, blocks, faults>>

FetchFails(i) ==
  /\ Fetching(i)
  /\ Fault
  /\ \E error \in SUBSET Keywords : FetchError(i, error)
  /\ UNCHANGED <<chainVars, blocks>>

Fetched(i) == proc[i].pc = "fetch" /\ proc[i].next > proc[i].last

\* Mutant of Return: the startup loop steps over one block.
ReturnBeyond(i) ==
  IF proc[i].startup
    THEN proc' = [proc EXCEPT ![i].pc = "loop", ![i].next = proc[i].last + 2,
                              ![i].last = 0, ![i].raw = {}]
    ELSE Poll(i)

(* syncBlockBatch returns: currentBlock = batchEnd + 1n in the startup     *)
(* loop, the next turn in the polling loop.                                *)
Return(i) ==
  IF proc[i].startup
    THEN proc' = [proc EXCEPT ![i].pc = "loop", ![i].next = proc[i].last + 1,
                              ![i].last = 0, ![i].raw = {}]
    ELSE Poll(i)

NothingFetched(i) ==
  /\ Fetched(i)
  /\ proc[i].raw = {}
  /\ Return(i)
  /\ UNCHANGED <<chainVars, tableVars, faults>>

(* saveValidatedBlocks: every row is inserted, or the transaction fails.   *)
InsertRows(rows, batch) == rows \cup batch

(* No unique constraint refuses a row of the batch.                        *)
Accepted(rows, batch) == NoConflict(rows, batch)

Validated(i) == WithinBound(proc[i].raw, proc[i].bound)

SaveBatch(i) ==
  /\ Fetched(i)
  /\ proc[i].raw # {}
  /\ Validated(i)
  /\ Accepted(blocks, proc[i].raw)
  /\ blocks' = InsertRows(blocks, proc[i].raw)
  /\ Return(i)
  /\ UNCHANGED <<chainVars, lost, faults>>

\* Mutant of SaveError: every error is swallowed, not only a validation error.
SaveErrorSwallowed(i, error) == Return(i) /\ UNCHANGED lost

(* saveValidatedBlocks throws.  index-failfast.ts swallows what it takes   *)
(* for a validation error: the batch is over and none of it is stored,     *)
(* which at startup leaves it behind; the next poll begins with it again.  *)
SaveError(i, error) ==
  IF i \in FailFast /\ HandleError(error).shouldContinue
    THEN /\ Return(i)
         /\ lost' = lost \cup (IF proc[i].startup THEN Numbers(proc[i].raw) ELSE {})
    ELSE Throw(i) /\ UNCHANGED lost

(* The schema refuses the batch, before any statement.                     *)
ValidationFails(i) ==
  /\ Fetched(i)
  /\ ~ Validated(i)
  /\ \E error \in Refusals : SaveError(i, error)
  /\ UNCHANGED <<chainVars, blocks, faults>>

SaveConflicts(i) ==
  /\ Fetched(i)
  /\ Validated(i)
  /\ ~ Accepted(blocks, proc[i].raw)
  /\ SaveError(i, DuplicateKey)
  /\ UNCHANGED <<chainVars, blocks, faults>>

(* The schema refuses a block for another reason, or the database fails.   *)
SaveFails(i) ==
  /\ Fetched(i)
  /\ proc[i].raw # {}
  /\ Fault
  /\ \E error \in SUBSET Keywords : SaveError(i, error)
  /\ UNCHANGED <<chainVars, blocks>>

(***************************************************************************)
(* pollNewBlocks.                                                          *)
(***************************************************************************)
PollHead(i) ==
  /\ proc[i].pc = "poll"
  /\ proc[i].isRunning
  /\ proc' = [proc EXCEPT ![i].pc = "pollMax", ![i].latest = head]
  /\ UNCHANGED <<chainVars, tableVars, faults>>

\* Mutant of Behind: the block after the stored maximum is not waited for.
BehindByTwo(latest, max) == latest > max + 1

Behind(latest, max) == latest > max

PollMax(i) ==
  /\ proc[i].pc = "pollMax"
  /\ LET max == MaxNumber(blocks)
     IN IF Behind(proc[i].latest, max)
          THEN proc' = [proc EXCEPT ![i].pc = "fetch", ![i].latest = 0,
                                    ![i].next = max + 1, ![i].last = proc[i].latest]
          ELSE Poll(i)
  /\ UNCHANGED <<chainVars, tableVars, faults>>

(* One of the two reads of a poll throws.                                  *)
PollFails(i) ==
  /\ proc[i].pc \in {"poll", "pollMax"}
  /\ proc[i].isRunning
  /\ Fault
  /\ Throw(i)
  /\ UNCHANGED <<chainVars, tableVars>>

(***************************************************************************)
(* Signals and crashes.  index.ts handles signals from the moment it is    *)
(* loaded, index-failfast.ts once the startup synchronisation is over.     *)
(***************************************************************************)
HandlesSignals(i) ==
  proc[i].pc # "down" /\ (i \in FailFast => ~ proc[i].startup)

StopSignal(i) ==
  /\ HandlesSignals(i)
  /\ proc[i].isRunning
  /\ Fault
  /\ proc' = [proc EXCEPT ![i].isRunning = FALSE]
  /\ UNCHANGED <<chainVars, tableVars>>

(* A day has passed since the process was started.                         *)
DayPasses(i) ==
  /\ proc[i].pc # "down"
  /\ proc[i].bound = NoBound
  /\ Fault
  /\ proc' = [proc EXCEPT ![i].bound = BoundNow]
  /\ UNCHANGED <<chainVars, tableVars>>

(* The handler has closed the connection and exits, maybe inside a batch.  *)
Terminate(i) ==
  /\ ~ proc[i].isRunning
  /\ Exit(i)
  /\ UNCHANGED <<chainVars, tableVars, faults>>

(* A crash, a kill, or at startup any call that fails (main exits with 1). *)
Crash(i) ==
  /\ proc[i].pc # "down"
  /\ Fault
  /\ Exit(i)
  /\ UNCHANGED <<chainVars, tableVars>>

-----------------------------------------------------------------------------
(* What a process does by itself when nothing fails.                       *)
Progress(i) ==
  \/ Start(i) \/ ReadMax(i) \/ ReadHead(i) \/ NextStartupBatch(i) \/ StartupDone(i)
  \/ FetchBlock(i) \/ FetchMissing(i) \/ NothingFetched(i)
  \/ ValidationFails(i) \/ SaveBatch(i) \/ SaveConflicts(i) \/ PollHead(i) \/ PollMax(i) \/ Terminate(i)

Disturbance(i) ==
  FetchFails(i) \/ SaveFails(i) \/ PollFails(i) \/ StopSignal(i) \/ DayPasses(i)
    \/ Crash(i)

NodeStep == ChainNext /\ UNCHANGED <<tableVars, proc, faults>>

Next == NodeStep \/ \E i \in Indexers : Progress(i) \/ Disturbance(i)

Spec == Init /\ [][Next]_vars

-----------------------------------------------------------------------------
(* A number missing below the stored maximum is one that some process gave *)
(* up: its fetch failed, or index-failfast.ts swallowed its batch.  The    *)
(* seams between batches, restarts, conflicts between the processes and    *)
(* reorganisations lose none.                                              *)
HolesWereGivenUp ==
  \A n \in Heights : n <= MaxNumber(blocks) => n \in Numbers(blocks) \cup lost

(* The first batch of a process begins with the genesis block, the only    *)
(* one that is stored already: the process dies at startup.                *)
StuckAtGenesis(i) == Numbers(blocks) = {0} /\ proc[i].startup

(* It has been up for more than a day and refuses a block the table lacks. *)
Outdated(i) ==
  \E n \in Heights : /\ MaxNumber(blocks) < n /\ n <= head
                     /\ MinedAfter(BlockAt(n), proc[i].bound)

NoneGetsOn ==
  \/ \A i \in Indexers : StuckAtGenesis(i)
  \/ /\ \E i \in Indexers : proc[i].pc # "down"
     /\ \A i \in Indexers :
          proc[i].pc # "down" => StuckAtGenesis(i) \/ Outdated(i)

(* When faults and reorganisations are over, processes of both kinds on    *)
(* one table do not keep each other from reaching the head of the chain by *)
(* their duplicate keys, unless each one that is up is stuck for good.     *)
CatchesUpTogether == <>[](MaxNumber(blocks) >= head \/ NoneGetsOn)
=============================================================================
