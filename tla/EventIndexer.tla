---------------------------- MODULE EventIndexer ----------------------------
(***************************************************************************)
(* The event indexer (src/src/indexer/event-indexer.ts) with the tables it *)
(* writes: transactions (transaction-repository.ts), one row for a decoded *)
(* Transfer event, and the row of sync_status (sync-status-repository.ts)  *)
(* that remembers the last block processed.  A process polls: it reads the *)
(* row, reads the head of the chain, fetches the logs of the blocks in     *)
(* between, saves the transactions one by one and then moves the row.  Any *)
(* error ends the process, and it is started again.                        *)
(*                                                                         *)
(* Every await is a step boundary, so the node mines and reorganises       *)
(* between any two steps, and several processes may index together.        *)
(*                                                                         *)
(* Simplifications:                                                        *)
(*  - a transaction emits at most one Transfer event: the second one of a  *)
(*    transaction would overwrite the row of the first;                    *)
(*  - events of other kinds only count as logs;                            *)
(*  - the hash, the target and the percentage in sync_status are not read  *)
(*    by the indexer and left out;                                         *)
(*  - timers are not modelled: a poll may start at any time.               *)
(***************************************************************************)
EXTENDS Chain

CONSTANTS
  Indexers,      \* the processes that poll
  Txs,           \* the transactions that emit a Transfer event
  MaxFaults      \* bound: failed calls and crashes

ASSUME EventIndexerAssumption == MaxFaults \in Nat

VARIABLES
  transfersOf,   \* the transactions in each canonical block
  transactions,  \* the rows of the transactions table (durable)
  processed,     \* last_processed_block (durable); 0 when there is no row
  pc,            \* where each process is
  lastBlock,     \* startPolling's lastBlock
  currentBlock,  \* startPolling's currentBlock
  toSave,        \* the fetched transactions that are not saved yet
  faults         \* how many faults have happened

nodeVars == <<chainVars, transfersOf>>
tableVars == <<transactions, processed>>
procVars == <<pc, lastBlock, currentBlock, toSave>>
vars == <<nodeVars, tableVars, procVars, faults>>

Row == [number : Heights, tx : Txs]

Labels == {"status", "head", "logs", "save"}

Init ==
  /\ ChainInit
  /\ transfersOf = [n \in Heights |-> {}]
  /\ transactions = {}
  /\ processed = 0
  /\ pc = [i \in Indexers |-> "status"]
  /\ lastBlock = [i \in Indexers |-> 0]
  /\ currentBlock = [i \in Indexers |-> 0]
  /\ toSave = [i \in Indexers |-> {}]
  /\ faults = 0

-----------------------------------------------------------------------------
(* The node.  A transaction is in one canonical block at most; one that a  *)
(* reorganisation removed may be mined again, in a block of another number.*)

Included(blocks) == UNION {transfersOf[n] : n \in blocks}

NodeMines ==
  /\ Mine
  /\ \E mined \in SUBSET (Txs \ Included(Heights)) :
       transfersOf' = [transfersOf EXCEPT ![head'] = mined]
  /\ UNCHANGED <<tableVars, procVars, faults>>

NodeReorgs(k) ==
  /\ k > 0
  /\ Reorg(k)
  /\ \E mined \in SUBSET (Txs \ Included(0..(k - 1))) :
       transfersOf' = [n \in Heights |-> IF n < k THEN transfersOf[n]
                                         ELSE IF n = k THEN mined ELSE {}]
  /\ UNCHANGED <<tableVars, procVars, faults>>

-----------------------------------------------------------------------------
(* One turn of startPolling.                                               *)

Fault == faults < MaxFaults /\ faults' = faults + 1

(* The process begins another turn, or ends and is started again.          *)
NextTurn(i) ==
  /\ pc' = [pc EXCEPT ![i] = "status"]
  /\ lastBlock' = [lastBlock EXCEPT ![i] = 0]
  /\ currentBlock' = [currentBlock EXCEPT ![i] = 0]
  /\ toSave' = [toSave EXCEPT ![i] = {}]

ReadStatus(i) ==
  /\ pc[i] = "status"
  /\ lastBlock' = [lastBlock EXCEPT ![i] = processed]
  /\ pc' = [pc EXCEPT ![i] = "head"]
  /\ UNCHANGED <<nodeVars, tableVars, currentBlock, toSave, faults>>

\* Mutant of HasNewBlocks: a single new block is not worth a call.
HasTwoNewBlocks(last, current) == last + 1 < current

HasNewBlocks(last, current) == last < current

ReadHead(i) ==
  /\ pc[i] = "head"
  /\ IF HasNewBlocks(lastBlock[i], head)
     THEN /\ currentBlock' = [currentBlock EXCEPT ![i] = head]
          /\ pc' = [pc EXCEPT ![i] = "logs"]
          /\ UNCHANGED <<lastBlock, toSave>>
     ELSE NextTurn(i)
  /\ UNCHANGED <<nodeVars, tableVars, faults>>

FromBlock(last) == last + 1

LogsIn(from, to) ==
  {r \in Row : r.number \in from..to /\ r.number <= head /\ r.tx \in transfersOf[r.number]}

(* indexEvents.  Without any log it returns and leaves sync_status alone;  *)
(* other events of the contract may be in the range.                       *)
FetchLogs(i) ==
  /\ pc[i] = "logs"
  /\ LET logs == LogsIn(FromBlock(lastBlock[i]), currentBlock[i]) IN
       \/ logs = {} /\ NextTurn(i)
       \/ /\ toSave' = [toSave EXCEPT ![i] = logs]
          /\ pc' = [pc EXCEPT ![i] = "save"]
          /\ UNCHANGED <<lastBlock, currentBlock>>
  /\ UNCHANGED <<nodeVars, tableVars, faults>>

(* The logs come in the order of their blocks.                             *)
IsNext(i, row) == row \in toSave[i] /\ \A r \in toSave[i] : row.number <= r.number

(* The upsert is by (block_number, tx_hash), but tx_hash alone is UNIQUE:  *)
(* a row of the same transaction under another number is a conflict.       *)
Conflicts(row) == \E r \in transactions : r.tx = row.tx /\ r.number # row.number

SaveTransaction(i, row) ==
  /\ pc[i] = "save"
  /\ IsNext(i, row)
  /\ ~ Conflicts(row)
  /\ transactions' = transactions \cup {row}
  /\ toSave' = [toSave EXCEPT ![i] = @ \ {row}]
  /\ UNCHANGED <<nodeVars, processed, pc, lastBlock, currentBlock, faults>>

SaveConflicts(i, row) ==
  /\ pc[i] = "save"
  /\ IsNext(i, row)
  /\ Conflicts(row)
  /\ NextTurn(i)
  /\ UNCHANGED <<nodeVars, tableVars, faults>>

\* Mutants of UpdateProgress: the next block is stored, not the last one, or
\* the head as it is now.
UpdateProgressToNext(i) ==
  /\ pc[i] = "save" /\ toSave[i] = {}
  /\ processed' = currentBlock[i] + 1
  /\ NextTurn(i)
  /\ UNCHANGED <<nodeVars, transactions, faults>>
UpdateProgressToHead(i) ==
  /\ pc[i] = "save" /\ toSave[i] = {}
  /\ processed' = head
  /\ NextTurn(i)
  /\ UNCHANGED <<nodeVars, transactions, faults>>

UpdateProgress(i) ==
  /\ pc[i] = "save" /\ toSave[i] = {}
  /\ processed' = currentBlock[i]
  /\ NextTurn(i)
  /\ UNCHANGED <<nodeVars, transactions, faults>>

(* A call fails or the process is killed.                                  *)
Crash(i) ==
  /\ Fault
  /\ NextTurn(i)
  /\ UNCHANGED <<nodeVars, tableVars>>

-----------------------------------------------------------------------------
Save(i) ==
  \/ \E row \in Row : SaveTransaction(i, row) \/ SaveConflicts(i, row)
  \/ UpdateProgress(i)

Poll(i) == ReadStatus(i) \/ ReadHead(i) \/ FetchLogs(i) \/ Save(i)

Next ==
  \/ NodeMines
  \/ \E k \in Heights : NodeReorgs(k)
  \/ \E i \in Indexers : Poll(i) \/ Crash(i)

Spec == Init /\ [][Next]_vars

(* A process keeps polling, and is started again when it ends.             *)
FairSpec == Spec /\ \A i \in Indexers : WF_vars(Poll(i))

-----------------------------------------------------------------------------
(* Properties.                                                             *)

(* Every variable has its type, and what a process is about to save lies   *)
(* in its range of blocks.                                                 *)
TypeOK ==
  /\ ChainTypeOK
  /\ transfersOf \in [Heights -> SUBSET Txs]
  /\ transactions \subseteq Row
  /\ processed \in Heights
  /\ pc \in [Indexers -> Labels]
  /\ lastBlock \in [Indexers -> Heights]
  /\ currentBlock \in [Indexers -> Heights]
  /\ toSave \in [Indexers -> SUBSET Row]
  /\ faults \in 0..MaxFaults

(* The blocks that no reorganisation has replaced.                         *)
Original(n) == chain[n] = 1

(* No Transfer event is lost behind the cursor: whatever processes overlap *)
(* and wherever they crash, and also while reorganisations go on above,    *)
(* the transactions of every block up to last_processed_block that was not *)
(* replaced are stored.                                                    *)
NothingIsSkipped ==
  \A n \in 1..processed : Original(n) =>
    \A t \in transfersOf[n] : [number |-> n, tx |-> t] \in transactions

(* As long as the node never reorganises, in the end every Transfer event  *)
(* after genesis is stored.                                                *)
AllIndexed ==
  \A n \in 1..head : \A t \in transfersOf[n] : [number |-> n, tx |-> t] \in transactions
EventsCatchUp == [](fork = 1) => <>[]AllIndexed
=============================================================================
