----------------------------- MODULE Migrations -----------------------------
(***************************************************************************)
(* The migration runner (src/src/database/migration-runner.ts) with the    *)
(* five migrations of src/src/database/migrations, as every start of the   *)
(* production indexer runs them (index-production.ts, initializeDatabase). *)
(* PostgreSQL commits each statement of a migration by itself, so a crash, *)
(* a lost connection or another process can come between any two of them.  *)
(*                                                                         *)
(* Beside the runners an enhanced indexer may start, which creates its     *)
(* tables, and insert blocks; it runs no migrations.  And initDatabase     *)
(* (src/src/database/init-database.ts) may be run, again and again: by     *)
(* npm run db:init, or by an indexer whose first count of the blocks       *)
(* failed.  It goes through its statements whatever becomes of them.       *)
(*                                                                         *)
(* The database is abstracted to what the statements depend on: the two    *)
(* timestamp columns of blocks that migration 001 juggles, and the names   *)
(* of the tables, constraints and indexes that exist.  The blocks table    *)
(* exists and holds rows: without it no process connects, initDatabase     *)
(* included.  It may date from before chain_id was part of its key, with a *)
(* number that is unique.  The table transaction_logs does not exist,      *)
(* nothing creates it.                                                     *)
(***************************************************************************)
EXTENDS Naturals, Sequences

CONSTANTS
  Runners,       \* the processes that run the migrations at their start
  MaxFaults      \* bound: failed statements, and processes that end

ASSUME MigrationsAssumption == MaxFaults \in Nat

VARIABLES
  columns,       \* which of timestamp and timestamp_new the blocks table has
  dated,         \* timestamp holds the time of every row
  copied,        \* timestamp_new holds the time of every row
  required,      \* timestamp_new is NOT NULL
  tables,        \* the tables that exist
  objects,       \* the constraints, indexes and other columns that exist
  recorded,      \* the migrations table: the success column of each version
  pc,            \* where each runner is
  current,       \* the file it is at
  step,          \* the statement of that file it is at
  applied,       \* the versions it found applied when it began
  initDb,        \* the run of initDatabase
  faults         \* how many faults have happened

blocksTable == <<columns, dated, copied, required>>
schema == <<blocksTable, tables, objects>>
runnerVars == <<pc, current, step, applied>>
vars == <<schema, recorded, runnerVars, initDb, faults>>

-----------------------------------------------------------------------------
(* The migration files.                                                    *)

OnBlocks(op, name) == [op |-> op, table |-> "blocks", name |-> name, commented |-> FALSE]
Ensure(name) == OnBlocks("ensure", name)
Drop(table, name) == [op |-> "drop", table |-> table, name |-> name, commented |-> FALSE]
Add(table, name) == [op |-> "add", table |-> table, name |-> name, commented |-> FALSE]
Commented(s) == [s EXCEPT !.commented = TRUE]
CreateTable(name) == OnBlocks("create", name)

\* Mutant of FixCriticalIssues: the new column is not checked before the old
\* one is dropped.
FixWithoutNotNull ==
  << OnBlocks("addNew", "timestamp_new"), OnBlocks("copy", "timestamp_new"),
     OnBlocks("dropOld", "timestamp"), OnBlocks("rename", "timestamp_new"),
     Ensure("idx_blocks_parent_hash"), Ensure("version"), Ensure("idx_blocks_unique") >>

FixCriticalIssues ==
  << OnBlocks("addNew", "timestamp_new"), OnBlocks("copy", "timestamp_new"),
     OnBlocks("require", "timestamp_new"), OnBlocks("dropOld", "timestamp"),
     OnBlocks("rename", "timestamp_new"),
     Ensure("idx_blocks_parent_hash"), Ensure("version"), Ensure("idx_blocks_unique") >>

(* CREATE INDEX; the error of an index that exists is caught.              *)
AddParentHashIndex == << Ensure("idx_blocks_parent_hash") >>

AddSpaceXConstraints ==
  << Drop("blocks", "blocks_chain_number_unique"), Add("blocks", "blocks_chain_number_unique"),
     Add("blocks", "blocks_hash_format"), Add("blocks", "blocks_parent_hash_format"),
     Add("blocks", "blocks_timestamp_not_future"),
     Drop("sync_checkpoints", "checkpoints_name_unique"),
     Add("sync_checkpoints", "checkpoints_name_unique"),
     Add("sync_checkpoints", "checkpoints_hash_format"),
     Drop("app_locks", "app_locks_name_unique"), Add("app_locks", "app_locks_name_unique"),
     Add("app_locks", "app_locks_expires_not_past") >>

(* The statements up to the first index on sync_gaps.  The runner splits   *)
(* the file at the semicolons and leaves out what begins with a comment.   *)
AddSyncCriticalFixes ==
  << Commented(Ensure("chain_id")), Commented(Drop("blocks", "blocks_pkey")),
     Commented(Add("blocks", "blocks_pkey")), Commented(Drop("blocks", "blocks_hash_key")),
     Add("blocks", "blocks_hash_key"), Commented(Ensure("idx_blocks_chain_id")),
     Add("sync_gaps", "idx_sync_gaps_status") >>

(* Without the table transaction_logs it returns at once.                  *)
FixTransactionLogs == << >>

(* The sorted files.  Both files 002 have one version.                     *)
Files == << [version |-> 1, up |-> FixCriticalIssues],
            [version |-> 2, up |-> AddParentHashIndex],
            [version |-> 2, up |-> AddSpaceXConstraints],
            [version |-> 3, up |-> AddSyncCriticalFixes],
            [version |-> 4, up |-> FixTransactionLogs] >>

Versions == 1..4

(* initDatabase: the blocks table exists; then one try after the other,    *)
(* and an error ends its try.  An index is created without IF NOT EXISTS.  *)
(* Of the indexes that only serve queries one stands for the three of      *)
(* blocks, and one for the five of transfers.                              *)
CreateTransfers ==
  << CreateTable("transfers"), Add("transfers", "idx_transfers"),
     Add("transfers", "idx_transfers_block_log_unique") >>

\* Mutant of Tries: the table and its unique index share a try.
TriesTogether ==
  << << Add("blocks", "idx_blocks_parent_hash") >>,
     << CreateTable("sync_status") >>,
     << CreateTable("transactions"), Add("transactions", "idx_tx_block_log_unique") >>,
     CreateTransfers >>

Tries ==
  << << Add("blocks", "idx_blocks_parent_hash") >>,
     << CreateTable("transactions") >>, << CreateTable("sync_status") >>,
     << Add("transactions", "idx_tx_block_log_unique") >>,
     CreateTransfers >>

-----------------------------------------------------------------------------
(* PostgreSQL.                                                             *)

\* The run of initDatabase: its try, the statement of it, and whether every
\* statement so far got its answer from the database.
InitDb == [state : {"off", "running", "done"}, try : 1..(Len(Tries) + 1),
           at : Nat \ {0}, clean : BOOLEAN]

NoInitDb == [state |-> "off", try |-> 1, at |-> 1, clean |-> TRUE]

Init ==
  /\ columns = {"timestamp"} /\ dated = TRUE /\ copied = FALSE /\ required = FALSE
  /\ tables = {"blocks"}
  /\ \E older \in SUBSET {"blocks_number_unique"} :
       objects = {"blocks_pkey", "blocks_hash_key", "chain_id"} \cup older
  /\ recorded = [v \in Versions |-> "none"]
  /\ pc = [i \in Runners |-> "start"]
  /\ current = [i \in Runners |-> 1]
  /\ step = [i \in Runners |-> 1]
  /\ applied = [i \in Runners |-> {}]
  /\ initDb = NoInitDb
  /\ faults = 0

(* Whether statement s, unless left out, succeeds in the present schema.   *)
Succeeds(s) ==
  /\ s.table \in tables
  /\ s.op = "copy"    => {"timestamp", "timestamp_new"} \subseteq columns
  /\ s.op = "require" => "timestamp_new" \in columns /\ copied
  /\ s.op = "dropOld" => "timestamp" \in columns
  /\ s.op = "rename"  => columns = {"timestamp_new"}
  /\ s.op = "add"     => s.name \notin objects
  /\ s.op = "create"  => s.name \notin tables
  /\ s.name = "transfers" => "blocks_number_unique" \in objects   \* the key it refers to
  /\ s.name = "blocks_timestamp_not_future" => "timestamp" \in columns

(* A column takes the constraints on it along.                             *)
DropTimestamp ==
  /\ columns' = columns \ {"timestamp"}
  /\ dated' = FALSE
  /\ objects' = objects \ {"blocks_timestamp_not_future"}
  /\ UNCHANGED <<copied, required>>

RenameColumn ==
  /\ columns' = {"timestamp"}
  /\ dated' = copied
  /\ copied' = FALSE
  /\ required' = FALSE
  /\ UNCHANGED objects

ChangeBlocks(s) ==
  \/ s.op = "addNew" /\ columns' = columns \cup {"timestamp_new"}
                     /\ UNCHANGED <<dated, copied, required, objects>>
  \/ s.op = "copy" /\ copied' = dated /\ UNCHANGED <<columns, dated, required, objects>>
  \/ s.op = "require" /\ required' = TRUE /\ UNCHANGED <<columns, dated, copied, objects>>
  \/ s.op = "dropOld" /\ DropTimestamp
  \/ s.op = "rename" /\ RenameColumn
  \/ s.op = "drop" /\ objects' = objects \ {s.name} /\ UNCHANGED blocksTable
  \/ s.op \in {"add", "ensure"} /\ objects' = objects \cup {s.name} /\ UNCHANGED blocksTable

Effect(s) ==
  \/ s.op = "create" /\ tables' = tables \cup {s.name} /\ UNCHANGED <<blocksTable, objects>>
  \/ ChangeBlocks(s) /\ UNCHANGED tables

Possible(s) == s.commented \/ Succeeds(s)

Perform(s) ==
  \/ s.commented /\ UNCHANGED schema
  \/ ~ s.commented /\ Effect(s)

-----------------------------------------------------------------------------
(* MigrationRunner.run.                                                    *)

Fault == faults < MaxFaults /\ faults' = faults + 1

Goto(i, label) == pc' = [pc EXCEPT ![i] = label]

File(i) == Files[current[i]]
Statement(i) == File(i).up[step[i]]

\* Mutant of NextFile: the statements are not counted from the beginning.
NextFileGoingOn(i) == current' = [current EXCEPT ![i] = @ + 1] /\ UNCHANGED step

NextFile(i) ==
  /\ current' = [current EXCEPT ![i] = @ + 1]
  /\ step' = [step EXCEPT ![i] = 1]

Begin(i) ==
  /\ pc[i] = "start"
  /\ applied' = [applied EXCEPT ![i] = {v \in Versions : recorded[v] = "success"}]
  /\ Goto(i, "run")
  /\ UNCHANGED <<schema, recorded, current, step, initDb, faults>>

IsApplied(i) == File(i).version \in applied[i]

SkipFile(i) ==
  /\ pc[i] = "run" /\ current[i] <= Len(Files)
  /\ IsApplied(i)
  /\ NextFile(i)
  /\ UNCHANGED <<schema, recorded, pc, applied, initDb, faults>>

InFile(i) == pc[i] = "run" /\ current[i] <= Len(Files) /\ ~ IsApplied(i)
MoreStatements(i) == step[i] <= Len(File(i).up)

ExecuteStatement(i) ==
  /\ InFile(i) /\ MoreStatements(i)
  /\ Possible(Statement(i))
  /\ Perform(Statement(i))
  /\ step' = [step EXCEPT ![i] = @ + 1]
  /\ UNCHANGED <<recorded, pc, current, applied, initDb, faults>>

(* The statement is impossible, or the connection is lost.                 *)
StatementFails(i) ==
  /\ InFile(i) /\ MoreStatements(i)
  /\ \/ ~ Possible(Statement(i)) /\ UNCHANGED faults
     \/ Fault
  /\ Goto(i, "failed")
  /\ UNCHANGED <<schema, recorded, current, step, applied, initDb>>

\* Mutants of RecordMigration: a failed migration counts as applied, or ends
\* the run.
RecordSuccess(i, success) ==
  /\ recorded' = [recorded EXCEPT ![File(i).version] = "success"]
  /\ NextFile(i)
  /\ Goto(i, "run")
RecordAndThrow(i, success) ==
  /\ recorded' = [recorded EXCEPT ![File(i).version] = success]
  /\ IF success = "success" THEN NextFile(i) /\ Goto(i, "run")
     ELSE Goto(i, "start") /\ current' = [current EXCEPT ![i] = 1]
                           /\ step' = [step EXCEPT ![i] = 1]

(* A failure is recorded like a success, and the run goes on.              *)
RecordMigration(i, success) ==
  /\ recorded' = [recorded EXCEPT ![File(i).version] = success]
  /\ NextFile(i)
  /\ Goto(i, "run")

FileEnds(i) ==
  /\ \/ InFile(i) /\ ~ MoreStatements(i) /\ RecordMigration(i, "success")
     \/ pc[i] = "failed" /\ RecordMigration(i, "failure")
  /\ UNCHANGED <<schema, applied, initDb, faults>>

RunEnds(i) ==
  /\ pc[i] = "run" /\ current[i] > Len(Files)
  /\ Goto(i, "done")
  /\ UNCHANGED <<schema, recorded, current, step, applied, initDb, faults>>

(* The process ends, also because a record could not be written, and is    *)
(* started again.                                                          *)
Restart(i) ==
  /\ Fault
  /\ Goto(i, "start")
  /\ current' = [current EXCEPT ![i] = 1]
  /\ step' = [step EXCEPT ![i] = 1]
  /\ applied' = [applied EXCEPT ![i] = {}]
  /\ UNCHANGED <<schema, recorded, initDb>>

-----------------------------------------------------------------------------
(* The enhanced indexer: its start creates the two tables, and it inserts  *)
(* a block, which leaves timestamp_new of the row empty.                   *)
InitLockTable ==
  /\ tables' = tables \cup {"app_locks"}
  /\ UNCHANGED <<blocksTable, objects, recorded, runnerVars, initDb, faults>>

InitCheckpointTable ==
  /\ "app_locks" \in tables
  /\ tables' = tables \cup {"sync_checkpoints"}
  /\ UNCHANGED <<blocksTable, objects, recorded, runnerVars, initDb, faults>>

InsertBlock ==
  /\ "timestamp" \in columns /\ ~ required
  /\ copied' = FALSE
  /\ UNCHANGED <<columns, dated, required, tables, objects, recorded, runnerVars, initDb, faults>>

-----------------------------------------------------------------------------
(* initDatabase.                                                           *)

Initialising == initDb.state = "running" /\ initDb.try <= Len(Tries)
Try == Tries[initDb.try]

InitStarts ==
  /\ initDb.state # "running"
  /\ initDb' = [NoInitDb EXCEPT !.state = "running"]
  /\ UNCHANGED <<schema, recorded, runnerVars, faults>>

InitStatement ==
  /\ Initialising /\ initDb.at <= Len(Try)
  /\ Succeeds(Try[initDb.at])
  /\ Perform(Try[initDb.at])
  /\ initDb' = [initDb EXCEPT !.at = @ + 1]
  /\ UNCHANGED <<recorded, runnerVars, faults>>

NextTry(clean) ==
  initDb' = [initDb EXCEPT !.try = @ + 1, !.at = 1, !.clean = clean]

(* The try is over, or a statement of it is refused.                       *)
InitTryEnds ==
  /\ Initialising
  /\ initDb.at <= Len(Try) => ~ Succeeds(Try[initDb.at])
  /\ NextTry(initDb.clean)
  /\ UNCHANGED <<schema, recorded, runnerVars, faults>>

(* A statement is lost with its connection: the error is caught as well.   *)
InitTryFails ==
  /\ Initialising /\ initDb.at <= Len(Try)
  /\ Fault
  /\ NextTry(FALSE)
  /\ UNCHANGED <<schema, recorded, runnerVars>>

InitEnds ==
  /\ initDb.state = "running" /\ initDb.try > Len(Tries)
  /\ initDb' = [initDb EXCEPT !.state = "done"]
  /\ UNCHANGED <<schema, recorded, runnerVars, faults>>

(* The process ends in the middle.                                         *)
InitDies ==
  /\ initDb.state = "running"
  /\ Fault
  /\ initDb' = NoInitDb
  /\ UNCHANGED <<schema, recorded, runnerVars>>

InitStep ==
  InitStarts \/ InitStatement \/ InitTryEnds \/ InitTryFails \/ InitEnds \/ InitDies

-----------------------------------------------------------------------------
Run(i) ==
  Begin(i) \/ SkipFile(i) \/ ExecuteStatement(i) \/ StatementFails(i)
    \/ FileEnds(i) \/ RunEnds(i)

Next ==
  \/ \E i \in Runners : Run(i) \/ Restart(i)
  \/ InitLockTable \/ InitCheckpointTable \/ InsertBlock
  \/ InitStep

Spec == Init /\ [][Next]_vars

(* A process that has been started runs on.                                *)
FairSpec == Spec /\ \A i \in Runners : WF_vars(Run(i))

-----------------------------------------------------------------------------
(* Properties.                                                             *)

(* Every variable has its type, what is known of a column that does not    *)
(* exist is FALSE, and a runner is within the statements of its file.      *)
TypeOK ==
  /\ columns \subseteq {"timestamp", "timestamp_new"}
  /\ dated \in BOOLEAN /\ (dated => "timestamp" \in columns)
  /\ copied \in BOOLEAN /\ (copied => "timestamp_new" \in columns)
  /\ required \in BOOLEAN /\ (required => "timestamp_new" \in columns)
  /\ "blocks" \in tables
  /\ recorded \in [Versions -> {"none", "success", "failure"}]
  /\ pc \in [Runners -> {"start", "run", "failed", "done"}]
  /\ current \in [Runners -> 1..(Len(Files) + 1)]
  /\ step \in [Runners -> Nat \ {0}]
  /\ \A i \in Runners : current[i] <= Len(Files) => step[i] <= Len(File(i).up) + 1
  /\ applied \in [Runners -> SUBSET Versions]
  /\ initDb \in InitDb /\ (Initialising => initDb.at <= Len(Try) + 1)
  /\ faults \in 0..MaxFaults

(* The conversion of the timestamps loses no time of a block, wherever a   *)
(* statement fails or the process restarts, and although another process   *)
(* inserts blocks: the times are in one of the two columns.                *)
TimestampsAreKept == dated \/ copied

(* A version of one file that is recorded as applied is in place: 001 has  *)
(* left one timestamp column, with all the times, and its indexes.         *)
AppliedIsInPlace ==
  recorded[1] = "success" =>
    /\ columns = {"timestamp"} /\ dated
    /\ {"version", "idx_blocks_unique"} \subseteq objects

(* A run of initDatabase that no fault disturbs makes up for whatever      *)
(* earlier runs left undone: the tables of the event indexer exist, and    *)
(* so does the unique index its upsert of a transaction names.             *)
RerunCompletes ==
  initDb.state = "done" /\ initDb.clean =>
    /\ {"transactions", "sync_status"} \subseteq tables
    /\ "idx_tx_block_log_unique" \in objects

(* Once nothing fails any more, the run ends and the indexer starts, also  *)
(* when a migration can never succeed.                                     *)
StartupCompletes == \A i \in Runners : <>[](pc[i] = "done")
=============================================================================
