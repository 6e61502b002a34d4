--------------------------- MODULE ProcessProofs ---------------------------
(***************************************************************************)
(* Theorems about the process around the production indexer: how it        *)
(* prepares the database before it syncs (Migrations), and how it answers  *)
(* health probes and shuts down while it does (Lifecycle).  The two        *)
(* specifications share no variable, and each theorem is about one.        *)
(***************************************************************************)
EXTENDS Migrations, Lifecycle, TLAPS

-----------------------------------------------------------------------------
(* Part 1: Migrations.                                                     *)

USE MigrationsAssumption

-----------------------------------------------------------------------------
(* The migration files and the tries of initDatabase, statement by         *)
(* statement.                                                              *)
LEMMA FilesFacts ==
  /\ Len(Files) = 5
  /\ Files[1].up = FixCriticalIssues /\ Files[2].up = AddParentHashIndex
  /\ Files[3].up = AddSpaceXConstraints /\ Files[4].up = AddSyncCriticalFixes
  /\ Files[5].up = FixTransactionLogs
  /\ \A f \in 1..5 : Files[f].version \in Versions
  /\ Files[1].version = 1 /\ \A f \in 2..5 : Files[f].version # 1
BY DEF Files, Versions

LEMMA LengthFacts ==
  /\ Len(FixCriticalIssues) = 8 /\ Len(AddParentHashIndex) = 1
  /\ Len(AddSpaceXConstraints) = 11 /\ Len(AddSyncCriticalFixes) = 7
  /\ Len(FixTransactionLogs) = 0
BY DEF FixCriticalIssues, AddParentHashIndex, AddSpaceXConstraints,
   AddSyncCriticalFixes, FixTransactionLogs

LEMMA LengthsAreNumbers ==
  \A f \in 1..5 : Len(Files[f].up) \in Nat
BY FilesFacts, LengthFacts

(* Migration 001: the statements that juggle the two columns, in order.    *)
LEMMA FirstFile ==
  /\ \A k \in 1..8 : ~ FixCriticalIssues[k].commented /\ FixCriticalIssues[k].table = "blocks"
  /\ FixCriticalIssues[1].op = "addNew" /\ FixCriticalIssues[2].op = "copy"
  /\ FixCriticalIssues[3].op = "require" /\ FixCriticalIssues[4].op = "dropOld"
  /\ FixCriticalIssues[5].op = "rename"
  /\ \A k \in 6..8 : FixCriticalIssues[k].op = "ensure"
  /\ FixCriticalIssues[7].name = "version"
  /\ FixCriticalIssues[8].name = "idx_blocks_unique"
BY DEF FixCriticalIssues, Ensure, OnBlocks

(* What later files and initDatabase rely on; no file drops it.            *)
Protected == {"version", "idx_blocks_unique", "idx_tx_block_log_unique"}

Harmless(s) == s.op \in {"ensure", "add"} \/ (s.op = "drop" /\ s.name \notin Protected)

LEMMA OtherFiles ==
  \A f \in 2..5 : \A k \in 1..Len(Files[f].up) : Harmless(Files[f].up[k])
<1> USE DEF Harmless, Protected, Ensure, OnBlocks, Drop, Add, Commented
<1>1. \A k \in 1..1 : Harmless(AddParentHashIndex[k])
  BY DEF AddParentHashIndex
<1>2. \A k \in 1..11 : Harmless(AddSpaceXConstraints[k])
  BY DEF AddSpaceXConstraints
<1>3. \A k \in 1..7 : Harmless(AddSyncCriticalFixes[k])
  BY DEF AddSyncCriticalFixes
<1>4. QED
  <2> HIDE DEF Harmless
  <2>1. \A k \in 1..Len(Files[2].up) : Harmless(Files[2].up[k])
    BY <1>1, FilesFacts, LengthFacts
  <2>2. \A k \in 1..Len(Files[3].up) : Harmless(Files[3].up[k])
    BY <1>2, FilesFacts, LengthFacts
  <2>3. \A k \in 1..Len(Files[4].up) : Harmless(Files[4].up[k])
    BY <1>3, FilesFacts, LengthFacts
  <2>4. \A k \in 1..Len(Files[5].up) : Harmless(Files[5].up[k])
    BY FilesFacts, LengthFacts
  <2>5. QED
    BY <2>1, <2>2, <2>3, <2>4

LEMMA TriesFacts ==
  /\ Len(Tries) = 5
  /\ Tries[2] = << CreateTable("transactions") >>
  /\ Tries[3] = << CreateTable("sync_status") >>
  /\ Tries[4] = << Add("transactions", "idx_tx_block_log_unique") >>
  /\ \A t \in 2..4 : Len(Tries[t]) = 1
  /\ \A t \in 1..5 : Len(Tries[t]) \in Nat
  /\ \A t \in 1..5 : \A k \in 1..Len(Tries[t]) :
       Tries[t][k].op \in {"add", "create"} /\ ~ Tries[t][k].commented
<1>1. /\ Len(Tries) = 5
      /\ Len(Tries[1]) = 1 /\ Tries[1][1] = Add("blocks", "idx_blocks_parent_hash")
      /\ Tries[2] = << CreateTable("transactions") >>
      /\ Tries[3] = << CreateTable("sync_status") >>
      /\ Tries[4] = << Add("transactions", "idx_tx_block_log_unique") >>
      /\ Tries[5] = CreateTransfers
  BY DEF Tries
<1> DEFINE Fine(s) == s.op \in {"add", "create"} /\ ~ s.commented
<1>2. /\ \A table, name : Fine(Add(table, name))
      /\ \A name : Fine(CreateTable(name))
  BY DEF Add, CreateTable, OnBlocks
<1>3. /\ Len(CreateTransfers) = 3
      /\ \A k \in 1..3 : Fine(CreateTransfers[k])
  <2>1. /\ CreateTransfers[1] = CreateTable("transfers")
        /\ CreateTransfers[2] = Add("transfers", "idx_transfers")
        /\ CreateTransfers[3] = Add("transfers", "idx_transfers_block_log_unique")
        /\ Len(CreateTransfers) = 3
    BY DEF CreateTransfers
  <2> HIDE DEF Fine
  <2>2. QED
    BY <1>2, <2>1
<1>4. /\ Len(Tries[2]) = 1 /\ Len(Tries[3]) = 1 /\ Len(Tries[4]) = 1
      /\ Tries[2][1] = CreateTable("transactions") /\ Tries[3][1] = CreateTable("sync_status")
      /\ Tries[4][1] = Add("transactions", "idx_tx_block_log_unique")
  BY <1>1
<1>5. \A t \in 1..5 : \A k \in 1..Len(Tries[t]) : Fine(Tries[t][k])
  <2> HIDE DEF Fine
  <2>1. QED
    BY <1>1, <1>2, <1>3, <1>4
<1>6. \A t \in 2..4 : Len(Tries[t]) = 1
  BY <1>4
<1>7. QED
  BY <1>1, <1>3, <1>4, <1>5, <1>6

-----------------------------------------------------------------------------
(* Type correctness.                                                       *)
BlocksOK ==
  /\ columns \subseteq {"timestamp", "timestamp_new"}
  /\ dated \in BOOLEAN /\ (dated => "timestamp" \in columns)
  /\ copied \in BOOLEAN /\ (copied => "timestamp_new" \in columns)
  /\ required \in BOOLEAN /\ (required => "timestamp_new" \in columns)
  /\ "blocks" \in tables

RunnersOK ==
  /\ recorded \in [Versions -> {"none", "success", "failure"}]
  /\ pc \in [Runners -> {"start", "run", "failed", "done"}]
  /\ current \in [Runners -> 1..(Len(Files) + 1)]
  /\ step \in [Runners -> Nat \ {0}]
  /\ \A i \in Runners : current[i] <= Len(Files) => step[i] <= Len(File(i).up) + 1
  /\ applied \in [Runners -> SUBSET Versions]

InitDbOK == initDb \in InitDb /\ (Initialising => initDb.at <= Len(Try) + 1)

LEMMA MigrationsTypeParts ==
  TypeOK <=> BlocksOK /\ RunnersOK /\ InitDbOK /\ faults \in 0..MaxFaults
BY Zenon DEF TypeOK, BlocksOK, RunnersOK, InitDbOK

(* A statement is left out, or PostgreSQL performs it.                     *)
LEMMA PerformedOrNot ==
  ASSUME NEW s, Possible(s), Perform(s)
  PROVE  UNCHANGED schema \/ (Succeeds(s) /\ Effect(s))
BY Zenon DEF Possible, Perform

LEMMA EffectType ==
  ASSUME BlocksOK, NEW s, Succeeds(s), Effect(s)
  PROVE  BlocksOK'
<1>1. CASE s.op = "create" /\ tables' = tables \cup {s.name}
           /\ UNCHANGED <<blocksTable, objects>>
  BY <1>1, Zenon DEF BlocksOK, blocksTable
<1> USE DEF BlocksOK, blocksTable
<1>2. CASE /\ s.op = "addNew" /\ columns' = columns \cup {"timestamp_new"}
           /\ UNCHANGED <<dated, copied, required, objects>> /\ UNCHANGED tables
  BY <1>2, Zenon
<1>3. CASE /\ s.op = "copy" /\ copied' = dated
           /\ UNCHANGED <<columns, dated, required, objects>> /\ UNCHANGED tables
  BY <1>3, Zenon DEF Succeeds
<1>4. CASE /\ s.op = "require" /\ required' = TRUE
           /\ UNCHANGED <<columns, dated, copied, objects>> /\ UNCHANGED tables
  BY <1>4, Zenon DEF Succeeds
<1>5. CASE s.op = "dropOld" /\ DropTimestamp /\ UNCHANGED tables
  BY <1>5, Zenon DEF DropTimestamp
<1>6. CASE s.op = "rename" /\ RenameColumn /\ UNCHANGED tables
  BY <1>6, Zenon DEF RenameColumn
<1>7. CASE UNCHANGED <<blocksTable, tables>>
  BY <1>7, Zenon
<1>8. QED
  BY <1>1, <1>2, <1>3, <1>4, <1>5, <1>6, <1>7 DEF Effect, ChangeBlocks

LEMMA FaultType ==
  ASSUME faults \in 0..MaxFaults, Fault
  PROVE  faults' \in 0..MaxFaults
BY DEF Fault

(* The statements of a file are counted up to the one after the last.      *)
LEMMA NextFileType ==
  ASSUME RunnersOK, NEW i \in Runners, current[i] <= Len(Files), NextFile(i)
  PROVE  /\ current' \in [Runners -> 1..(Len(Files) + 1)]
         /\ step' \in [Runners -> Nat \ {0}]
         /\ \A j \in Runners : current'[j] <= Len(Files) => step'[j] <= Len(Files[current'[j]].up) + 1
<1>1. Len(Files) = 5 /\ current[i] \in 1..5
  BY FilesFacts DEF RunnersOK
<1>2. current' = [current EXCEPT ![i] = current[i] + 1] /\ step' = [step EXCEPT ![i] = 1]
  BY DEF NextFile
<1>3. current' \in [Runners -> 1..(Len(Files) + 1)] /\ step' \in [Runners -> Nat \ {0}]
  BY <1>1, <1>2 DEF RunnersOK
<1>4. ASSUME NEW j \in Runners, current'[j] <= Len(Files)
      PROVE  step'[j] <= Len(Files[current'[j]].up) + 1
  <2>1. CASE j = i
    <3>1. current'[j] \in 1..5 /\ step'[j] = 1
      BY <1>1, <1>2, <1>3, <1>4, <2>1 DEF RunnersOK
    <3>2. QED
      BY <3>1, LengthsAreNumbers
  <2>2. CASE j # i
    BY <1>2, <1>4, <2>2 DEF RunnersOK, File
  <2>3. QED
    BY <2>1, <2>2
<1>5. QED
  BY <1>3, <1>4

(* The steps of a runner that change the schema, and those that do not.    *)
LEMMA RunSchema ==
  ASSUME BlocksOK, NEW i \in Runners, Run(i) \/ Restart(i)
  PROVE  BlocksOK'
<1>1. CASE UNCHANGED schema
  BY <1>1, Zenon DEF schema, blocksTable, BlocksOK
<1>2. CASE ExecuteStatement(i)
  BY <1>1, <1>2, PerformedOrNot, EffectType DEF ExecuteStatement
<1>3. QED
  BY <1>1, <1>2 DEF Run, Restart, Begin, SkipFile, StatementFails, FileEnds, RunEnds

LEMMA RunFaults ==
  ASSUME faults \in 0..MaxFaults, NEW i \in Runners, Run(i) \/ Restart(i)
  PROVE  faults' \in 0..MaxFaults
BY FaultType DEF Run, Restart, Begin, SkipFile, ExecuteStatement, StatementFails,
   FileEnds, RunEnds

LEMMA VersionType ==
  ASSUME RunnersOK, NEW i \in Runners, current[i] <= Len(Files)
  PROVE  File(i).version \in Versions
BY FilesFacts DEF RunnersOK, File

LEMMA RunRunners ==
  ASSUME RunnersOK, NEW i \in Runners, Run(i) \/ Restart(i),
         \A j \in Runners : pc[j] = "failed" => current[j] <= Len(Files)
  PROVE  RunnersOK'
<1> USE DEF Goto
<1>1. CASE Begin(i)
  BY <1>1 DEF Begin, RunnersOK, File
<1>2. CASE SkipFile(i)
  BY <1>2, NextFileType DEF SkipFile, RunnersOK, File
<1>3. CASE ExecuteStatement(i)
  <2>1. /\ step' = [step EXCEPT ![i] = step[i] + 1]
        /\ UNCHANGED <<recorded, pc, current, applied>>
        /\ step[i] <= Len(File(i).up) /\ current[i] \in 1..5
    BY <1>3, FilesFacts DEF ExecuteStatement, InFile, MoreStatements, RunnersOK
  <2>2. Len(File(i).up) \in Nat
    BY <2>1, LengthsAreNumbers DEF File
  <2>3. \A j \in Runners : current[j] <= Len(Files) => step'[j] <= Len(File(j).up) + 1
    BY <2>1, <2>2 DEF RunnersOK
  <2>4. step' \in [Runners -> Nat \ {0}]
    BY <2>1 DEF RunnersOK
  <2>5. QED
    BY <2>1, <2>3, <2>4 DEF RunnersOK, File
<1>4. CASE StatementFails(i)
  BY <1>4 DEF StatementFails, RunnersOK, File
<1>5. CASE FileEnds(i)
  <2>1. current[i] <= Len(Files)
    BY <1>5 DEF FileEnds, InFile
  <2>2. PICK success \in {"success", "failure"} : RecordMigration(i, success)
    BY <1>5 DEF FileEnds
  <2>3. recorded' \in [Versions -> {"none", "success", "failure"}]
    BY <2>1, <2>2, VersionType DEF RecordMigration, RunnersOK
  <2>4. QED
    BY <1>5, <2>1, <2>2, <2>3, NextFileType DEF FileEnds, RecordMigration, RunnersOK, File
<1>6. CASE RunEnds(i)
  BY <1>6 DEF RunEnds, RunnersOK, File
<1>7. CASE Restart(i)
  <2>1. /\ current' = [current EXCEPT ![i] = 1] /\ step' = [step EXCEPT ![i] = 1]
        /\ pc' = [pc EXCEPT ![i] = "start"] /\ applied' = [applied EXCEPT ![i] = {}]
        /\ UNCHANGED recorded
    BY <1>7 DEF Restart
  <2>2. current' \in [Runners -> 1..(Len(Files) + 1)] /\ step' \in [Runners -> Nat \ {0}]
    BY <2>1, FilesFacts DEF RunnersOK
  <2>3. ASSUME NEW j \in Runners, current'[j] <= Len(Files)
        PROVE  step'[j] <= Len(Files[current'[j]].up) + 1
    <3>1. CASE j = i
      BY <2>1, <3>1, FilesFacts, LengthFacts DEF RunnersOK
    <3>2. CASE j # i
      BY <2>1, <2>3, <3>2 DEF RunnersOK, File
    <3>3. QED
      BY <3>1, <3>2
  <2>4. QED
    BY <2>1, <2>2, <2>3 DEF RunnersOK, File
<1>8. QED
  BY <1>1, <1>2, <1>3, <1>4, <1>5, <1>6, <1>7 DEF Run

(* A runner that failed is still in the file.                              *)
FailedInFile == \A i \in Runners : pc[i] = "failed" => current[i] <= Len(Files)

LEMMA RunKeepsFailed ==
  ASSUME RunnersOK, FailedInFile, NEW i \in Runners, Run(i) \/ Restart(i)
  PROVE  FailedInFile'
BY DEF RunnersOK, FailedInFile, Run, Restart, Begin, SkipFile, ExecuteStatement,
   StatementFails, FileEnds, RunEnds, RecordMigration, NextFile, Goto, InFile

(* initDatabase.                                                           *)
LEMMA TryType ==
  ASSUME InitDbOK, Initialising
  PROVE  /\ initDb.try \in 1..5 /\ Len(Try) \in Nat
         /\ initDb.at \in Nat \ {0} /\ initDb.at <= Len(Try) + 1
         /\ initDb.state = "running" /\ initDb.clean \in BOOLEAN
<1>1. initDb \in InitDb /\ initDb.state = "running" /\ initDb.try <= 5
      /\ initDb.at <= Len(Try) + 1
  BY TriesFacts DEF InitDbOK, Initialising
<1>2. /\ initDb.try \in 1..5 /\ initDb.at \in Nat \ {0}
  BY <1>1, TriesFacts DEF InitDb
<1>3. initDb.clean \in BOOLEAN
  BY <1>1 DEF InitDb
<1>4. QED
  BY <1>1, <1>2, <1>3, TriesFacts DEF Try

LEMMA InitDbUpdates ==
  ASSUME NEW r \in InitDb
  PROVE  /\ \A s \in {"off", "running", "done"} : [r EXCEPT !.state = s] \in InitDb
         /\ \A t \in 1..6 : [r EXCEPT !.try = t] \in InitDb
         /\ \A a \in Nat \ {0} : [r EXCEPT !.at = a] \in InitDb
         /\ \A c \in BOOLEAN : [r EXCEPT !.clean = c] \in InitDb
<1>1. \A s \in {"off", "running", "done"} : [r EXCEPT !.state = s] \in InitDb
  BY DEF InitDb
<1>2. \A t \in 1..6 : [r EXCEPT !.try = t] \in InitDb
  <2>1. 1..(Len(Tries) + 1) = 1..6
    BY TriesFacts
  <2>2. \A t \in 1..(Len(Tries) + 1) : [r EXCEPT !.try = t] \in InitDb
    BY DEF InitDb
  <2>3. QED
    BY <2>1, <2>2, Zenon
<1>3. \A a \in Nat \ {0} : [r EXCEPT !.at = a] \in InitDb
  BY DEF InitDb
<1>4. \A c \in BOOLEAN : [r EXCEPT !.clean = c] \in InitDb
  BY DEF InitDb
<1>5. QED
  BY <1>1, <1>2, <1>3, <1>4, Zenon

AtTry(r, t, c) == [r EXCEPT !.try = t, !.at = 1, !.clean = c]

LEMMA NewTry ==
  ASSUME NEW r \in InitDb, NEW t \in 1..6, NEW c \in BOOLEAN
  PROVE  /\ AtTry(r, t, c) \in InitDb
         /\ AtTry(r, t, c).state = r.state
         /\ AtTry(r, t, c).try = t /\ AtTry(r, t, c).at = 1
<1>1. AtTry(r, t, c) = [[[r EXCEPT !.try = t] EXCEPT !.at = 1] EXCEPT !.clean = c]
  BY SMT DEF AtTry
<1>2. [r EXCEPT !.try = t] \in InitDb
  BY InitDbUpdates
<1>3. [[r EXCEPT !.try = t] EXCEPT !.at = 1] \in InitDb
  <2>1. 1 \in Nat \ {0}
    OBVIOUS
  <2>2. QED
    BY <1>2, <2>1, InitDbUpdates, Zenon
<1>4. [[[r EXCEPT !.try = t] EXCEPT !.at = 1] EXCEPT !.clean = c] \in InitDb
  BY <1>3, InitDbUpdates
<1>5. AtTry(r, t, c).state = r.state /\ AtTry(r, t, c).try = t /\ AtTry(r, t, c).at = 1
  BY DEF InitDb, AtTry
<1>6. QED
  BY <1>1, <1>4, <1>5, Zenon

LEMMA TryClean ==
  ASSUME NEW r \in InitDb, NEW t \in 1..6, NEW c \in BOOLEAN
  PROVE  AtTry(r, t, c).clean = c
BY DEF InitDb, AtTry

LEMMA NextTryType ==
  ASSUME InitDbOK, Initialising, NEW clean \in BOOLEAN, NextTry(clean)
  PROVE  InitDbOK'
<1>1. initDb' = [initDb EXCEPT !.try = initDb.try + 1, !.at = 1, !.clean = clean]
  BY DEF NextTry
<1>2. initDb.try + 1 \in 1..6 /\ initDb \in InitDb
  BY TryType DEF InitDbOK
<1>3. initDb' \in InitDb /\ initDb'.try = initDb.try + 1 /\ initDb'.at = 1
  <2> DEFINE t == initDb.try + 1
  <2>1. initDb \in InitDb /\ t \in 1..6 /\ initDb' = AtTry(initDb, t, clean)
    BY <1>1, <1>2 DEF AtTry
  <2> HIDE DEF t
  <2>2. initDb' \in InitDb /\ initDb'.try = t /\ initDb'.at = 1
    BY <2>1, NewTry
  <2>3. QED
    BY <2>2 DEF t
<1>4. (Initialising => initDb.at <= Len(Try) + 1)'
  BY <1>2, <1>3, TriesFacts DEF Initialising, Try
<1>5. QED
  BY <1>3, <1>4 DEF InitDbOK

LEMMA NewRun ==
  ASSUME NEW new, new = [NoInitDb EXCEPT !.state = "running"]
  PROVE  /\ NoInitDb \in InitDb /\ NoInitDb.state = "off"
         /\ new \in InitDb
         /\ new.state = "running" /\ new.try = 1 /\ new.at = 1
<1>1. 1 \in 1..(Len(Tries) + 1) /\ 1 \in Nat \ {0}
  BY TriesFacts
<1>2. NoInitDb \in InitDb
  BY <1>1, Zenon DEF NoInitDb, InitDb
<1>3. NoInitDb.try = 1 /\ NoInitDb.at = 1 /\ NoInitDb.state = "off"
  BY DEF NoInitDb
<1>4. new.state = "running" /\ new.try = NoInitDb.try /\ new.at = NoInitDb.at
  BY <1>2 DEF InitDb
<1>5. QED
  BY <1>2, <1>3, <1>4, InitDbUpdates

LEMMA InitSteps ==
  ASSUME BlocksOK, InitDbOK, faults \in 0..MaxFaults, InitStep
  PROVE  BlocksOK' /\ InitDbOK' /\ faults' \in 0..MaxFaults
<1>1. BlocksOK'
  <2>1. CASE UNCHANGED schema
    BY <2>1, Zenon DEF schema, blocksTable, BlocksOK
  <2>2. CASE InitStatement
    <3>1. Succeeds(Try[initDb.at]) /\ Perform(Try[initDb.at])
      BY <2>2 DEF InitStatement
    <3>2. Possible(Try[initDb.at])
      BY <3>1 DEF Possible
    <3>3. QED
      BY <2>1, <3>1, <3>2, PerformedOrNot, EffectType
  <2>3. QED
    BY <2>1, <2>2 DEF InitStep, InitStarts, InitTryEnds, InitTryFails, InitEnds, InitDies
<1>2. faults' \in 0..MaxFaults
  BY FaultType DEF InitStep, InitStarts, InitStatement, InitTryEnds, InitTryFails,
     InitEnds, InitDies
<1>4. CASE InitStarts
  <2>1. initDb' \in InitDb /\ initDb'.at = 1 /\ initDb'.try = 1
    BY <1>4, NewRun DEF InitStarts
  <2>2. QED
    BY <1>1, <1>2, <2>1, TriesFacts DEF InitDbOK, Try
<1>5. CASE InitStatement
  <2>1. initDb' = [initDb EXCEPT !.at = initDb.at + 1] /\ initDb \in InitDb
        /\ Initialising /\ initDb.at <= Len(Try)
    BY <1>5 DEF InitStatement, InitDbOK
  <2>2. initDb' \in InitDb /\ initDb'.at = initDb.at + 1 /\ initDb'.try = initDb.try
    BY <2>1, TryType DEF InitDb
  <2>3. initDb'.at <= Len(Tries[initDb'.try]) + 1
    BY <2>1, <2>2, TryType DEF Try
  <2>4. QED
    BY <1>1, <1>2, <2>2, <2>3 DEF InitDbOK, Try
<1>6. CASE InitTryEnds \/ InitTryFails
  <2>1. FALSE \in BOOLEAN
    OBVIOUS
  <2>2. QED
    BY <1>1, <1>2, <1>6, <2>1, TryType, NextTryType DEF InitTryEnds, InitTryFails
<1>7. CASE InitEnds
  <2>1. initDb' \in InitDb /\ initDb'.state = "done"
    BY <1>7 DEF InitEnds, InitDbOK, InitDb
  <2>2. QED
    BY <1>1, <1>2, <2>1 DEF InitDbOK, Initialising
<1>8. CASE InitDies
  <2>1. initDb' \in InitDb /\ initDb'.state = "off"
    BY <1>8, NewRun DEF InitDies
  <2>2. QED
    BY <1>1, <1>2, <2>1 DEF InitDbOK, Initialising
<1>9. QED
  BY <1>4, <1>5, <1>6, <1>7, <1>8 DEF InitStep

(* The enhanced indexer.                                                   *)
LEMMA OtherSteps ==
  ASSUME BlocksOK, InitLockTable \/ InitCheckpointTable \/ InsertBlock
  PROVE  BlocksOK' /\ UNCHANGED <<recorded, runnerVars, initDb, faults>>
<1>1. CASE InitLockTable \/ InitCheckpointTable
  <2>1. PICK name : tables' = tables \cup {name}
    BY <1>1, Zenon DEF InitLockTable, InitCheckpointTable
  <2>2. UNCHANGED <<columns, dated, copied, required>> /\ UNCHANGED <<recorded, runnerVars, initDb, faults>>
    BY <1>1, Zenon DEF InitLockTable, InitCheckpointTable, blocksTable
  <2>3. QED
    BY <2>1, <2>2, Zenon DEF BlocksOK
<1>2. CASE InsertBlock
  <2>1. /\ copied' = FALSE /\ UNCHANGED <<columns, dated, required, tables>>
        /\ UNCHANGED <<recorded, runnerVars, initDb, faults>>
    BY <1>2, Zenon DEF InsertBlock
  <2>2. QED
    BY <2>1, Zenon DEF BlocksOK
<1>3. QED
  BY <1>1, <1>2

MigrationsTypeInv == TypeOK /\ FailedInFile

LEMMA MigrationsTypeStep == MigrationsTypeInv /\ [Next]_vars => MigrationsTypeInv'
<1> SUFFICES ASSUME MigrationsTypeInv, [Next]_vars
             PROVE  MigrationsTypeInv'
  OBVIOUS
<1>0. /\ BlocksOK /\ RunnersOK /\ InitDbOK /\ faults \in 0..MaxFaults
      /\ FailedInFile
  BY MigrationsTypeParts DEF MigrationsTypeInv
<1>1. (BlocksOK /\ RunnersOK /\ InitDbOK /\ faults \in 0..MaxFaults => TypeOK)'
  BY MigrationsTypeParts, PTL
<1>2. CASE UNCHANGED vars
  BY <1>2, Zenon DEF vars, schema, blocksTable, runnerVars, MigrationsTypeInv, TypeOK,
     FailedInFile, File, Initialising, Try
<1>3. ASSUME UNCHANGED <<recorded, runnerVars>>
      PROVE  RunnersOK' /\ FailedInFile'
  BY <1>0, <1>3, Zenon DEF runnerVars, RunnersOK, FailedInFile, File
<1>4. ASSUME UNCHANGED initDb
      PROVE  InitDbOK'
  BY <1>0, <1>4, Zenon DEF InitDbOK, Initialising, Try
<1>5. ASSUME NEW i \in Runners, Run(i) \/ Restart(i)
      PROVE  MigrationsTypeInv'
  <2>1. UNCHANGED initDb
    BY <1>5 DEF Run, Restart, Begin, SkipFile, ExecuteStatement, StatementFails,
       FileEnds, RunEnds
  <2>2. QED
    BY <1>0, <1>1, <1>4, <1>5, <2>1, RunSchema, RunFaults, RunRunners, RunKeepsFailed
       DEF MigrationsTypeInv, FailedInFile
<1>6. CASE InitStep
  <2>1. UNCHANGED <<recorded, runnerVars>>
    BY <1>6 DEF InitStep, InitStarts, InitStatement, InitTryEnds, InitTryFails,
       InitEnds, InitDies
  <2>2. QED
    BY <1>0, <1>1, <1>3, <1>6, <2>1, InitSteps DEF MigrationsTypeInv
<1>7. CASE InitLockTable \/ InitCheckpointTable \/ InsertBlock
  <2>1. BlocksOK' /\ UNCHANGED <<recorded, runnerVars, initDb, faults>>
    BY <1>0, <1>7, OtherSteps
  <2>2. QED
    BY <1>0, <1>1, <1>3, <1>4, <2>1 DEF MigrationsTypeInv
<1>8. QED
  BY <1>2, <1>5, <1>6, <1>7 DEF Next

LEMMA MigrationsTypeInit == Init => MigrationsTypeInv
<1> SUFFICES ASSUME Init PROVE MigrationsTypeInv
  OBVIOUS
<1>1. BlocksOK
  BY Zenon DEF Init, BlocksOK
<1>2. RunnersOK
  BY FilesFacts, LengthFacts DEF Init, RunnersOK, File
<1>3. InitDbOK
  BY TriesFacts DEF Init, InitDbOK, NoInitDb, InitDb, Initialising
<1>4. faults \in 0..MaxFaults /\ FailedInFile
  BY DEF Init, FailedInFile
<1>5. QED
  BY <1>1, <1>2, <1>3, <1>4, MigrationsTypeParts DEF MigrationsTypeInv

(* Every variable has its type and a runner is within the statements of    *)
(* its file, for any number of runners.                                    *)
THEOREM MigrationsTypeCorrect == Spec => []TypeOK
<1>1. MigrationsTypeInv => TypeOK
  BY DEF MigrationsTypeInv
<1>2. QED
  BY <1>1, MigrationsTypeInit, MigrationsTypeStep, PTL DEF Spec

-----------------------------------------------------------------------------
(* The times of the blocks, with one runner.                               *)
(* The times are in timestamp as long as it exists, and then in            *)
(* timestamp_new.                                                          *)
TimesOK ==
  /\ "timestamp" \in columns => dated
  /\ "timestamp" \notin columns => copied

(* What the third statement of migration 001 has made sure of.             *)
ReadyToDrop == copied /\ required

InFirst(i) == pc[i] = "run" /\ current[i] = 1 /\ 1 \notin applied[i]

(* How far migration 001 has come, by the statement the runner is at.      *)
FirstFileOK(i) ==
  InFirst(i) =>
    /\ step[i] = 4 => ReadyToDrop
    /\ step[i] = 5 => columns = {"timestamp_new"}
    /\ step[i] >= 6 => columns = {"timestamp"}
    /\ step[i] >= 8 => "version" \in objects
    /\ step[i] >= 9 => "idx_blocks_unique" \in objects

StartOK(i) == pc[i] = "start" => current[i] = 1 /\ step[i] = 1

(* Once it is recorded as applied, its effect stays, and no run that has   *)
(* begun executes it again.                                                *)
AppliedOK(i) ==
  recorded[1] = "success" =>
    /\ columns = {"timestamp"}
    /\ "version" \in objects /\ "idx_blocks_unique" \in objects
    /\ pc[i] # "start" => current[i] > 1 \/ 1 \in applied[i]

ConversionOK(i) == TimesOK /\ FirstFileOK(i) /\ StartOK(i) /\ AppliedOK(i)

LEMMA TimesKept ==
  ASSUME TimesOK, UNCHANGED blocksTable
  PROVE  TimesOK' /\ (ReadyToDrop => ReadyToDrop') /\ columns' = columns
<1>1. columns' = columns /\ dated' = dated /\ copied' = copied /\ required' = required
  BY DEF blocksTable
<1>2. QED
  BY <1>1, Zenon DEF TimesOK, ReadyToDrop

(* The effect of a statement on the columns, by its kind.                  *)
LEMMA StatementEffect ==
  ASSUME BlocksOK, TimesOK, NEW s, Succeeds(s), Effect(s)
  PROVE  /\ s.op \in {"add", "ensure", "drop", "create"} => UNCHANGED blocksTable
         /\ s.op \in {"addNew", "copy"} => TimesOK'
         /\ s.op = "require" => TimesOK' /\ ReadyToDrop'
         /\ s.op = "dropOld" /\ ReadyToDrop => TimesOK' /\ columns' = {"timestamp_new"}
         /\ s.op = "rename" => TimesOK' /\ columns' = {"timestamp"}
<1>1. s.op \in {"add", "ensure", "drop", "create"} => UNCHANGED blocksTable
  BY DEF Effect, ChangeBlocks
<1>2. ASSUME s.op = "addNew" PROVE TimesOK'
  <2>1. columns' = columns \cup {"timestamp_new"} /\ UNCHANGED <<dated, copied>>
    BY <1>2 DEF Effect, ChangeBlocks
  <2>2. "timestamp" \in columns' <=> "timestamp" \in columns
    BY <2>1
  <2>3. QED
    BY <2>1, <2>2, Zenon DEF TimesOK
<1>3. ASSUME s.op = "copy" PROVE TimesOK'
  <2>1. copied' = dated /\ UNCHANGED <<columns, dated>> /\ "timestamp" \in columns
    BY <1>3 DEF Effect, ChangeBlocks, Succeeds
  <2>2. QED
    BY <2>1, Zenon DEF TimesOK
<1>4. ASSUME s.op = "require" PROVE TimesOK' /\ ReadyToDrop'
  <2>1. required' = TRUE /\ UNCHANGED <<columns, dated, copied>>
    BY <1>4 DEF Effect, ChangeBlocks
  <2>2. copied
    BY <1>4, Zenon DEF Succeeds
  <2>3. QED
    BY <2>1, <2>2, Zenon DEF TimesOK, ReadyToDrop
<1>5. ASSUME s.op = "dropOld", ReadyToDrop
      PROVE  TimesOK' /\ columns' = {"timestamp_new"}
  <2>1. columns' = columns \ {"timestamp"} /\ UNCHANGED copied
    BY <1>5 DEF Effect, ChangeBlocks, DropTimestamp
  <2>2. columns \subseteq {"timestamp", "timestamp_new"} /\ "timestamp_new" \in columns /\ copied
    BY <1>5, Zenon DEF BlocksOK, ReadyToDrop
  <2>3. columns' = {"timestamp_new"} /\ "timestamp" \notin columns'
    BY <2>1, <2>2
  <2>4. QED
    BY <2>1, <2>2, <2>3, Zenon DEF TimesOK
<1>6. ASSUME s.op = "rename" PROVE TimesOK' /\ columns' = {"timestamp"}
  <2>1. columns' = {"timestamp"} /\ dated' = copied /\ columns = {"timestamp_new"}
    BY <1>6 DEF Effect, ChangeBlocks, RenameColumn, Succeeds
  <2>2. "timestamp" \notin columns /\ "timestamp" \in columns'
    BY <2>1
  <2>3. QED
    BY <2>1, <2>2, Zenon DEF TimesOK
<1>7. QED
  BY <1>1, <1>2, <1>3, <1>4, <1>5, <1>6, Zenon

(* Nothing drops a protected constraint or index.                          *)
LEMMA ProtectedKept ==
  ASSUME NEW s, Effect(s), s.op = "drop" => s.name \notin Protected
  PROVE  \A name \in Protected : name \in objects => name \in objects'
BY DEF Effect, ChangeBlocks, Protected, DropTimestamp, RenameColumn, blocksTable

(* A statement of migration 001.                                           *)
LEMMA FirstFileStatement ==
  ASSUME BlocksOK, RunnersOK, NEW i \in Runners, TimesOK, FirstFileOK(i),
         ExecuteStatement(i), current[i] = 1
  PROVE  TimesOK' /\ FirstFileOK(i)'
<1> DEFINE s == FixCriticalIssues[step[i]]
<1>1. /\ step[i] \in 1..8 /\ InFirst(i)
      /\ step' = [step EXCEPT ![i] = step[i] + 1] /\ step \in [Runners -> Nat \ {0}]
      /\ Possible(s) /\ Perform(s)
  BY FilesFacts, LengthFacts DEF ExecuteStatement, InFile, MoreStatements, Statement,
     File, RunnersOK, IsApplied, InFirst
<1>2. ~ s.commented
  BY <1>1, FirstFile
<1>3. Succeeds(s) /\ Effect(s)
  BY <1>1, <1>2, Zenon DEF Possible, Perform
<1>4. step'[i] = step[i] + 1
  BY <1>1
<1>5. s.op = "ensure" => objects' = objects \cup {s.name} /\ UNCHANGED blocksTable
  BY <1>3 DEF Effect, ChangeBlocks
<1>6. /\ step[i] = 4 => ReadyToDrop
      /\ step[i] >= 6 => columns = {"timestamp"}
      /\ step[i] >= 8 => "version" \in objects
  BY <1>1 DEF FirstFileOK
<1> HIDE DEF s
<1>7. /\ s.op \in {"add", "ensure", "drop", "create"} => UNCHANGED blocksTable
      /\ s.op \in {"addNew", "copy"} => TimesOK'
      /\ s.op = "require" => TimesOK' /\ ReadyToDrop'
      /\ s.op = "dropOld" /\ ReadyToDrop => TimesOK' /\ columns' = {"timestamp_new"}
      /\ s.op = "rename" => TimesOK' /\ columns' = {"timestamp"}
  BY <1>3, StatementEffect
<1>8. UNCHANGED blocksTable => TimesOK'
  BY TimesKept
<1>9. CASE step[i] \in 1..2
  <2>1. s.op \in {"addNew", "copy"}
    BY <1>9, FirstFile DEF s
  <2>2. QED
    BY <1>4, <1>7, <1>9, <2>1 DEF FirstFileOK
<1>10. CASE step[i] = 3
  BY <1>4, <1>7, <1>10, FirstFile DEF s, FirstFileOK
<1>11. CASE step[i] = 4
  BY <1>4, <1>6, <1>7, <1>11, FirstFile DEF s, FirstFileOK
<1>12. CASE step[i] = 5
  BY <1>4, <1>7, <1>12, FirstFile DEF s, FirstFileOK
<1>13. CASE step[i] \in 6..8
  <2>1. s.op = "ensure" /\ (step[i] = 7 => s.name = "version")
        /\ (step[i] = 8 => s.name = "idx_blocks_unique")
    BY <1>13, FirstFile DEF s
  <2>2. TimesOK' /\ columns' = columns /\ objects' = objects \cup {s.name}
    BY <1>5, <1>8, <2>1 DEF blocksTable
  <2>3. QED
    BY <1>4, <1>6, <1>13, <2>1, <2>2 DEF FirstFileOK
<1>14. QED
  BY <1>1, <1>9, <1>10, <1>11, <1>12, <1>13

(* A statement of a later file.                                            *)
LEMMA LaterStatement ==
  ASSUME RunnersOK, NEW i \in Runners, ExecuteStatement(i), current[i] # 1
  PROVE  /\ UNCHANGED blocksTable
         /\ \A name \in Protected : name \in objects => name \in objects'
<1> DEFINE s == Files[current[i]].up[step[i]]
<1>1. /\ current[i] \in 2..5 /\ step[i] \in 1..Len(Files[current[i]].up)
      /\ Possible(s) /\ Perform(s)
  BY FilesFacts, LengthsAreNumbers DEF ExecuteStatement, InFile, MoreStatements, Statement,
     File, RunnersOK
<1>2. Harmless(s)
  BY <1>1, OtherFiles
<1> HIDE DEF s
<1>3. UNCHANGED schema \/ Effect(s)
  BY <1>1, PerformedOrNot
<1>4. CASE UNCHANGED schema
  BY <1>4 DEF schema, blocksTable
<1>5. CASE Effect(s)
  <2>1. UNCHANGED blocksTable
    BY <1>2, <1>5 DEF Effect, ChangeBlocks, Harmless
  <2>2. QED
    BY <1>2, <1>5, <2>1, ProtectedKept DEF Harmless
<1>6. QED
  BY <1>3, <1>4, <1>5

(* A step that leaves the columns alone and drops nothing that is          *)
(* protected, seen from a runner that it leaves alone, too.                *)
LEMMA ConversionKept ==
  ASSUME NEW i \in Runners, ConversionOK(i), UNCHANGED <<blocksTable, recorded, runnerVars>>,
         \A name \in Protected : name \in objects => name \in objects'
  PROVE  ConversionOK(i)'
<1>1. TimesOK' /\ (ReadyToDrop => ReadyToDrop') /\ columns' = columns
  BY TimesKept DEF ConversionOK
<1>2. /\ "version" \in objects => "version" \in objects'
      /\ "idx_blocks_unique" \in objects => "idx_blocks_unique" \in objects'
  BY DEF Protected
<1>3. UNCHANGED <<recorded, pc, current, step, applied>>
  BY DEF runnerVars
<1>4. FirstFileOK(i)'
  BY <1>1, <1>2, <1>3 DEF ConversionOK, FirstFileOK, InFirst
<1>5. StartOK(i)' /\ AppliedOK(i)'
  BY <1>1, <1>2, <1>3 DEF ConversionOK, StartOK, AppliedOK
<1>6. QED
  BY <1>1, <1>4, <1>5, Zenon DEF ConversionOK

(* The runner's own steps that leave the schema alone.                     *)
LEMMA RunnerConversion ==
  ASSUME RunnersOK, FailedInFile, NEW i \in Runners, ConversionOK(i),
         \/ Begin(i) \/ SkipFile(i) \/ StatementFails(i) \/ FileEnds(i)
         \/ RunEnds(i) \/ Restart(i)
  PROVE  ConversionOK(i)'
<1>1. UNCHANGED schema
  BY DEF Begin, SkipFile, StatementFails, FileEnds, RunEnds, Restart
<1>2. TimesOK' /\ UNCHANGED <<columns, objects>>
  <2>1. UNCHANGED <<blocksTable, objects>>
    BY <1>1 DEF schema
  <2>2. QED
    BY <2>1, TimesKept DEF ConversionOK
<1>3. /\ FirstFileOK(i) /\ StartOK(i) /\ AppliedOK(i)
  BY Zenon DEF ConversionOK
<1> SUFFICES FirstFileOK(i)' /\ StartOK(i)' /\ AppliedOK(i)'
  BY <1>2, Zenon DEF ConversionOK
<1> USE DEF Goto
<1>4. CASE Begin(i)
  <2>1. /\ pc[i] = "start" /\ pc'[i] = "run" /\ current[i] = 1 /\ step[i] = 1
        /\ UNCHANGED <<current, step, recorded>>
        /\ recorded[1] = "success" => 1 \in applied'[i]
    BY <1>3, <1>4 DEF Begin, RunnersOK, StartOK, Versions
  <2>2. QED
    BY <1>2, <1>3, <2>1 DEF FirstFileOK, InFirst, StartOK, AppliedOK
<1>5. ASSUME current[i] <= Len(Files), NextFile(i)
      PROVE  current'[i] > 1 /\ current'[i] # 1
  <2>1. current[i] \in 1..6 /\ current'[i] = current[i] + 1
    BY <1>5, FilesFacts DEF NextFile, RunnersOK
  <2>2. QED
    BY <2>1
<1>6. CASE SkipFile(i)
  <2>1. current'[i] > 1 /\ pc'[i] = "run" /\ UNCHANGED recorded
    BY <1>5, <1>6 DEF SkipFile
  <2>2. QED
    BY <1>2, <1>3, <2>1 DEF FirstFileOK, InFirst, StartOK, AppliedOK
<1>7. CASE StatementFails(i)
  <2>1. pc[i] = "run" /\ pc'[i] = "failed" /\ UNCHANGED <<current, applied, recorded>>
    BY <1>7 DEF StatementFails, InFile, RunnersOK
  <2>2. QED
    BY <1>2, <1>3, <2>1 DEF FirstFileOK, InFirst, StartOK, AppliedOK
<1>8. CASE FileEnds(i)
  <2>1. current[i] <= Len(Files) /\ current[i] \in 1..5
    BY <1>8, FilesFacts DEF FileEnds, InFile, FailedInFile, RunnersOK
  <2>2. PICK success \in {"success", "failure"} :
          /\ RecordMigration(i, success)
          /\ success = "success" => InFile(i) /\ ~ MoreStatements(i)
    BY <1>8 DEF FileEnds
  <2>3. /\ pc'[i] = "run" /\ current'[i] > 1 /\ current'[i] # 1
        /\ recorded' = [recorded EXCEPT ![File(i).version] = success]
    BY <1>5, <2>1, <2>2 DEF RecordMigration, RunnersOK
  <2>4. CASE current[i] = 1
    <3>1. File(i).version = 1 /\ recorded'[1] = success /\ File(i).up = FixCriticalIssues
      BY <2>3, <2>4, FilesFacts DEF File, RunnersOK, Versions
    <3>2. ASSUME success = "success"
          PROVE  columns = {"timestamp"} /\ "version" \in objects /\ "idx_blocks_unique" \in objects
      <4>1. InFile(i) /\ ~ MoreStatements(i)
        BY <2>2, <3>2
      <4>2. InFirst(i)
        BY <2>4, <3>1, <4>1 DEF InFile, IsApplied, InFirst
      <4>3. step[i] \in Nat /\ Len(File(i).up) = 8 /\ ~ step[i] <= Len(File(i).up)
        BY <3>1, <4>1, LengthFacts DEF MoreStatements, RunnersOK
      <4>4. step[i] >= 9
        BY <4>3
      <4>5. QED
        BY <1>3, <4>2, <4>3, <4>4 DEF FirstFileOK
    <3>3. QED
      BY <1>2, <2>3, <3>1, <3>2 DEF FirstFileOK, InFirst, StartOK, AppliedOK
  <2>5. CASE current[i] # 1
    <3>1. File(i).version # 1 /\ recorded \in [Versions -> {"none", "success", "failure"}]
      BY <2>1, <2>5, FilesFacts DEF File, RunnersOK
    <3>2. recorded'[1] = recorded[1]
      BY <2>3, <3>1 DEF Versions
    <3>3. QED
      BY <1>2, <1>3, <2>3, <3>2 DEF FirstFileOK, InFirst, StartOK, AppliedOK
  <2>6. QED
    BY <2>4, <2>5
<1>9. CASE RunEnds(i)
  <2>1. pc[i] = "run" /\ pc'[i] = "done" /\ UNCHANGED <<current, applied, recorded>>
    BY <1>9 DEF RunEnds, RunnersOK
  <2>2. QED
    BY <1>2, <1>3, <2>1 DEF FirstFileOK, InFirst, StartOK, AppliedOK
<1>10. CASE Restart(i)
  <2>1. pc'[i] = "start" /\ current'[i] = 1 /\ step'[i] = 1 /\ UNCHANGED recorded
    BY <1>10 DEF Restart, RunnersOK
  <2>2. QED
    BY <1>2, <1>3, <2>1 DEF FirstFileOK, InFirst, StartOK, AppliedOK
<1>11. QED
  BY <1>4, <1>6, <1>7, <1>8, <1>9, <1>10

LEMMA StatementConversion ==
  ASSUME BlocksOK, RunnersOK, NEW i \in Runners, ConversionOK(i), ExecuteStatement(i)
  PROVE  ConversionOK(i)'
<1>1. /\ FirstFileOK(i) /\ StartOK(i) /\ AppliedOK(i) /\ TimesOK
  BY Zenon DEF ConversionOK
<1>2. /\ pc[i] = "run" /\ UNCHANGED <<recorded, pc, current, applied>>
      /\ current[i] <= Len(Files) /\ ~ IsApplied(i)
  BY DEF ExecuteStatement, InFile
<1>3. CASE current[i] = 1
  <2>1. TimesOK' /\ FirstFileOK(i)'
    BY <1>1, <1>3, FirstFileStatement
  <2>2. 1 \notin applied[i]
    BY <1>2, <1>3, FilesFacts DEF IsApplied, File
  <2>3. recorded[1] # "success"
    BY <1>1, <1>2, <1>3, <2>2 DEF AppliedOK
  <2>4. StartOK(i)' /\ AppliedOK(i)'
    BY <1>2, <2>3 DEF StartOK, AppliedOK
  <2>5. QED
    BY <2>1, <2>4, Zenon DEF ConversionOK
<1>4. CASE current[i] # 1
  <2>1. /\ UNCHANGED blocksTable
        /\ \A name \in Protected : name \in objects => name \in objects'
    BY <1>4, LaterStatement
  <2>2. TimesOK' /\ columns' = columns
    BY <1>1, <2>1, TimesKept
  <2>3. FirstFileOK(i)' /\ StartOK(i)'
    BY <1>2, <1>4 DEF FirstFileOK, InFirst, StartOK
  <2>4. AppliedOK(i)'
    BY <1>1, <1>2, <2>1, <2>2 DEF AppliedOK, Protected
  <2>5. QED
    BY <2>2, <2>3, <2>4, Zenon DEF ConversionOK
<1>5. QED
  BY <1>3, <1>4

(* A statement of initDatabase adds or creates.                            *)
LEMMA TryStatement ==
  ASSUME InitDbOK, InitStatement
  PROVE  /\ Try[initDb.at].op \in {"add", "create"}
         /\ Succeeds(Try[initDb.at]) /\ Effect(Try[initDb.at])
<1>1. initDb.try \in 1..5 /\ initDb.at \in 1..Len(Try)
  BY TryType DEF InitStatement
<1>2. Try[initDb.at].op \in {"add", "create"} /\ ~ Try[initDb.at].commented
  BY <1>1, TriesFacts DEF Try
<1>3. QED
  BY <1>2, Zenon DEF InitStatement, Perform

LEMMA InitConversion ==
  ASSUME InitDbOK, InitStep, NEW i \in Runners, ConversionOK(i)
  PROVE  ConversionOK(i)'
<1>1. UNCHANGED <<recorded, runnerVars>>
  BY DEF InitStep, InitStarts, InitStatement, InitTryEnds, InitTryFails, InitEnds, InitDies
<1>2. CASE UNCHANGED schema
  BY <1>1, <1>2, ConversionKept DEF schema
<1>3. CASE InitStatement
  <2>1. UNCHANGED blocksTable
    BY <1>3, TryStatement DEF Effect, ChangeBlocks
  <2>2. QED
    BY <1>1, <1>3, <2>1, TryStatement, ProtectedKept, ConversionKept
<1>4. QED
  BY <1>2, <1>3 DEF InitStep, InitStarts, InitTryEnds, InitTryFails, InitEnds, InitDies

LEMMA OtherConversion ==
  ASSUME NEW i \in Runners, ConversionOK(i), InitLockTable \/ InitCheckpointTable \/ InsertBlock
  PROVE  ConversionOK(i)'
<1>1. CASE InitLockTable \/ InitCheckpointTable
  BY <1>1, ConversionKept DEF InitLockTable, InitCheckpointTable
<1>2. CASE InsertBlock
  <2>1. /\ "timestamp" \in columns /\ UNCHANGED <<columns, dated, objects, recorded, runnerVars>>
    BY <1>2 DEF InsertBlock
  <2>2. TimesOK'
    BY <2>1, Zenon DEF ConversionOK, TimesOK
  <2>3. ~ ReadyToDrop
    BY <1>2, Zenon DEF InsertBlock, ReadyToDrop
  <2>4. FirstFileOK(i) /\ StartOK(i) /\ AppliedOK(i)
    BY Zenon DEF ConversionOK
  <2>5. FirstFileOK(i)' /\ StartOK(i)' /\ AppliedOK(i)'
    BY <2>1, <2>3, <2>4 DEF FirstFileOK, InFirst, StartOK, AppliedOK, runnerVars
  <2>6. QED
    BY <2>2, <2>5, Zenon DEF ConversionOK
<1>3. QED
  BY <1>1, <1>2

LEMMA ConversionStep ==
  ASSUME NEW i, Runners = {i}
  PROVE  MigrationsTypeInv /\ ConversionOK(i) /\ [Next]_vars => ConversionOK(i)'
<1> SUFFICES ASSUME MigrationsTypeInv, ConversionOK(i), [Next]_vars
             PROVE  ConversionOK(i)'
  OBVIOUS
<1>1. BlocksOK /\ RunnersOK /\ InitDbOK /\ FailedInFile /\ i \in Runners
  BY MigrationsTypeParts DEF MigrationsTypeInv
<1>2. CASE UNCHANGED vars
  <2>1. UNCHANGED <<blocksTable, objects, recorded, runnerVars>>
    BY <1>2 DEF vars, schema
  <2>2. QED
    BY <1>1, <2>1, ConversionKept
<1>3. CASE Run(i) \/ Restart(i)
  BY <1>1, <1>3, RunnerConversion, StatementConversion DEF Run
<1>4. CASE InitLockTable \/ InitCheckpointTable \/ InsertBlock
  BY <1>1, <1>4, OtherConversion
<1>5. CASE InitStep
  BY <1>1, <1>5, InitConversion
<1>6. QED
  BY <1>2, <1>3, <1>4, <1>5 DEF Next

LEMMA ConversionInit ==
  ASSUME NEW i, Runners = {i}
  PROVE  Init => ConversionOK(i)
<1> SUFFICES ASSUME Init PROVE ConversionOK(i)
  OBVIOUS
<1>1. TimesOK
  BY Zenon DEF Init, TimesOK
<1>2. pc[i] = "start" /\ current[i] = 1 /\ step[i] = 1 /\ recorded[1] = "none"
  BY DEF Init, Versions
<1>3. FirstFileOK(i) /\ StartOK(i) /\ AppliedOK(i)
  BY <1>2 DEF FirstFileOK, InFirst, StartOK, AppliedOK
<1>4. QED
  BY <1>1, <1>3, Zenon DEF ConversionOK

(* One runner converts the timestamps without losing the time of a block,  *)
(* wherever a statement of it fails or its process restarts, whatever      *)
(* initDatabase does and while another process inserts blocks.             *)
THEOREM ConversionKeepsTimestamps ==
  ASSUME NEW i, Runners = {i}
  PROVE  Spec => []TimestampsAreKept
<1>1. ConversionOK(i) => TimestampsAreKept
  BY Zenon DEF ConversionOK, TimesOK, TimestampsAreKept
<1>2. QED
  BY <1>1, MigrationsTypeInit, MigrationsTypeStep, ConversionInit, ConversionStep, PTL DEF Spec

(* What one runner has recorded as applied stays in place.                 *)
THEOREM AppliedStaysInPlace ==
  ASSUME NEW i, Runners = {i}
  PROVE  Spec => []AppliedIsInPlace
<1>1. ConversionOK(i) => AppliedIsInPlace
  <2> SUFFICES ASSUME ConversionOK(i), recorded[1] = "success"
               PROVE  /\ columns = {"timestamp"} /\ dated
                      /\ {"version", "idx_blocks_unique"} \subseteq objects
    BY Zenon DEF AppliedIsInPlace
  <2>1. AppliedOK(i) /\ TimesOK
    BY Zenon DEF ConversionOK
  <2>2. columns = {"timestamp"} /\ {"version", "idx_blocks_unique"} \subseteq objects
    BY <2>1 DEF AppliedOK
  <2>3. "timestamp" \in columns
    BY <2>2
  <2>4. QED
    BY <2>1, <2>2, <2>3, Zenon DEF TimesOK
<1>2. QED
  BY <1>1, MigrationsTypeInit, MigrationsTypeStep, ConversionInit, ConversionStep, PTL DEF Spec

-----------------------------------------------------------------------------
(* The reruns of initDatabase, beside any number of runners.               *)
Undisturbed == initDb.state \in {"running", "done"} /\ initDb.clean
Beyond(t) == initDb.try > t \/ (initDb.try = t /\ initDb.at > 1)

(* What the tries so far have made sure of.                                *)
TriesDone ==
  /\ Beyond(2) => "transactions" \in tables
  /\ Beyond(3) => "sync_status" \in tables
  /\ Beyond(4) => "idx_tx_block_log_unique" \in objects

RerunOK ==
  /\ Undisturbed => TriesDone
  /\ initDb.state = "done" => initDb.try = 6

(* Nothing that was created goes away.                                     *)
LEMMA TriesStayDone ==
  ASSUME TriesDone, UNCHANGED initDb, tables \subseteq tables',
         "idx_tx_block_log_unique" \in objects => "idx_tx_block_log_unique" \in objects'
  PROVE  TriesDone'
BY DEF TriesDone, Beyond

LEMMA StatementKeeps ==
  ASSUME RunnersOK, NEW i \in Runners, ExecuteStatement(i)
  PROVE  /\ tables \subseteq tables'
         /\ "idx_tx_block_log_unique" \in objects => "idx_tx_block_log_unique" \in objects'
<1> DEFINE s == Statement(i)
<1>1. current[i] \in 1..5 /\ step[i] \in 1..Len(Files[current[i]].up)
      /\ s = Files[current[i]].up[step[i]] /\ Possible(s) /\ Perform(s)
  BY FilesFacts, LengthsAreNumbers DEF ExecuteStatement, InFile, MoreStatements, Statement,
     File, RunnersOK
<1>2. s.op = "drop" => s.name \notin Protected
  <2>1. CASE current[i] = 1
    <3>1. step[i] \in 1..8 /\ s = FixCriticalIssues[step[i]]
      BY <1>1, <2>1, FilesFacts, LengthFacts
    <3>2. \A k \in 1..8 : FixCriticalIssues[k].op # "drop"
      <4>1. \A k \in 1..8 : k = 1 \/ k = 2 \/ k = 3 \/ k = 4 \/ k = 5 \/ k \in 6..8
        OBVIOUS
      <4>2. QED
        BY <4>1, FirstFile
    <3>3. FixCriticalIssues[step[i]].op # "drop"
      BY <3>1, <3>2, Zenon
    <3>4. QED
      BY <3>1, <3>3, Zenon
  <2>2. CASE current[i] # 1
    <3>1. current[i] \in 2..5
      BY <1>1, <2>2
    <3>2. Harmless(s)
      BY <1>1, <3>1, OtherFiles, Zenon
    <3>3. QED
      BY <3>2 DEF Harmless
  <2>3. QED
    BY <2>1, <2>2
<1> HIDE DEF s
<1>3. UNCHANGED schema \/ Effect(s)
  BY <1>1, PerformedOrNot
<1>4. CASE UNCHANGED schema
  BY <1>4 DEF schema
<1>5. CASE Effect(s)
  <2>1. tables \subseteq tables'
    BY <1>5 DEF Effect
  <2>2. QED
    BY <1>2, <1>5, <2>1, ProtectedKept DEF Protected
<1>6. QED
  BY <1>3, <1>4, <1>5

(* The steps of the others.                                                *)
LEMMA RerunBeside ==
  ASSUME RunnersOK, RerunOK,
         \/ \E i \in Runners : Run(i) \/ Restart(i)
         \/ InitLockTable \/ InitCheckpointTable \/ InsertBlock
  PROVE  RerunOK'
<1>1. UNCHANGED initDb
  BY DEF Run, Restart, Begin, SkipFile, ExecuteStatement, StatementFails, FileEnds, RunEnds,
     InitLockTable, InitCheckpointTable, InsertBlock
<1>2. /\ tables \subseteq tables'
      /\ "idx_tx_block_log_unique" \in objects => "idx_tx_block_log_unique" \in objects'
  <2>1. CASE UNCHANGED schema
    BY <2>1 DEF schema
  <2>2. CASE \E i \in Runners : ExecuteStatement(i)
    BY <2>2, StatementKeeps
  <2>3. CASE InitLockTable \/ InitCheckpointTable \/ InsertBlock
    BY <2>3 DEF InitLockTable, InitCheckpointTable, InsertBlock
  <2>4. QED
    BY <2>1, <2>2, <2>3 DEF Run, Restart, Begin, SkipFile, StatementFails, FileEnds, RunEnds
<1>3. TriesDone => TriesDone'
  BY <1>1, <1>2, TriesStayDone
<1>4. QED
  BY <1>1, <1>3, Zenon DEF RerunOK, Undisturbed

(* A try that is over has done its work, or found it done.                 *)
LEMMA TryOver ==
  ASSUME BlocksOK, InitDbOK, InitTryEnds, TriesDone
  PROVE  TriesDone'
<1>1. /\ Initialising /\ NextTry(initDb.clean) /\ UNCHANGED <<tables, objects>>
      /\ initDb.at <= Len(Try) => ~ Succeeds(Try[initDb.at])
  BY DEF InitTryEnds, schema
<1>2. /\ initDb.try \in 1..5 /\ initDb.at \in Nat \ {0} /\ "blocks" \in tables
      /\ initDb'.try = initDb.try + 1 /\ initDb'.at = 1
  <2>1. initDb.try \in 1..5 /\ initDb.at \in Nat \ {0} /\ initDb \in InitDb
    BY <1>1, TryType DEF InitDbOK
  <2>2. initDb'.try = initDb.try + 1 /\ initDb'.at = 1
    BY <1>1, <2>1 DEF NextTry, InitDb
  <2>3. "blocks" \in tables
    BY Zenon DEF BlocksOK
  <2>4. QED
    BY <2>1, <2>2, <2>3
<1>3. ASSUME initDb.at = 1, initDb.try = 2 PROVE "transactions" \in tables
  <2>1. ~ Succeeds(CreateTable("transactions"))
    BY <1>1, <1>3, TriesFacts DEF Try
  <2>2. QED
    BY <1>2, <2>1 DEF Succeeds, CreateTable, OnBlocks
<1>4. ASSUME initDb.at = 1, initDb.try = 3 PROVE "sync_status" \in tables
  <2>1. ~ Succeeds(CreateTable("sync_status"))
    BY <1>1, <1>4, TriesFacts DEF Try
  <2>2. QED
    BY <1>2, <2>1 DEF Succeeds, CreateTable, OnBlocks
<1>5. ASSUME initDb.at = 1, initDb.try = 4 PROVE "idx_tx_block_log_unique" \in objects
  <2>1. ~ Succeeds(Add("transactions", "idx_tx_block_log_unique"))
    BY <1>1, <1>5, TriesFacts DEF Try
  <2>2. "transactions" \in tables
    BY <1>2, <1>5 DEF TriesDone, Beyond
  <2>3. QED
    BY <2>1, <2>2 DEF Succeeds, Add
<1>6. QED
  BY <1>1, <1>2, <1>3, <1>4, <1>5 DEF TriesDone, Beyond

(* A statement that succeeds is the work of its try.                       *)
LEMMA TryGoesOn ==
  ASSUME InitDbOK, InitStatement, TriesDone
  PROVE  TriesDone'
<1>1. Initialising /\ initDb.at <= Len(Try) /\ initDb' = [initDb EXCEPT !.at = initDb.at + 1]
  BY DEF InitStatement
<1>2. /\ initDb.try \in 1..5 /\ initDb.at \in Nat \ {0}
      /\ initDb'.try = initDb.try /\ initDb'.at = initDb.at + 1
  <2>1. initDb \in InitDb /\ initDb.try \in 1..5 /\ initDb.at \in Nat \ {0}
    BY <1>1, TryType DEF InitDbOK
  <2>2. QED
    BY <1>1, <2>1 DEF InitDb
<1> DEFINE s == Try[initDb.at]
<1>3. s.op \in {"add", "create"} /\ Effect(s)
  BY TryStatement
<1>4. /\ initDb.try \in 2..4 => initDb.at = 1
      /\ initDb.try = 2 => s = CreateTable("transactions")
      /\ initDb.try = 3 => s = CreateTable("sync_status")
      /\ initDb.try = 4 => s = Add("transactions", "idx_tx_block_log_unique")
  <2>1. initDb.try \in 2..4 => Len(Try) = 1
    BY TriesFacts, Zenon DEF Try
  <2>2. initDb.try \in 2..4 => initDb.at = 1
    <3>1. ASSUME NEW at \in Nat \ {0}, at <= 1
          PROVE  at = 1
      BY <3>1
    <3>2. initDb.at <= Len(Try) /\ initDb.at \in Nat \ {0}
      BY <1>1, <1>2, Zenon
    <3>3. initDb.try \in 2..4 => initDb.at <= 1
      BY <2>1, <3>2, Zenon
    <3>4. QED
      BY <3>1, <3>2, <3>3, Zenon
  <2>3. initDb.try \in 2..4 => s = Tries[initDb.try][1]
    BY <2>2 DEF Try
  <2>4. QED
    BY <2>2, <2>3, TriesFacts
<1> HIDE DEF s
<1>5. /\ tables \subseteq tables' /\ objects \subseteq objects'
      /\ s.op = "create" => s.name \in tables'
      /\ s.op = "add" => s.name \in objects'
  BY <1>3 DEF Effect, ChangeBlocks
<1>6. /\ initDb.try = 2 => "transactions" \in tables'
      /\ initDb.try = 3 => "sync_status" \in tables'
      /\ initDb.try = 4 => "idx_tx_block_log_unique" \in objects'
  BY <1>4, <1>5 DEF CreateTable, Add, OnBlocks
<1>7. QED
  BY <1>2, <1>5, <1>6 DEF TriesDone, Beyond

LEMMA RerunInit ==
  ASSUME BlocksOK, InitDbOK, RerunOK, InitStep
  PROVE  RerunOK'
<1>1. CASE InitStarts
  <2>1. initDb'.state = "running" /\ initDb'.try = 1 /\ initDb'.at = 1
    BY <1>1, NewRun DEF InitStarts
  <2>2. TriesDone'
    BY <2>1 DEF TriesDone, Beyond
  <2>3. initDb'.state # "done"
    BY <2>1
  <2>4. QED
    BY <2>2, <2>3, Zenon DEF RerunOK
<1>2. CASE InitStatement
  <2>1. initDb \in InitDb /\ initDb.state = "running"
        /\ initDb' = [initDb EXCEPT !.at = initDb.at + 1]
    BY <1>2, TryType DEF InitStatement, InitDbOK
  <2>2. initDb'.state = "running" /\ initDb'.clean = initDb.clean
    BY <2>1 DEF InitDb
  <2>3. initDb'.state # "done" /\ initDb.state \in {"running", "done"}
    BY <2>1, <2>2
  <2>4. TriesDone => TriesDone'
    BY <1>2, TryGoesOn
  <2>5. QED
    BY <2>2, <2>3, <2>4, Zenon DEF RerunOK, Undisturbed
<1>3. ASSUME Initialising, NEW clean \in BOOLEAN, NextTry(clean)
      PROVE  /\ initDb'.state # "done" /\ initDb.state \in {"running", "done"}
             /\ initDb'.clean = clean
  <2> DEFINE t == initDb.try + 1
  <2>1. initDb \in InitDb /\ t \in 1..6 /\ initDb.state = "running"
    BY <1>3, TryType DEF InitDbOK
  <2>2. initDb' = AtTry(initDb, t, clean)
    BY <1>3 DEF NextTry, AtTry
  <2> HIDE DEF t
  <2>3. AtTry(initDb, t, clean).state = initDb.state
    BY <2>1, NewTry
  <2>4. AtTry(initDb, t, clean).clean = clean
    BY <2>1, TryClean
  <2>5. initDb'.state # "done" /\ initDb.state \in {"running", "done"}
    BY <2>1, <2>2, <2>3
  <2>6. QED
    BY <2>2, <2>4, <2>5, Zenon
<1>4. CASE InitTryEnds
  <2>1. Initialising /\ NextTry(initDb.clean) /\ initDb.clean \in BOOLEAN
    BY <1>4, TryType DEF InitTryEnds
  <2>2. /\ initDb'.state # "done" /\ initDb.state \in {"running", "done"}
        /\ initDb'.clean = initDb.clean
    BY <1>3, <2>1, Zenon
  <2>3. TriesDone => TriesDone'
    BY <1>4, TryOver
  <2>4. QED
    BY <2>2, <2>3, Zenon DEF RerunOK, Undisturbed
<1>5. CASE InitTryFails
  <2>1. initDb'.state # "done" /\ initDb'.clean = FALSE
    BY <1>3, <1>5, Zenon DEF InitTryFails
  <2>2. QED
    BY <2>1, Zenon DEF RerunOK, Undisturbed
<1>6. CASE InitEnds
  <2>1. /\ initDb \in InitDb /\ initDb.state = "running" /\ initDb.try = 6
        /\ initDb' = [initDb EXCEPT !.state = "done"]
        /\ UNCHANGED <<tables, objects>>
    BY <1>6, TriesFacts DEF InitEnds, InitDbOK, InitDb, schema
  <2>2. initDb'.try = initDb.try /\ initDb'.at = initDb.at /\ initDb'.clean = initDb.clean
    BY <2>1 DEF InitDb
  <2>3. TriesDone => TriesDone'
    <3>1. initDb'.try = initDb.try /\ initDb'.at = initDb.at
      BY <2>2
    <3>2. QED
      BY <2>1, <3>1 DEF TriesDone, Beyond
  <2>4. initDb'.try = 6 /\ initDb.state \in {"running", "done"}
    BY <2>1, <2>2
  <2>5. QED
    BY <2>2, <2>3, <2>4, Zenon DEF RerunOK, Undisturbed
<1>7. CASE InitDies
  <2>1. initDb'.state = "off"
    BY <1>7, NewRun DEF InitDies
  <2>2. initDb'.state # "done" /\ initDb'.state \notin {"running", "done"}
    BY <2>1
  <2>3. QED
    BY <2>2, Zenon DEF RerunOK, Undisturbed
<1>8. QED
  BY <1>1, <1>2, <1>4, <1>5, <1>6, <1>7 DEF InitStep

LEMMA RerunStep == MigrationsTypeInv /\ RerunOK /\ [Next]_vars => RerunOK'
<1> SUFFICES ASSUME MigrationsTypeInv, RerunOK, [Next]_vars
             PROVE  RerunOK'
  OBVIOUS
<1>1. BlocksOK /\ RunnersOK /\ InitDbOK
  BY MigrationsTypeParts DEF MigrationsTypeInv
<1>2. CASE UNCHANGED vars
  <2>1. UNCHANGED <<tables, objects, initDb>>
    BY <1>2 DEF vars, schema
  <2>2. TriesDone => TriesDone'
    BY <2>1, TriesStayDone
  <2>3. QED
    BY <2>1, <2>2, Zenon DEF RerunOK, Undisturbed
<1>3. CASE InitStep
  BY <1>1, <1>3, RerunInit
<1>4. CASE \/ \E i \in Runners : Run(i) \/ Restart(i)
           \/ InitLockTable \/ InitCheckpointTable \/ InsertBlock
  BY <1>1, <1>4, RerunBeside
<1>5. QED
  BY <1>2, <1>3, <1>4 DEF Next

LEMMA RerunStart == Init => RerunOK
<1> SUFFICES ASSUME Init PROVE RerunOK
  OBVIOUS
<1>1. initDb.state = "off"
  BY NewRun DEF Init
<1>2. initDb.state # "done" /\ initDb.state \notin {"running", "done"}
  BY <1>1
<1>3. QED
  BY <1>2, Zenon DEF RerunOK, Undisturbed

(* A run of initDatabase that no fault disturbs makes up for what earlier  *)
(* runs left undone, beside any number of runners and after any faults.    *)
THEOREM UndisturbedRerunCompletes == Spec => []RerunCompletes
<1>1. RerunOK => RerunCompletes
  <2> SUFFICES ASSUME RerunOK, initDb.state = "done", initDb.clean
               PROVE  /\ {"transactions", "sync_status"} \subseteq tables
                      /\ "idx_tx_block_log_unique" \in objects
    BY Zenon DEF RerunCompletes
  <2>1. initDb.state \in {"running", "done"}
    OBVIOUS
  <2>2. TriesDone /\ initDb.try = 6
    BY <2>1, Zenon DEF RerunOK, Undisturbed
  <2>3. QED
    BY <2>2 DEF TriesDone, Beyond
<1>2. QED
  BY <1>1, MigrationsTypeInit, MigrationsTypeStep, RerunStart, RerunStep, PTL DEF Spec

-----------------------------------------------------------------------------
(* Part 2: Lifecycle.                                                      *)
USE HealthAssumption, SignalAssumption

-----------------------------------------------------------------------------
(* Type correctness of the process and its health server.  The flags are   *)
(* apart from the numbers: no prover does both.                            *)
FlagsOK ==
  /\ dbUp \in BOOLEAN /\ rpcUp \in BOOLEAN
  /\ pool \in {"open", "replaced", "closing", "lost"} /\ listening \in BOOLEAN
  /\ alive \in BOOLEAN /\ installed \in BOOLEAN
  /\ loop \in {"check", "saving", "ended"}
  /\ manager \in {"idle", "Health Server", "Sync Loop", "Database Pool"}
  /\ ~alive => ~listening /\ loop = "ended"

RequestsOK ==
  /\ cache \in [status : Statuses, age : 0..CacheTtl]
  /\ blockCache \in [number : {NoBlock} \cup Heights, age : 0..ClientTtl]
  /\ place \in [Requests -> {"idle", "database", "rpc", "sync", "chain", "failing"}]
  /\ age \in [Requests -> 0..CacheTtl]
  /\ seen \in [Requests -> {NoBlock} \cup Heights]

EnvironmentOK ==
  /\ head \in Heights /\ localMax \in {NoBlock} \cup 0..head
  /\ dbAge \in 0..CacheTtl /\ rpcAge \in 0..(CacheTtl + ClientTtl)

SignalsOK == signals \in 0..MaxSignals

LEMMA LifecycleTypeParts == LifecycleTypeOK <=> FlagsOK /\ RequestsOK /\ EnvironmentOK /\ SignalsOK
BY Zenon DEF LifecycleTypeOK, HealthTypeOK, FlagsOK, RequestsOK, EnvironmentOK, SignalsOK

(* process.exit leaves nothing of the process.                             *)
LEMMA ExitParts ==
  ASSUME LifecycleTypeOK, Exit
  PROVE  FlagsOK' /\ RequestsOK' /\ EnvironmentOK'
<1>1. FlagsOK'
  BY LifecycleTypeParts, Zenon DEF Exit, FlagsOK, environment, nodeVars, databaseVars
<1>2. RequestsOK'
  <2>1. 0 \in 0..CacheTtl /\ CacheTtl \in 0..CacheTtl /\ ClientTtl \in 0..ClientTtl
    OBVIOUS
  <2>2. /\ cache' = NoAnswer /\ blockCache' = NoNumber
        /\ place' = [r \in Requests |-> "idle"]
        /\ age' = [r \in Requests |-> 0] /\ seen' = [r \in Requests |-> NoBlock]
    BY DEF Exit
  <2>3. QED
    BY <2>1, <2>2 DEF RequestsOK, NoAnswer, NoNumber, Statuses
<1>3. EnvironmentOK'
  BY LifecycleTypeParts, Zenon DEF Exit, EnvironmentOK, environment, nodeVars, databaseVars
<1>4. QED
  BY <1>1, <1>2, <1>3

LEMMA SendSignalParts ==
  ASSUME SignalsOK, SendSignal
  PROVE  SignalsOK'
BY DEF SendSignal, SignalsOK

(* What the client's cache holds is a number of the chain.                 *)
LEMMA AskedType ==
  ASSUME RequestsOK, EnvironmentOK, GetBlockNumber
  PROVE  blockCache' \in [number : {NoBlock} \cup Heights, age : 0..ClientTtl]
<1>1. 0 \in 0..ClientTtl
  OBVIOUS
<1>2. QED
  BY <1>1 DEF GetBlockNumber, RequestsOK, EnvironmentOK

LEMMA NotAskedType ==
  ASSUME RequestsOK, UNCHANGED blockCache
  PROVE  blockCache' \in [number : {NoBlock} \cup Heights, age : 0..ClientTtl]
BY DEF RequestsOK

LEMMA ClientType ==
  ASSUME RequestsOK, EnvironmentOK, NEW r \in Requests, Healthz(r) \/ Metrics
  PROVE  blockCache' \in [number : {NoBlock} \cup Heights, age : 0..ClientTtl]
<1>1. GetBlockNumber \/ UNCHANGED blockCache
  BY Zenon DEF Healthz, Metrics, BeginChecks, CheckDatabase, CheckRpc, CheckSync, ReadLocalMax,
     ReadChainMax, ChecksFailed, GetBlockNumberFails
<1>2. QED
  BY <1>1, AskedType, NotAskedType

(* A step of a request: its place, its age, and what it has read.          *)
PlacesOK ==
  /\ cache \in [status : Statuses, age : 0..CacheTtl]
  /\ place \in [Requests -> {"idle", "database", "rpc", "sync", "chain", "failing"}]
  /\ age \in [Requests -> 0..CacheTtl]
  /\ seen \in [Requests -> {NoBlock} \cup Heights]

LEMMA RespondParts ==
  ASSUME PlacesOK, NEW r \in Requests, NEW status \in Statuses,
         Respond(r, status)
  PROVE  PlacesOK'
<1>1. age[r] \in 0..CacheTtl /\ 0 \in 0..CacheTtl
  BY DEF PlacesOK
<1>2. QED
  BY <1>1 DEF PlacesOK, Respond, Stamp

LEMMA HealthzParts ==
  ASSUME PlacesOK, EnvironmentOK, NEW r \in Requests, Healthz(r)
  PROVE  PlacesOK'
<1>1. \A fine : Status(fine) \in Statuses
  BY DEF Status, Statuses
<1>2. "healthy" \in Statuses /\ "unhealthy" \in Statuses
  BY DEF Statuses
<1>3. CASE BeginChecks(r) \/ CheckDatabase(r) \/ CheckRpc(r)
  BY <1>3 DEF BeginChecks, CheckDatabase, CheckRpc, NextCheck, PlacesOK
<1>4. CASE ReadLocalMax(r)
  <2>1. CASE ReadFirst(r, localMax)
    <3>1. localMax \in {NoBlock} \cup Heights
      BY DEF EnvironmentOK, Heights
    <3>2. QED
      BY <2>1, <3>1 DEF ReadFirst, PlacesOK
  <2>2. CASE SyncCheckFails(r)
    BY <1>2, <2>2, RespondParts DEF SyncCheckFails
  <2>3. QED
    BY <1>4, <2>1, <2>2 DEF ReadLocalMax
<1>5. CASE ReadChainMax(r)
  BY <1>1, <1>2, <1>5, RespondParts DEF ReadChainMax, SyncCheckFails
<1>6. CASE ChecksFailed(r)
  BY <1>2, <1>6, RespondParts DEF ChecksFailed
<1>7. QED
  BY <1>3, <1>4, <1>5, <1>6 DEF Healthz, CheckSync

LEMMA ServeParts ==
  ASSUME RequestsOK, EnvironmentOK, NEW r \in Requests, Serve(r)
  PROVE  RequestsOK'
<1>1. PlacesOK
  BY DEF RequestsOK, PlacesOK
<1>2. PlacesOK'
  BY <1>1, HealthzParts DEF Serve
<1>3. blockCache' \in [number : {NoBlock} \cup Heights, age : 0..ClientTtl]
  BY ClientType DEF Serve
<1>4. QED
  BY <1>2, <1>3 DEF RequestsOK, PlacesOK

LEMMA MetricsParts ==
  ASSUME RequestsOK, EnvironmentOK, ServeMetrics
  PROVE  RequestsOK'
<1>1. GetBlockNumber /\ UNCHANGED <<cache, place, age, seen>>
  BY DEF ServeMetrics, Metrics
<1>2. blockCache' \in [number : {NoBlock} \cup Heights, age : 0..ClientTtl]
  BY <1>1, AskedType
<1>3. QED
  BY <1>1, <1>2 DEF RequestsOK

LEMMA OlderType ==
  ASSUME NEW oldest \in Nat, NEW n \in 0..oldest
  PROVE  Older(n, oldest) \in 0..oldest
BY DEF Older

LEMMA TickParts ==
  ASSUME RequestsOK, EnvironmentOK, Tick
  PROVE  RequestsOK' /\ EnvironmentOK'
<1>1. /\ cache' = [cache EXCEPT !.age = Older(cache.age, CacheTtl)]
      /\ age' = [r \in Requests |->
                   IF place[r] = "idle" THEN 0 ELSE Older(age[r], CacheTtl)]
      /\ dbAge' \in {0, Older(dbAge, CacheTtl)}
      /\ rpcAge' \in {0, Older(rpcAge, CacheTtl + ClientTtl)}
      /\ UNCHANGED <<head, localMax, place, seen>>
  BY DEF Tick
<1>2. 0 \in 0..CacheTtl /\ CacheTtl + ClientTtl \in Nat /\ 0 \in 0..(CacheTtl + ClientTtl)
  OBVIOUS
<1>3. /\ Older(cache.age, CacheTtl) \in 0..CacheTtl
      /\ Older(dbAge, CacheTtl) \in 0..CacheTtl
      /\ Older(rpcAge, CacheTtl + ClientTtl) \in 0..(CacheTtl + ClientTtl)
      /\ \A r \in Requests : Older(age[r], CacheTtl) \in 0..CacheTtl
  BY <1>2, OlderType DEF RequestsOK, EnvironmentOK
<1>4. cache' \in [status : Statuses, age : 0..CacheTtl]
  BY <1>1, <1>3 DEF RequestsOK
<1>5. age' \in [Requests -> 0..CacheTtl]
  BY <1>1, <1>2, <1>3
<1>6. blockCache' \in [number : {NoBlock} \cup Heights, age : 0..ClientTtl]
  BY DEF Tick, NoNumber, RequestsOK
<1>7. QED
  BY <1>1, <1>2, <1>3, <1>4, <1>5, <1>6 DEF RequestsOK, EnvironmentOK

LEMMA EnvironmentParts ==
  ASSUME EnvironmentOK, NodeMines \/ NodeToggles \/ DatabaseToggles
  PROVE  EnvironmentOK'
<1>1. 0 \in 0..CacheTtl /\ 0 \in 0..(CacheTtl + ClientTtl)
  OBVIOUS
<1>2. CASE NodeMines
  BY <1>2 DEF NodeMines, EnvironmentOK, Heights, databaseVars
<1>3. CASE NodeToggles
  BY <1>1, <1>3 DEF NodeToggles, EnvironmentOK, databaseVars
<1>4. CASE DatabaseToggles
  BY <1>1, <1>4 DEF DatabaseToggles, EnvironmentOK, nodeVars
<1>5. QED
  BY <1>2, <1>3, <1>4

LEMMA CommitParts ==
  ASSUME EnvironmentOK, Commit
  PROVE  EnvironmentOK'
<1>1. localMax' \in BatchEnds /\ UNCHANGED <<head, rpcAge, dbAge>>
  BY DEF Commit, ProcessUnchangedBut, nodeVars
<1>2. QED
  BY <1>1 DEF BatchEnds, EnvironmentOK, NoBlock, Heights

(* Flags: what the steps of the loop and of the handlers do to them.       *)
LEMMA FlagsStep ==
  ASSUME FlagsOK, LifecycleNext
  PROVE  FlagsOK' \/ Exit
<1> USE DEF environment, nodeVars, databaseVars, processVars
<1>1. CASE \E r \in Requests : Serve(r)
  <2>1. UNCHANGED <<environment, pool, listening, processVars>>
    BY <1>1 DEF Serve
  <2>2. QED
    BY <2>1, Zenon DEF FlagsOK
<1>2. CASE Time \/ Environment
  BY <1>2, Zenon DEF Time, Tick, Environment, NodeMines, NodeToggles, DatabaseToggles,
     FlagsOK
<1>10. CASE ServeMetrics
  BY <1>10, Zenon DEF ServeMetrics, FlagsOK
<1>11. CASE AttemptRecovery
  BY <1>11, Zenon DEF AttemptRecovery, FlagsOK
<1>3. CASE Loop
  <2> USE DEF ProcessUnchangedBut, Turn
  <2>2. CASE InitialSyncEnds \/ PollingEnds \/ BeginSave
    BY <2>2, Zenon DEF InitialSyncEnds, PollingEnds, BeginSave, FlagsOK
  <2>3. CASE FetchFails \/ SaveFails
    BY <2>3, Zenon DEF FetchFails, SaveFails, AfterError, MainFails, FlagsOK
  <2>4. CASE Commit
    BY <2>4, Zenon DEF Commit, FlagsOK
  <2>5. QED
    BY <1>3, <2>2, <2>3, <2>4 DEF Loop
<1>4. CASE StartShutdown /\ (UNCHANGED pool \/ pool' = "closing")
  BY <1>4, Zenon DEF StartShutdown, FlagsOK
<1>5. CASE HealthServerStopped \/ CloseDatabasePool
  BY <1>5, Zenon DEF HealthServerStopped, CloseDatabasePool, NextHandler, FlagsOK
<1>6. CASE StatisticsFail \/ PoolDrained \/ Die
  BY <1>6, Zenon DEF StatisticsFail, HandlerFails, PoolDrained, Die
<1>7. CASE Stop
  <2>1. CASE pool' = "closing" /\ installed /\ StartShutdown
    BY <1>4, <2>1, Zenon
  <2>2. CASE pool' = "closing" /\ UNCHANGED <<alive, installed, loop, manager, listening,
                                                 requestVars, environment>>
    BY <2>2, Zenon DEF FlagsOK
  <2>3. QED
    BY <1>7, <2>1, <2>2, Zenon DEF Stop
<1>8. CASE StopByUsr2
  BY <1>4, <1>8, Zenon DEF StopByUsr2, FlagsOK
<1>9. QED
  BY <1>1, <1>2, <1>3, <1>5, <1>6, <1>7, <1>8, <1>10, <1>11 DEF LifecycleNext, ShutdownStep

(* The requests change by their own steps, by time and by the exit only,   *)
(* the environment by itself and by the commit of a batch.                 *)
LEMMA WhatSteps ==
  ASSUME LifecycleNext
  PROVE  /\ \/ \E r \in Requests : Serve(r)
            \/ ServeMetrics
            \/ Time
            \/ Exit
            \/ UNCHANGED requestVars
         /\ \/ Time
            \/ Environment
            \/ Commit
            \/ UNCHANGED environment
         /\ SendSignal \/ UNCHANGED signals
<1> USE DEF environment, nodeVars, databaseVars, processVars, requestVars
<1>1. CASE ServeMetrics \/ \E r \in Requests : Serve(r)
  BY <1>1, Zenon DEF Serve, ServeMetrics
<1>8. CASE AttemptRecovery
  BY <1>8, Zenon DEF AttemptRecovery
<1>2. CASE Time \/ Environment
  BY <1>2, Zenon DEF Time, Environment
<1>3. CASE Loop
  <2> USE DEF ProcessUnchangedBut, Turn
  <2>1. CASE InitialSyncEnds \/ PollingEnds \/ BeginSave
    BY <2>1, Zenon DEF InitialSyncEnds, PollingEnds, BeginSave
  <2>2. CASE FetchFails \/ SaveFails
    BY <2>2, Zenon DEF FetchFails, SaveFails, AfterError, MainFails, Exit
  <2>3. CASE Commit
    BY <2>3, Zenon DEF Commit
  <2>4. QED
    BY <1>3, <2>1, <2>2, <2>3 DEF Loop
<1>4. CASE ShutdownStep
  BY <1>4, Zenon DEF ShutdownStep, HealthServerStopped, CloseDatabasePool, NextHandler,
     StatisticsFail, HandlerFails, Exit
<1>5. CASE PoolDrained \/ Die
  BY <1>5, Zenon DEF PoolDrained, Die, Exit
<1>6. CASE Stop \/ StopByUsr2
  BY <1>6, Zenon DEF Stop, StopByUsr2, StartShutdown, Exit
<1>7. QED
  BY <1>1, <1>2, <1>3, <1>4, <1>5, <1>6, <1>8 DEF LifecycleNext

LEMMA LifecycleTypeStep ==
  ASSUME LifecycleTypeOK, [LifecycleNext]_lifecycleVars
  PROVE  LifecycleTypeOK'
<1>1. CASE UNCHANGED lifecycleVars
  <2>1. FlagsOK' /\ SignalsOK'
    BY <1>1, LifecycleTypeParts, Zenon DEF lifecycleVars, environment, nodeVars, databaseVars,
       processVars, FlagsOK, SignalsOK
  <2>2. RequestsOK' /\ EnvironmentOK'
    BY <1>1, LifecycleTypeParts, Zenon DEF lifecycleVars, environment, nodeVars, databaseVars,
       requestVars, RequestsOK, EnvironmentOK
  <2>3. QED
    BY <2>1, <2>2, LifecycleTypeParts, PTL
<1>2. CASE LifecycleNext
  <2>0. FlagsOK /\ RequestsOK /\ EnvironmentOK /\ SignalsOK
    BY LifecycleTypeParts
  <2>1. FlagsOK'
    BY <1>2, <2>0, FlagsStep, ExitParts
  <2>2. SignalsOK'
    BY <1>2, <2>0, WhatSteps, SendSignalParts DEF SignalsOK
  <2>3. RequestsOK'
    <3>1. CASE UNCHANGED requestVars
      BY <2>0, <3>1 DEF requestVars, RequestsOK
    <3>2. QED
      BY <1>2, <2>0, <3>1, WhatSteps, ServeParts, MetricsParts, TickParts, ExitParts DEF Time
  <2>4. EnvironmentOK'
    <3>1. CASE UNCHANGED environment
      BY <2>0, <3>1 DEF environment, nodeVars, databaseVars, EnvironmentOK
    <3>2. QED
      BY <1>2, <2>0, <3>1, WhatSteps, TickParts, EnvironmentParts, CommitParts
         DEF Time, Environment
  <2>5. QED
    BY <2>1, <2>2, <2>3, <2>4, LifecycleTypeParts, PTL
<1>3. QED
  BY <1>1, <1>2

LEMMA LifecycleTypeInit ==
  ASSUME LifecycleInit
  PROVE  LifecycleTypeOK
<1>1. FlagsOK
  BY Zenon DEF LifecycleInit, HealthInit, FlagsOK
<1>2. RequestsOK
  <2>1. 0 \in 0..CacheTtl /\ CacheTtl \in 0..CacheTtl /\ ClientTtl \in 0..ClientTtl
    OBVIOUS
  <2>2. QED
    BY <2>1 DEF LifecycleInit, HealthInit, RequestsOK, NoAnswer, NoNumber, Statuses
<1>3. EnvironmentOK /\ SignalsOK
  BY DEF LifecycleInit, EnvironmentOK, SignalsOK
<1>4. QED
  BY <1>1, <1>2, <1>3, LifecycleTypeParts

(* The process and its health server keep their types; a dead process does *)
(* not listen.                                                             *)
THEOREM LifecycleTypeCorrect == LifecycleSpec => []LifecycleTypeOK
BY LifecycleTypeInit, LifecycleTypeStep, PTL DEF LifecycleSpec

-----------------------------------------------------------------------------
(* What "healthy" says.  A request that has passed the first check is at   *)
(* least as old as the last answer of the database, and so is what it      *)
(* stores; the node may have answered earlier than that, by less than the  *)
(* life time of the client's cache.                                        *)
FromDatabase(n) == dbAge <= n
FromNode(n) == n < CacheTtl => rpcAge < n + ClientTtl

RecentOK ==
  /\ dbUp => dbAge = 0
  /\ rpcUp => rpcAge = 0
  /\ Kept => rpcAge <= blockCache.age
  /\ \A r \in Requests :
       /\ place[r] \in {"rpc", "sync", "chain"} => FromDatabase(age[r])
       /\ place[r] \in {"sync", "chain"} => FromNode(age[r])
  /\ cache.status = "healthy" => FromDatabase(cache.age) /\ FromNode(cache.age)

(* localMax only grows: what a probe has read is not above it.             *)
LagOK == \A r \in Requests : place[r] = "chain" => seen[r] <= localMax

LEMMA GetBlockNumberIsRecent ==
  ASSUME RequestsOK, EnvironmentOK, RecentOK, GetBlockNumber, UNCHANGED rpcAge
  PROVE  rpcAge < ClientTtl /\ (Kept => rpcAge <= blockCache.age)'
<1>1. rpcAge \in Nat /\ blockCache.age \in 0..ClientTtl
  BY DEF RequestsOK, EnvironmentOK
<1>2. QED
  BY <1>1 DEF GetBlockNumber, Kept, RecentOK

LEMMA ServeKeepsRecent ==
  ASSUME RequestsOK, EnvironmentOK, RecentOK, LagOK,
         NEW r \in Requests, Serve(r)
  PROVE  RecentOK' /\ LagOK'
<1>0. /\ UNCHANGED <<head, localMax, dbUp, rpcUp, dbAge, rpcAge>>
      /\ \A q \in Requests : age[q] \in 0..CacheTtl
      /\ dbAge \in 0..CacheTtl /\ rpcAge \in Nat
  BY DEF Serve, environment, nodeVars, databaseVars, RequestsOK, EnvironmentOK
<1>a. GetBlockNumber \/ UNCHANGED blockCache
  BY Zenon DEF Serve, Healthz, BeginChecks, CheckDatabase, CheckRpc, CheckSync, ReadLocalMax,
     ReadChainMax, ChecksFailed, GetBlockNumberFails
<1>b. (Kept => rpcAge <= blockCache.age)'
  BY <1>0, <1>a, GetBlockNumberIsRecent DEF RecentOK, Kept
<1> USE DEF FromDatabase, FromNode
<1>1. CASE BeginChecks(r)
  BY <1>0, <1>1, <1>b DEF BeginChecks, RequestsOK, RecentOK, LagOK
<1>2. CASE CheckDatabase(r)
  BY <1>0, <1>2, <1>b DEF CheckDatabase, QueryMayAnswer, NextCheck, RequestsOK, RecentOK, LagOK
<1>3. CASE CheckRpc(r)
  <2>1. GetBlockNumber => FromNode(age[r])
    BY <1>0, GetBlockNumberIsRecent
  <2>2. QED
    BY <1>0, <1>3, <1>b, <2>1 DEF CheckRpc, NextCheck, RequestsOK, RecentOK, LagOK
<1>4. CASE ReadFirst(r, localMax)
  <2>1. localMax <= localMax
    BY DEF EnvironmentOK, NoBlock, Heights
  <2>2. QED
    BY <1>0, <1>4, <1>b, <2>1 DEF ReadFirst, RequestsOK, RecentOK, LagOK
<1>5. ASSUME NEW status \in Statuses, Respond(r, status),
             place[r] \in {"sync", "chain"} \/ status = "unhealthy"
      PROVE  RecentOK' /\ LagOK'
  <2>1. /\ cache'.status = status /\ cache'.age = age[r]
        /\ place'[r] = "idle"
    BY <1>5 DEF Respond, Stamp, RequestsOK
  <2>2. \A q \in Requests : q # r =>
          place'[q] = place[q] /\ age'[q] = age[q] /\ seen'[q] = seen[q]
    BY <1>5 DEF Respond, RequestsOK
  <2>3. LagOK'
    BY <1>0, <2>1, <2>2 DEF LagOK
  <2>4. status = "healthy" => FromDatabase(age[r]) /\ FromNode(age[r])
    BY <1>5 DEF RecentOK
  <2>5. (cache.status = "healthy" => FromDatabase(cache.age) /\ FromNode(cache.age))'
    BY <1>0, <2>1, <2>4
  <2>6. QED
    BY <1>0, <1>b, <2>1, <2>2, <2>3, <2>5 DEF RecentOK
<1>6. CASE ReadLocalMax(r) \/ ReadChainMax(r)
  <2>1. \A fine : Status(fine) \in Statuses
    BY DEF Status, Statuses
  <2>2. "healthy" \in Statuses
    BY DEF Statuses
  <2>3. QED
    BY <1>4, <1>5, <1>6, <2>1, <2>2 DEF ReadLocalMax, ReadChainMax, SyncCheckFails
<1>7. CASE ChecksFailed(r)
  <2>1. "unhealthy" \in Statuses
    BY DEF Statuses
  <2>2. QED
    BY <1>5, <1>7, <2>1 DEF ChecksFailed
<1>8. QED
  BY <1>1, <1>2, <1>3, <1>6, <1>7 DEF Serve, Healthz, CheckSync

LEMMA MetricsKeepRecent ==
  ASSUME RequestsOK, EnvironmentOK, RecentOK, LagOK, ServeMetrics
  PROVE  RecentOK' /\ LagOK'
<1>1. /\ GetBlockNumber
      /\ UNCHANGED <<cache, place, age, seen, localMax, dbUp, rpcUp, dbAge, rpcAge>>
  BY DEF ServeMetrics, Metrics, environment, nodeVars, databaseVars
<1>2. (Kept => rpcAge <= blockCache.age)'
  BY <1>1, GetBlockNumberIsRecent
<1>3. QED
  BY <1>1, <1>2 DEF RecentOK, LagOK, FromDatabase, FromNode

LEMMA TimeKeepsRecent ==
  ASSUME RequestsOK, EnvironmentOK, RecentOK, LagOK, Tick
  PROVE  RecentOK' /\ LagOK'
<1>1. /\ cache' = [cache EXCEPT !.age = Older(cache.age, CacheTtl)]
      /\ age' = [r \in Requests |->
                   IF place[r] = "idle" THEN 0 ELSE Older(age[r], CacheTtl)]
      /\ dbAge' = IF dbUp THEN 0 ELSE Older(dbAge, CacheTtl)
      /\ rpcAge' = IF rpcUp THEN 0 ELSE Older(rpcAge, CacheTtl + ClientTtl)
      /\ blockCache' = IF blockCache.age + 1 < ClientTtl
                         THEN [blockCache EXCEPT !.age = @ + 1] ELSE NoNumber
      /\ UNCHANGED <<localMax, dbUp, rpcUp, place, seen>>
  BY DEF Tick
<1>2. /\ dbAge \in 0..CacheTtl /\ rpcAge \in 0..(CacheTtl + ClientTtl)
      /\ cache.age \in 0..CacheTtl /\ blockCache.age \in 0..ClientTtl
      /\ \A r \in Requests : age[r] \in 0..CacheTtl
  BY DEF RequestsOK, EnvironmentOK
<1>3. /\ cache'.age = Older(cache.age, CacheTtl) /\ cache'.status = cache.status
      /\ \A r \in Requests : place[r] # "idle" => age'[r] = Older(age[r], CacheTtl)
  BY <1>1 DEF RequestsOK
<1>4. LagOK'
  BY <1>1 DEF LagOK
<1>5. ASSUME NEW n \in 0..CacheTtl
      PROVE  /\ FromDatabase(n) => dbAge' <= Older(n, CacheTtl)
             /\ FromNode(n) => (Older(n, CacheTtl) < CacheTtl =>
                                  rpcAge' < Older(n, CacheTtl) + ClientTtl)
  BY <1>1, <1>2 DEF Older, FromDatabase, FromNode
<1>6. (Kept => rpcAge <= blockCache.age)'
  <2>1. CASE blockCache.age + 1 < ClientTtl
    <3>1. blockCache'.age = blockCache.age + 1
      BY <1>1, <2>1 DEF RequestsOK
    <3>2. rpcAge <= blockCache.age
      BY <1>2, <2>1 DEF RecentOK, Kept
    <3>3. rpcAge' <= rpcAge + 1
      BY <1>1, <1>2 DEF Older
    <3>4. rpcAge' \in Int
      BY <1>1, <1>2 DEF Older
    <3>5. QED
      BY <1>2, <3>1, <3>2, <3>3, <3>4
  <2>2. CASE ~(blockCache.age + 1 < ClientTtl)
    <3>1. blockCache'.age = ClientTtl
      BY <1>1, <2>2 DEF NoNumber
    <3>2. QED
      BY <3>1 DEF Kept
  <2>3. QED
    BY <2>1, <2>2
<1>7. QED
  BY <1>1, <1>2, <1>3, <1>4, <1>5, <1>6 DEF RecentOK, FromDatabase, FromNode

(* The environment may bring an answer back, and a commit raises localMax. *)
LEMMA EnvironmentKeepsRecent ==
  ASSUME RequestsOK, EnvironmentOK, RecentOK, LagOK, UNCHANGED requestVars,
         Environment \/ Commit \/ UNCHANGED environment
  PROVE  RecentOK' /\ LagOK'
<1>0. /\ UNCHANGED <<cache, blockCache, place, age, seen>>
      /\ \A r \in Requests : age[r] \in 0..CacheTtl /\ seen[r] \in {NoBlock} \cup Heights
      /\ cache.age \in 0..CacheTtl /\ blockCache.age \in 0..ClientTtl
      /\ dbAge \in Nat /\ rpcAge \in Nat
  BY DEF requestVars, RequestsOK, EnvironmentOK
<1>1. /\ UNCHANGED dbAge \/ dbAge' = 0
      /\ UNCHANGED rpcAge \/ rpcAge' = 0
      /\ dbUp' => UNCHANGED <<dbUp, dbAge>> \/ dbAge' = 0
      /\ rpcUp' => UNCHANGED <<rpcUp, rpcAge>> \/ rpcAge' = 0
  BY Zenon DEF Environment, NodeMines, NodeToggles, DatabaseToggles, Commit,
     ProcessUnchangedBut, environment, nodeVars, databaseVars
<1>2. localMax \in Int /\ localMax' \in Int /\ localMax <= localMax'
  <2>1. CASE UNCHANGED localMax
    BY <2>1 DEF EnvironmentOK, Heights, NoBlock
  <2>2. CASE Commit
    BY <2>2 DEF Commit, ProcessUnchangedBut, BatchEnds, EnvironmentOK, Heights, NoBlock
  <2>3. QED
    BY <2>1, <2>2 DEF Environment, NodeMines, NodeToggles, DatabaseToggles,
       environment, databaseVars
<1>3. LagOK'
  BY <1>0, <1>2 DEF LagOK, NoBlock, Heights
<1>4. (dbUp => dbAge = 0)' /\ (rpcUp => rpcAge = 0)'
  BY <1>1 DEF RecentOK
<1>5. /\ \A n \in 0..CacheTtl : dbAge <= n => dbAge' <= n
      /\ \A n \in 0..ClientTtl : rpcAge <= n => rpcAge' <= n
      /\ \A n \in 0..CacheTtl : rpcAge < n + ClientTtl => rpcAge' < n + ClientTtl
  BY <1>0, <1>1
<1>6. QED
  BY <1>0, <1>4, <1>3, <1>5 DEF RecentOK, Kept, FromDatabase, FromNode

LEMMA ExitKeepsRecent ==
  ASSUME RecentOK, Exit
  PROVE  RecentOK' /\ LagOK'
BY DEF Exit, RecentOK, LagOK, NoAnswer, NoNumber, Kept, environment, nodeVars, databaseVars

LifecycleInv == LifecycleTypeOK /\ RecentOK /\ LagOK

LEMMA LifecycleInvStep ==
  ASSUME LifecycleInv, [LifecycleNext]_lifecycleVars
  PROVE  LifecycleInv'
<1>0. LifecycleTypeOK' /\ RequestsOK /\ EnvironmentOK
  BY LifecycleTypeStep, LifecycleTypeParts DEF LifecycleInv
<1>1. CASE UNCHANGED lifecycleVars
  BY <1>0, <1>1 DEF lifecycleVars, environment, nodeVars, databaseVars, requestVars,
     LifecycleInv, RecentOK, LagOK, Kept, FromDatabase, FromNode
<1>2. CASE LifecycleNext
  <2>1. CASE Time \/ Exit \/ ServeMetrics \/ \E r \in Requests : Serve(r)
    BY <1>0, <2>1, TimeKeepsRecent, ExitKeepsRecent, ServeKeepsRecent, MetricsKeepRecent
       DEF LifecycleInv, Time
  <2>2. CASE UNCHANGED requestVars /\ ~Time
    BY <1>0, <1>2, <2>2, WhatSteps, EnvironmentKeepsRecent DEF LifecycleInv
  <2>3. QED
    BY <1>2, <2>1, <2>2, WhatSteps
<1>3. QED
  BY <1>1, <1>2

LEMMA LifecycleInvInit ==
  ASSUME LifecycleInit
  PROVE  LifecycleInv
<1>1. RecentOK /\ LagOK
  BY DEF LifecycleInit, HealthInit, RecentOK, LagOK, NoAnswer, NoNumber, Kept
<1>2. QED
  BY <1>1, LifecycleTypeInit DEF LifecycleInv

(* A cached "healthy" that is still served: the database answered within   *)
(* the life time of the cache, the node within those of the two caches,    *)
(* for any number of overlapping requests and any life times.              *)
THEOREM CachedHealthIsRecent == LifecycleSpec => []HealthyIsRecent
<1>1. ASSUME LifecycleInv PROVE HealthyIsRecent
  <2>1. RequestsOK /\ EnvironmentOK
    BY <1>1, LifecycleTypeParts DEF LifecycleInv
  <2>2. cache.age \in 0..CacheTtl /\ dbAge \in 0..CacheTtl /\ rpcAge \in Nat
    BY <2>1 DEF RequestsOK, EnvironmentOK
  <2>3. QED
    BY <1>1, <2>2 DEF LifecycleInv, RecentOK, HealthyIsRecent, IsFresh, FromDatabase, FromNode
<1>2. QED
  BY <1>1, LifecycleInvInit, LifecycleInvStep, PTL DEF LifecycleSpec

(* The lag a probe computes is at least the one between the table and the  *)
(* number the client has when the probe ends, though the loop stores       *)
(* blocks and the client replaces its number between the reads.            *)
THEOREM LagIsAtMostReported == LifecycleSpec => LagIsNotUnderstated
<1> DEFINE Honest == \A r \in Requests :
      /\ Kept \/ rpcUp
      /\ place[r] = "chain" /\ place'[r] = "idle" /\ cache'.status = "healthy"
      => blockCache'.number - localMax <= MaxLag
<1>1. ASSUME LifecycleInv, [LifecycleNext]_lifecycleVars
      PROVE  [Honest]_<<place, cache>>
  <2> SUFFICES ASSUME LifecycleNext, NEW r \in Requests, Kept \/ rpcUp,
                      place[r] = "chain", place'[r] = "idle", cache'.status = "healthy"
               PROVE  blockCache'.number - localMax <= MaxLag
    BY <1>1 DEF lifecycleVars, requestVars
  <2>0. RequestsOK /\ EnvironmentOK /\ LagOK
    BY <1>1, LifecycleTypeParts DEF LifecycleInv
  <2>1. PICK q \in Requests : Serve(q)
    <3>1. ~ Exit
      BY DEF Exit, NoAnswer
    <3>2. ~ Time /\ ~ ServeMetrics /\ ~ UNCHANGED requestVars
      BY DEF Time, Tick, ServeMetrics, Metrics, requestVars
    <3>3. QED
      BY <3>1, <3>2, WhatSteps
  <2>2. Healthz(q) /\ place' # place
    BY <2>1 DEF Serve
  <2>3. q = r
    BY <2>0, <2>2 DEF Healthz, BeginChecks, CheckDatabase, CheckRpc, CheckSync,
       ReadLocalMax, ReadChainMax, ReadFirst, NextCheck, ChecksFailed, SyncCheckFails,
       Respond, RequestsOK
  <2>4. Respond(r, Status(LagIsFine(seen[r], blockCache'.number)))
    BY <2>2, <2>3 DEF Healthz, BeginChecks, CheckDatabase, CheckRpc, CheckSync,
       ReadLocalMax, ReadChainMax, ReadFirst, ChecksFailed, SyncCheckFails,
       GetBlockNumberFails
  <2>5. LagIsFine(seen[r], blockCache'.number)
    BY <2>4 DEF Respond, Status
  <2>6. /\ seen[r] \in Int /\ blockCache'.number \in Int /\ localMax \in Int
        /\ seen[r] <= localMax
    <3>1. blockCache' \in [number : {NoBlock} \cup Heights, age : 0..ClientTtl]
      BY <2>0, <2>2, ClientType
    <3>2. QED
      BY <2>0, <3>1 DEF RequestsOK, EnvironmentOK, LagOK, NoBlock, Heights
  <2>7. QED
    BY <2>5, <2>6 DEF LagIsFine
<1>2. QED
  BY <1>1, LifecycleInvInit, LifecycleInvStep, PTL DEF LifecycleSpec, LagIsNotUnderstated
=============================================================================
