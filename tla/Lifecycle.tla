------------------------------ MODULE Lifecycle ------------------------------
(***************************************************************************)
(* The production indexer's process as a whole: its sync loop beside its   *)
(* health server (module HealthServer), and how it ends.  Two sets of      *)
(* signal handlers act at once: those of src/src/database/database-        *)
(* config.ts, there from the beginning, destroy the pool and exit; those   *)
(* of src/src/utils/graceful-shutdown.ts, installed after the initial sync *)
(* by src/src/index-production.ts, stop the health server, the loop and    *)
(* the pool in this order and exit.                                        *)
(*                                                                         *)
(* During an outage of the database the connection manager may replace the *)
(* pool, or lose it for good (module ConnectionManager has the details).   *)
(* The loop keeps the handle it was made with; the health server asks for  *)
(* the manager's each time.                                                *)
(*                                                                         *)
(* Simplifications:                                                        *)
(*  - of a batch only the number of its last stored block is kept; module  *)
(*    ProductionIndexer has the blocks;                                    *)
(*  - the calls before a batch is stored are one step, and so is a         *)
(*    recovery, whose test the database may be back for or not;            *)
(*  - isRunning, which only a handler clears after isShuttingDown is set,  *)
(*    is left out, and so is what follows the closing of the pool but the  *)
(*    exit.                                                                *)
(***************************************************************************)
EXTENDS HealthServer

CONSTANT MaxSignals    \* bound: signals sent to the process

ASSUME SignalAssumption == MaxSignals \in Nat

VARIABLES
  alive,         \* the process runs
  installed,     \* the initial sync is over, the shutdown handlers are installed
  loop,          \* where the sync loop is
  manager,       \* the handler the GracefulShutdownManager is at
  signals        \* how many signals were sent

processVars == <<alive, installed, loop, manager, signals>>
lifecycleVars == <<environment, pool, listening, requestVars, processVars>>

LifecycleInit ==
  /\ head \in Heights /\ localMax \in {NoBlock} \cup 0..head
  /\ dbUp = TRUE /\ rpcUp = TRUE /\ dbAge = 0 /\ rpcAge = 0
  /\ pool = "open"
  /\ HealthInit
  /\ alive = TRUE /\ installed = FALSE /\ loop = "check" /\ manager = "idle"
  /\ signals = 0

ShuttingDown == manager # "idle"

(* process.exit: open connections are cut, the transaction rolls back.     *)
Exit ==
  /\ alive' = FALSE /\ listening' = FALSE /\ pool' = "closing"
  /\ cache' = NoAnswer /\ blockCache' = NoNumber
  /\ place' = [r \in Requests |-> "idle"] /\ age' = [r \in Requests |-> 0]
  /\ seen' = [r \in Requests |-> NoBlock]
  /\ installed' = FALSE /\ loop' = "ended" /\ manager' = "idle"
  /\ UNCHANGED environment

-----------------------------------------------------------------------------
(* syncMissingBlocks, then pollNewBlocks.                                  *)

(* The loop's repository has the handle of the first pool.                 *)
LoopQueryMayAnswer == dbUp /\ pool \in {"open", "closing"}
LoopQueryMayFail == ~dbUp \/ pool # "open"

Turn(from, to) == loop = from /\ loop' = to

ProcessUnchangedBut(step) ==
  /\ step
  /\ UNCHANGED <<alive, manager, signals, listening, requestVars>>

(* The initial sync ends at the head it read at its beginning.  Nothing    *)
(* stops it before: no handler has been installed.                         *)
InitialSyncEnds ==
  ProcessUnchangedBut(/\ ~installed /\ localMax # NoBlock /\ rpcUp /\ LoopQueryMayAnswer
                      /\ loop = "check" /\ installed' = TRUE
                      /\ UNCHANGED <<loop, environment, pool>>)

PollingEnds ==
  ProcessUnchangedBut(/\ installed /\ ShuttingDown
                      /\ Turn("check", "ended")
                      /\ UNCHANGED <<installed, environment, pool>>)

(* ConnectionManager.destroy returns at once when it was called before, or *)
(* when there is no pool: whoever called it exits.                         *)
HasPool == pool \in {"open", "replaced"}

(* main catches the error and closes the pool.                             *)
MainFails ==
  \/ /\ HasPool
     /\ pool' = "closing" /\ loop' = "ended"
     /\ UNCHANGED <<alive, installed, manager, listening, requestVars, environment>>
  \/ ~HasPool /\ Exit

(* Polling goes on after an error; one of the initial sync reaches main.   *)
AfterError ==
  /\ UNCHANGED signals
  /\ IF installed
       THEN /\ loop' = "check"
            /\ UNCHANGED <<alive, installed, manager, listening, requestVars,
                           environment, pool>>
       ELSE MainFails

Running == installed => ~ShuttingDown

(* The blocks are fetched, and the transaction has its connection; a pool  *)
(* that is being closed gives none.                                        *)
BeginSave ==
  ProcessUnchangedBut(/\ Running /\ localMax < head /\ rpcUp /\ dbUp /\ pool = "open"
                      /\ Turn("check", "saving")
                      /\ UNCHANGED <<installed, environment, pool>>)

FetchFails ==
  /\ loop = "check" /\ Running /\ (~rpcUp \/ LoopQueryMayFail)
  /\ AfterError

\* Mutant of BatchEnds: a batch ends behind the last block.
BatchEndsBehindHead == (localMax + 1)..(head + 1)

(* Batches end at the last block at the latest.                            *)
BatchEnds == (localMax + 1)..head

Commit ==
  ProcessUnchangedBut(/\ dbUp
                      /\ Turn("saving", "check")
                      /\ localMax' \in BatchEnds
                      /\ UNCHANGED <<installed, nodeVars, dbUp, dbAge, pool>>)

SaveFails == loop = "saving" /\ ~dbUp /\ AfterError

Loop ==
  \/ InitialSyncEnds \/ PollingEnds \/ BeginSave \/ FetchFails
  \/ Commit \/ SaveFails

-----------------------------------------------------------------------------
(* ConnectionManager.attemptRecovery, after failed health checks: the      *)
(* manager's handle is dropped, the old pool waits for its connections,    *)
(* then connect tests a new one.  When its test fails, it destroys the     *)
(* manager for good.                                                       *)

AttemptRecovery ==
  /\ ~dbUp /\ pool \in {"open", "replaced"} /\ loop # "saving"
  /\ pool' \in {"replaced", "lost"}
  /\ UNCHANGED <<environment, listening, requestVars, processVars>>

-----------------------------------------------------------------------------
(* The end of the process.                                                 *)

SendSignal == alive /\ signals < MaxSignals /\ signals' = signals + 1

(* GracefulShutdownManager.shutdown up to its first await: the server is   *)
(* closed.                                                                 *)
StartShutdown ==
  /\ manager' = "Health Server"
  /\ listening' = FALSE
  /\ UNCHANGED <<alive, installed, loop, requestVars, environment>>

(* SIGINT or SIGTERM.  The second shutdown returns at once.                *)
Stop ==
  /\ SendSignal
  /\ \/ /\ HasPool /\ ~ShuttingDown
        /\ pool' = "closing"
        /\ \/ installed /\ StartShutdown
           \/ ~installed /\ UNCHANGED <<alive, installed, loop, manager, listening,
                                         requestVars, environment>>
     \/ (~HasPool \/ ShuttingDown) /\ Exit

(* SIGUSR2 has one handler only, and before it is installed none.          *)
StopByUsr2 ==
  /\ SendSignal
  /\ IF installed /\ ~ShuttingDown
       THEN StartShutdown /\ UNCHANGED pool
       ELSE Exit

NextHandler(from, to) ==
  /\ manager = from /\ manager' = to
  /\ UNCHANGED <<alive, installed, loop, signals, listening, requestVars, environment>>

HealthServerStopped ==
  /\ \A r \in Requests : place[r] = "idle"
  /\ NextHandler("Health Server", "Sync Loop") /\ UNCHANGED pool

(* A second has passed, whatever the loop is doing.  The final statistics  *)
(* are read before the pool is closed.                                     *)
CloseDatabasePool ==
  /\ pool = "open" /\ dbUp
  /\ NextHandler("Sync Loop", "Database Pool") /\ pool' = "closing"

\* Mutant of HandlerFails: a failed handler ends the shutdown, not the process.
HandlerFailsAndStays ==
  NextHandler("Sync Loop", "Database Pool") /\ UNCHANGED pool

(* The failure of the last handler is counted, and the process exits       *)
(* without waiting for its pool.                                           *)
HandlerFails ==
  manager = "Sync Loop" /\ Exit /\ UNCHANGED signals

StatisticsFail == LoopQueryMayFail /\ HandlerFails

ShutdownStep == HealthServerStopped \/ CloseDatabasePool \/ StatisticsFail

(* A pool is closed when its connections are back, and whoever waited for  *)
(* it exits.                                                               *)
PoolDrained ==
  /\ alive /\ pool = "closing" /\ loop # "saving"
  /\ Exit /\ UNCHANGED signals

(* handleFatalError, or the process is killed.                             *)
Die == alive /\ Exit /\ UNCHANGED signals

-----------------------------------------------------------------------------
Serve(r) == Healthz(r) /\ UNCHANGED <<environment, pool, listening, processVars>>

ServeMetrics == Metrics /\ UNCHANGED <<environment, pool, listening, processVars>>

Time == alive /\ Tick /\ UNCHANGED <<pool, listening, processVars>>

Environment ==
  /\ alive
  /\ NodeMines \/ NodeToggles \/ DatabaseToggles
  /\ UNCHANGED <<requestVars, pool, listening, processVars>>

LifecycleNext ==
  \/ \E r \in Requests : Serve(r)
  \/ ServeMetrics
  \/ Time \/ Environment
  \/ AttemptRecovery
  \/ Loop \/ ShutdownStep \/ PoolDrained
  \/ Stop \/ StopByUsr2 \/ Die

LifecycleSpec == LifecycleInit /\ [][LifecycleNext]_lifecycleVars

(* Calls and statements have time-outs, monitoring keeps asking, and the   *)
(* event loop runs what is ready.                                          *)
FairLifecycleSpec ==
  /\ LifecycleSpec
  /\ \A r \in Requests : WF_lifecycleVars(Serve(r))
  /\ WF_lifecycleVars(Time) /\ WF_lifecycleVars(Loop)
  /\ WF_lifecycleVars(ShutdownStep \/ PoolDrained)

-----------------------------------------------------------------------------
(* Every variable keeps its type, and only a living process has state.     *)
LifecycleTypeOK ==
  /\ HealthTypeOK
  /\ alive \in BOOLEAN /\ installed \in BOOLEAN
  /\ loop \in {"check", "saving", "ended"}
  /\ manager \in {"idle", "Health Server", "Sync Loop", "Database Pool"}
  /\ signals \in 0..MaxSignals
  /\ ~alive => ~listening /\ loop = "ended"

(* Once the database and the node work for good, on the first pool, every  *)
(* probe says healthy in the end, whatever answers were cached: the loop   *)
(* catches up.  When one of them fails for good, every probe says so; also *)
(* when the pool was lost in an outage that is long over.  A pool that was *)
(* replaced leaves the loop behind, which stores nothing any more: every   *)
(* probe says so once the chain is too far ahead of the table.             *)
ProbesConverge ==
  /\ <>[](dbUp /\ rpcUp /\ listening /\ pool = "open")
       => <>[](cache.status = "healthy")
  /\ \/ <>[]((~dbUp \/ pool = "lost") /\ listening) \/ <>[](~rpcUp /\ listening)
     \/ <>[](pool = "replaced" /\ dbUp /\ rpcUp /\ listening /\ head - localMax > MaxLag)
       => <>[](cache.status = "unhealthy")

(* A process that was told to stop ends, also when the database is down,   *)
(* a batch is being stored, checks are under way, or it comes twice.       *)
StopCompletes == signals > 0 ~> ~alive
=============================================================================
