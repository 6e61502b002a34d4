---------------------------- MODULE HealthServer -----------------------------
(***************************************************************************)
(* The health server of the production indexer (src/src/utils/health-      *)
(* server.ts).  A request of /healthz is answered from a cache for a while; *)
(* otherwise it makes three checks, one await after the other, and stores  *)
(* its answer in the cache with the time at which it began.  Requests that *)
(* find no fresh answer overlap, and may store their answers in any order. *)
(*                                                                         *)
(* Below it is a second cache: the server has one viem client, which keeps *)
(* the answer to getBlockNumber for its cacheTime (4 s, as nobody sets it) *)
(* and gives it to whoever asks meanwhile, also when the node is down.     *)
(*                                                                         *)
(* This module has the requests only; module Lifecycle adds the process    *)
(* they belong to.                                                         *)
(*                                                                         *)
(* Simplifications:                                                        *)
(*  - times are ages, which saturate at the life time of the caches; a     *)
(*    call is answered in one step, when its answer arrives;               *)
(*  - of an answer only its status is kept, so that after a failed check   *)
(*    the checks that are left only take time;                             *)
(*  - /ready is the first check alone; /metrics fills the client's cache,  *)
(*    in one step.                                                         *)
(***************************************************************************)
EXTENDS Integers

CONSTANTS
  Requests,      \* the requests that may be under way at once
  CacheTtl,      \* CACHE_TTL_MS, in units of the clock
  ClientTtl,     \* cacheTime of the viem client
  MaxLag,        \* the lag up to which the indexer is healthy
  MaxHeight,     \* bound: the last block of the chain
  MaxDown        \* bound: how many of the database and the node are down at once

ASSUME HealthAssumption ==
  /\ CacheTtl \in Nat \ {0} /\ ClientTtl \in Nat \ {0}
  /\ MaxLag \in Nat /\ MaxHeight \in Nat /\ MaxDown \in {1, 2}

VARIABLES
  head,          \* the number of the node's last block (environment)
  localMax,      \* the number of the last stored block, or NoBlock
  dbUp, rpcUp,   \* PostgreSQL, the node answer (environment)
  dbAge, rpcAge, \* how long ago they last answered
  pool,          \* the state of the connection pool
  listening,     \* the server accepts requests
  cache,         \* healthCache: the status of the last checks and its age
  blockCache,    \* the client's cache: the last block number and its age
  place,         \* where each request is
  age,           \* how long ago it began
  seen           \* the localMax its third check got

nodeVars == <<head, rpcUp, rpcAge>>
databaseVars == <<localMax, dbUp, dbAge>>
environment == <<nodeVars, databaseVars>>
requestVars == <<cache, blockCache, place, age, seen>>

NoBlock == -1
Heights == 0..MaxHeight
Statuses == {"healthy", "unhealthy"}

\* healthCache before the first answer: like one that is out of date.
NoAnswer == [status |-> "unhealthy", age |-> CacheTtl]
NoNumber == [number |-> NoBlock, age |-> ClientTtl]

HealthInit ==
  /\ listening = TRUE
  /\ cache = NoAnswer
  /\ blockCache = NoNumber
  /\ place = [r \in Requests |-> "idle"]
  /\ age = [r \in Requests |-> 0]
  /\ seen = [r \in Requests |-> NoBlock]

(* A check asks the manager for its pool each time.  One that is being     *)
(* closed may answer or fail; a lost one fails.                            *)
QueryMayAnswer == dbUp /\ pool # "lost"
QueryMayFail == ~dbUp \/ pool \in {"closing", "lost"}

(* getBlockNumber: the kept answer, or the node's, which is kept from now  *)
(* on.  A failure is not kept.                                             *)
Kept == blockCache.age < ClientTtl

GetBlockNumber ==
  /\ Kept \/ rpcUp
  /\ blockCache' = IF Kept THEN blockCache ELSE [number |-> head, age |-> 0]

GetBlockNumberFails == ~Kept /\ ~rpcUp /\ UNCHANGED blockCache

-----------------------------------------------------------------------------
(* GET /healthz                                                            *)

\* Mutant of IsFresh: the server that was found healthy is not checked again.
IsFreshOnceHealthy == cache.status = "healthy" \/ cache.age < CacheTtl

IsFresh == cache.age < CacheTtl

(* While the answer is fresh a request is given it and changes nothing.    *)
BeginChecks(r) ==
  /\ listening /\ place[r] = "idle"
  /\ ~IsFresh
  /\ place' = [place EXCEPT ![r] = "database"]
  /\ UNCHANGED <<cache, blockCache, age, seen>>

NextCheck(r, label) ==
  /\ place' = [place EXCEPT ![r] = label]
  /\ UNCHANGED <<cache, age, seen>>

CheckDatabase(r) ==
  /\ place[r] = "database"
  /\ UNCHANGED blockCache
  /\ \/ QueryMayAnswer /\ NextCheck(r, "rpc")
     \/ QueryMayFail /\ NextCheck(r, "failing")

CheckRpc(r) ==
  /\ place[r] = "rpc"
  /\ \/ GetBlockNumber /\ NextCheck(r, "sync")
     \/ GetBlockNumberFails /\ NextCheck(r, "failing")

\* Mutant of Stamp: the answer is as old as its last check.
StampAtTheEnd(r) == 0

(* The cached answer is as old as its request: a request reads the clock   *)
(* once, before its checks.                                                *)
Stamp(r) == age[r]

Respond(r, status) ==
  /\ cache' = [status |-> status, age |-> Stamp(r)]
  /\ place' = [place EXCEPT ![r] = "idle"]
  /\ age' = [age EXCEPT ![r] = 0]
  /\ seen' = [seen EXCEPT ![r] = NoBlock]

ChecksFailed(r) ==
  place[r] = "failing" /\ Respond(r, "unhealthy") /\ UNCHANGED blockCache

(* The error of the third check is only logged.                            *)
SyncCheckFails(r) == Respond(r, "healthy")

Status(fine) == IF fine THEN "healthy" ELSE "unhealthy"

ReadFirst(r, number) ==
  /\ place[r] = "sync"
  /\ seen' = [seen EXCEPT ![r] = number]
  /\ place' = [place EXCEPT ![r] = "chain"]
  /\ UNCHANGED <<cache, age>>

ReadLocalMax(r) ==
  /\ UNCHANGED blockCache
  /\ \/ QueryMayAnswer /\ ReadFirst(r, localMax)
     \/ place[r] = "sync" /\ QueryMayFail /\ SyncCheckFails(r)

(* An empty table is down.                                                 *)
LagIsFine(local, chain) == local # NoBlock /\ chain - local <= MaxLag

ReadChainMax(r) ==
  /\ place[r] = "chain"
  /\ \/ GetBlockNumber /\ Respond(r, Status(LagIsFine(seen[r], blockCache'.number)))
     \/ GetBlockNumberFails /\ SyncCheckFails(r)

\* Mutant of CheckSync: the chain is read before the table.
CheckSyncChainFirst(r) ==
  \/ GetBlockNumber /\ ReadFirst(r, blockCache'.number)
  \/ place[r] = "sync" /\ GetBlockNumberFails /\ SyncCheckFails(r)
  \/ /\ place[r] = "chain"
     /\ UNCHANGED blockCache
     /\ \/ QueryMayAnswer /\ Respond(r, Status(LagIsFine(localMax, seen[r])))
        \/ QueryMayFail /\ SyncCheckFails(r)

CheckSync(r) == ReadLocalMax(r) \/ ReadChainMax(r)

Healthz(r) ==
  BeginChecks(r) \/ CheckDatabase(r) \/ CheckRpc(r) \/ CheckSync(r)
    \/ ChecksFailed(r)

(* GET /metrics asks the same client; so does the check of the node that   *)
(* follows a failed check of the database.                                 *)
Metrics ==
  /\ listening \/ \E r \in Requests : place[r] = "failing"
  /\ GetBlockNumber
  /\ UNCHANGED <<cache, place, age, seen>>

-----------------------------------------------------------------------------
(* Time and the environment.                                               *)

Older(n, oldest) == IF n < oldest THEN n + 1 ELSE oldest

Tick ==
  /\ cache' = [cache EXCEPT !.age = Older(@, CacheTtl)]
  /\ blockCache' = IF blockCache.age + 1 < ClientTtl
                     THEN [blockCache EXCEPT !.age = @ + 1] ELSE NoNumber
  /\ age' = [r \in Requests |-> IF place[r] = "idle" THEN 0 ELSE Older(age[r], CacheTtl)]
  /\ dbAge' = IF dbUp THEN 0 ELSE Older(dbAge, CacheTtl)
  /\ rpcAge' = IF rpcUp THEN 0 ELSE Older(rpcAge, CacheTtl + ClientTtl)
  /\ UNCHANGED <<head, localMax, dbUp, rpcUp, place, seen>>

NodeMines ==
  /\ head < MaxHeight
  /\ head' = head + 1
  /\ UNCHANGED <<rpcUp, rpcAge, databaseVars>>

(* What answers again has answered now.                                    *)
NodeToggles ==
  /\ dbUp \/ MaxDown = 2
  /\ rpcUp' = ~rpcUp /\ rpcAge' = 0
  /\ UNCHANGED <<head, databaseVars>>

DatabaseToggles ==
  /\ rpcUp \/ MaxDown = 2
  /\ dbUp' = ~dbUp /\ dbAge' = 0
  /\ UNCHANGED <<nodeVars, localMax>>

-----------------------------------------------------------------------------
HealthTypeOK ==
  /\ head \in Heights /\ localMax \in {NoBlock} \cup 0..head
  /\ dbUp \in BOOLEAN /\ rpcUp \in BOOLEAN
  /\ dbAge \in 0..CacheTtl /\ rpcAge \in 0..(CacheTtl + ClientTtl)
  /\ pool \in {"open", "replaced", "closing", "lost"}
  /\ listening \in BOOLEAN
  /\ cache \in [status : Statuses, age : 0..CacheTtl]
  /\ blockCache \in [number : {NoBlock} \cup Heights, age : 0..ClientTtl]
  /\ place \in [Requests -> {"idle", "database", "rpc", "sync", "chain", "failing"}]
  /\ age \in [Requests -> 0..CacheTtl]
  /\ seen \in [Requests -> {NoBlock} \cup Heights]

(* Whoever is answered "healthy" from the cache may rely on it: the        *)
(* database worked within the life time of the cache, and the node within  *)
(* the life times of the two caches together, however long the checks took *)
(* and whichever of the overlapping requests stored its answer last.       *)
HealthyIsRecent ==
  IsFresh /\ cache.status = "healthy"
    => dbAge < CacheTtl /\ rpcAge < CacheTtl + ClientTtl

(* A check that computes the lag: "healthy" means that the table, when the *)
(* answer is given, is within the limit of the number the client has then, *)
(* which the chain had reached no longer ago than the client keeps it;     *)
(* while blocks are stored and the kept number is replaced between the     *)
(* reads of the check, however long they take.                             *)
LagIsNotUnderstated ==
  [][\A r \in Requests :
       /\ Kept \/ rpcUp
       /\ place[r] = "chain" /\ place'[r] = "idle" /\ cache'.status = "healthy"
       => blockCache'.number - localMax <= MaxLag]_<<place, cache>>
=============================================================================
