------------------------------ MODULE RestApi ------------------------------
(***************************************************************************)
(* The REST API (src/src/api/server.ts), which reads the blocks table and  *)
(* the node while the indexers of SimpleIndexer write the table.  A        *)
(* handler awaits several reads, and every read is a step of its own.      *)
(*                                                                         *)
(* request is the request in flight, with what the client of it saw: a     *)
(* status report, the lookup of a block, or a client that lists the blocks *)
(* page after page until hasNext is false.  One request is modelled at a   *)
(* time: handlers share the table and the answer of the node, which the    *)
(* API's one viem client keeps for a while; the other requests that may be *)
(* under way fill it, too.                                                 *)
(*                                                                         *)
(* Abstracted: the formatting of the answers; the refusal of malformed     *)
(* parameters and of clients over the rate limit, and a status answered    *)
(* with "error" because checkDbHealth failed (all of them end the request  *)
(* like RequestFails); the transfers, which the simple indexers do not     *)
(* write.                                                                  *)
(***************************************************************************)
EXTENDS SimpleIndexer

CONSTANTS PageSize,    \* the limit parameter of the listing client
          SyncedLag,   \* /api/status: the lag that still counts as synchronized
          Together     \* bound: what may be up, and have happened, at one time

ASSUME ApiAssumption ==
  /\ PageSize \in Nat \ {0} /\ SyncedLag \in Nat
  /\ {"api", "fault"} \cap Indexers = {} /\ Together \subseteq SUBSET (Indexers \cup {"api", "fault"})

VARIABLES api,         \* "down" or "up": the API process
          request,     \* the request in flight
          chainHead    \* the answer to getBlockNumber the client keeps, if any

apiVars == <<api, request, chainHead>>

Idle == [kind |-> "idle"]

NoHash == ZeroHash     \* of no stored block: their forks are above NotMined

\* fork: history.  The fork the node was on when it gave the answer.
Answer == [head : Heights, fork : 1..MaxFork]

NoAnswer == [head |-> NoBlock, fork |-> 1]

Status ==
  [kind : {"status"}, pending : SUBSET {"max", "head"},
   max : Heights \cup {NoBlock}, head : Heights \cup {NoBlock},
   known : Answer]          \* history: what the API knew of the chain before

Lookup ==
  [kind : {"lookup"}, hash : Hash, number : Heights \cup {NoBlock}]

Rows == 0..(MaxHeight + 1)

\* row, shown, late: history.  A row stored when the client began, whether a
\* page showed it, and the rows inserted between the last count and its page.
Listing ==
  [kind : {"listing"}, state : {"count", "select", "done"},
   page : 1..(MaxHeight + 1), count : Rows,
   row : Block, shown : BOOLEAN, late : Rows]

ApiTypeOK ==
  /\ TypeOK
  /\ api \in {"down", "up"}
  /\ request \in {Idle} \cup Status \cup Lookup \cup Listing
  /\ chainHead \in {NoAnswer} \cup Answer

ApiInit == Init /\ api = "down" /\ request = Idle /\ chainHead = NoAnswer

(* main: the database connection first, then the listener.                 *)
ApiStart == api = "down" /\ api' = "up" /\ UNCHANGED <<vars, request, chainHead>>

(* The API exits (a signal once the pool is closed, a kill, a failed       *)
(* start): the request is lost with it.                                    *)
ApiExit ==
  /\ api = "up"
  /\ api' = "down"
  /\ request' = Idle
  /\ chainHead' = NoAnswer
  /\ UNCHANGED vars

Accepts == api = "up" /\ request = Idle

(* A handler steps: only the request changes.                              *)
Step(r) == request' = r /\ UNCHANGED <<vars, api, chainHead>>

(* A read of the handler throws: 500 or 503, and the client gives up.      *)
RequestFails ==
  /\ request # Idle
  /\ Step(Idle)

(***************************************************************************)
(* The client of the node.  viem keeps the answer to getBlockNumber for    *)
(* cacheTime, which nobody sets (4 s), and gives it to whoever asks        *)
(* meanwhile; calls that are under way share one request.  The age of an   *)
(* answer is abstracted: it may expire at any time.  To keep the state     *)
(* space small, an answer comes and goes only where a status can tell: it  *)
(* comes before the status, and goes before the status has read it.        *)
(***************************************************************************)
Kept == chainHead # NoAnswer

Awaits(read) == request.kind = "status" /\ read \in request.pending

Latest == [head |-> head, fork |-> fork]

(* The node answers another request's call, or one of a failed request.    *)
OthersReadHead ==
  /\ Accepts /\ ~Kept
  /\ chainHead' = Latest
  /\ UNCHANGED <<vars, api, request>>

AnswerExpires ==
  /\ Kept /\ (Accepts \/ Awaits("head"))
  /\ chainHead' = NoAnswer
  /\ UNCHANGED <<vars, api, request>>

(***************************************************************************)
(* GET /api/status: the reads run in parallel and end in any order.        *)
(***************************************************************************)
StatusBegins ==
  /\ Accepts
  /\ Step([kind |-> "status", pending |-> {"max", "head"}, max |-> NoBlock,
           head |-> NoBlock, known |-> IF Kept THEN chainHead ELSE Latest])

StatusReadsMax ==
  /\ Awaits("max")
  /\ Step([request EXCEPT !.pending = @ \ {"max"}, !.max = MaxNumber(blocks)])

(* The kept answer, or the node's, which is kept from now on.              *)
StatusReadsHead ==
  /\ Awaits("head")
  /\ chainHead' = IF Kept THEN chainHead ELSE Latest
  /\ request' = [request EXCEPT !.pending = @ \ {"head"}, !.head = chainHead'.head]
  /\ UNCHANGED <<vars, api>>

(* getBlockNumber().catch(() => null).                                     *)
StatusMissesHead ==
  /\ Awaits("head") /\ ~Kept
  /\ Step([request EXCEPT !.pending = @ \ {"head"}])

(* chainHead && localMaxBlock !== null: a head of 0n is falsy.             *)
HasLag(r) == r.head > 0 /\ r.max # NoBlock

\* Mutant of Mismatch: a lag of zero is taken for a negative one.
MismatchAtZero(r) == HasLag(r) /\ r.head - r.max <= 0

(* isEnvironmentMismatch: the raw lag is negative.                         *)
Mismatch(r) == HasLag(r) /\ r.head - r.max < 0

(* The status field of the answer.                                         *)
StatusAnswer(r) ==
  IF Mismatch(r) THEN "environment_mismatch"
  ELSE IF HasLag(r) /\ r.head - r.max <= SyncedLag THEN "synchronized" ELSE "syncing"

Answered == request.kind = "status" /\ request.pending = {}

(***************************************************************************)
(* GET /api/blocks/:id                                                     *)
(***************************************************************************)
LookupBegins ==
  /\ Accepts /\ ~Kept
  /\ \/ \E r \in blocks :
          Step([kind |-> "lookup", hash |-> r.hash, number |-> NoBlock])
     \/ \E n \in Heights :
          Step([kind |-> "lookup", hash |-> NoHash, number |-> n])

(* By hash: the number of the row that carries it; without one, 404.       *)
LookupFindsNumber ==
  /\ request.kind = "lookup"
  /\ request.number = NoBlock
  /\ LET found == {r \in blocks : r.hash = request.hash}
     IN IF found = {} THEN Step(Idle)
        ELSE \E r \in found : Step([request EXCEPT !.number = r.number])

(* findById: the row, or 404.  Either way the request is over.             *)
LookupEnds ==
  /\ request.kind = "lookup"
  /\ request.number # NoBlock
  /\ Step(Idle)

(***************************************************************************)
(* GET /api/blocks?page=&limit=                                            *)
(***************************************************************************)
\* Mutant of Page: the offset is not taken from page - 1.
PageOneAhead(rows, page) ==
  {r \in rows : Cardinality({s \in rows : s.number > r.number})
                  \in (page * PageSize)..((page + 1) * PageSize - 1)}

(* ORDER BY number DESC LIMIT limit OFFSET (page - 1) * limit: the rows    *)
(* with that many rows above them.                                         *)
Page(rows, page) ==
  {r \in rows : Cardinality({s \in rows : s.number > r.number})
                  \in ((page - 1) * PageSize)..(page * PageSize - 1)}

(* Math.ceil(count / limit).                                               *)
TotalPages(count) == (count + PageSize - 1) \div PageSize

ListingBegins ==
  /\ Accepts /\ ~Kept
  /\ \E r \in blocks :
       Step([kind |-> "listing", state |-> "count", page |-> 1, count |-> 0,
             row |-> r, shown |-> FALSE, late |-> 0])

ListingCounts ==
  /\ request.kind = "listing"
  /\ request.state = "count"
  /\ Step([request EXCEPT !.state = "select", !.count = Cardinality(blocks)])

(* The page is selected, and hasNext computed from the count before it.    *)
ListingSelects ==
  /\ request.kind = "listing"
  /\ request.state = "select"
  /\ LET hasNext == request.page < TotalPages(request.count)
     IN Step([request EXCEPT
                !.shown = @ \/ request.row \in Page(blocks, request.page),
                !.late = Cardinality(blocks) - request.count,
                !.page = IF hasNext THEN @ + 1 ELSE @,
                !.state = IF hasNext THEN "count" ELSE "done"])

(* The answer has been sent and read.                                      *)
RequestEnds ==
  /\ \/ Answered
     \/ request.kind = "listing" /\ request.state = "done"
  /\ Step(Idle)

-----------------------------------------------------------------------------
ApiStep ==
  \/ ApiStart \/ ApiExit \/ RequestFails \/ RequestEnds
  \/ OthersReadHead \/ AnswerExpires
  \/ StatusBegins \/ StatusReadsMax \/ StatusReadsHead \/ StatusMissesHead
  \/ LookupBegins \/ LookupFindsNumber \/ LookupEnds
  \/ ListingBegins \/ ListingCounts \/ ListingSelects

IndexerStep == Next /\ UNCHANGED apiVars

Up == {i \in Indexers : proc[i].pc # "down"} \cup (IF api = "up" THEN {"api"} ELSE {})
        \cup (IF faults > 0 THEN {"fault"} ELSE {})

(* The bound on the processes that are up, and on the faults beside them.  *)
Room == \E processes \in Together : Up' \subseteq processes

ApiNext == (IndexerStep \/ ApiStep) /\ Room

ApiSpec == ApiInit /\ [][ApiNext]_<<vars, apiVars>>

(* The event loops of the indexers run what is ready, and the restart      *)
(* policy of docker-compose.yml starts a process that exited.  Nothing is  *)
(* asked of the node, the faults or the clients of the API.                *)
FairApiSpec ==
  /\ ApiSpec
  /\ \A i \in Indexers : WF_<<vars, apiVars>>(Progress(i) /\ UNCHANGED apiVars /\ Room)

-----------------------------------------------------------------------------
(* /api/status: though its reads come from different moments, and the head *)
(* maybe from an earlier request, the answer does not mislead.             *)
(* "synchronized": when it is given, the indexers are within SyncedLag of  *)
(* the head the API knew of when the request came, which is the chain's    *)
(* unless an answer was kept, if the chain was not reorganised since.      *)
(* "environment_mismatch", the index is above the chain: the chain was     *)
(* replaced under the index, or blocks were mined, and indexed, after the  *)
(* read of the head.                                                       *)
StatusIsTrue ==
  Answered =>
    /\ StatusAnswer(request) = "synchronized" /\ request.known.fork = fork
         => request.known.head - MaxNumber(blocks) <= SyncedLag
    /\ StatusAnswer(request) = "environment_mismatch"
         => fork > 1 \/ request.head < head

(* /api/blocks: a client that follows hasNext to the end has seen every    *)
(* row stored when it began, though rows were inserted above its pages     *)
(* meanwhile, unless some were inserted between the last count and the     *)
(* page selected after it.                                                 *)
PagesMissNothing ==
  request.kind = "listing" /\ request.state = "done"
    => request.shown \/ request.late > 0
=============================================================================
