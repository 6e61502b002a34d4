------------------------------- MODULE Chain -------------------------------
(***************************************************************************)
(* The Ethereum node (anvil) as the indexer sees it through JSON-RPC:      *)
(* eth_blockNumber returns the head and eth_getBlockByNumber the canonical *)
(* block at a height.  The node is external to the repository; what is     *)
(* modelled is what the code relies on.                                    *)
(*                                                                         *)
(* A block's hash is abstracted to the pair <<number, fork>>: the fork in  *)
(* which the block was mined identifies it among the blocks mined at its   *)
(* height, and a new fork starts whenever the node replaces blocks.        *)
(***************************************************************************)
EXTENDS Integers

CONSTANTS MaxHeight,   \* bound: the highest block the node mines
          MaxFork      \* bound: the number of chains the node follows in turn

ASSUME ChainAssumption == MaxHeight \in Nat /\ MaxFork \in Nat \ {0}

VARIABLES head,    \* number of the latest block
          fork,    \* the fork the node is mining on
          chain    \* chain[n]: the fork in which the canonical block n was mined

chainVars == <<head, fork, chain>>

Heights == 0..MaxHeight
NotMined == 0
Hash == Heights \X (0..MaxFork)
ZeroHash == <<0, NotMined>>           \* the parent hash of a genesis block

Block == [number : Heights, hash : Hash, parentHash : Hash]

(* The canonical block at height n: what client.getBlock returns.          *)
BlockAt(n) ==
  [number     |-> n,
   hash       |-> <<n, chain[n]>>,
   parentHash |-> IF n = 0 THEN ZeroHash ELSE <<n - 1, chain[n - 1]>>]

(* The parent field of a block names a block one height below it.          *)
WellFormed(b) ==
  /\ b.hash[1] = b.number
  /\ b.number > 0 => b.parentHash[1] = b.number - 1

ChainTypeOK ==
  /\ head \in Heights
  /\ fork \in 1..MaxFork
  /\ chain \in [Heights -> 0..MaxFork]

ChainInit ==
  /\ head = 0
  /\ fork = 1
  /\ chain = [n \in Heights |-> IF n = 0 THEN 1 ELSE NotMined]

(* The node mines the next block.                                          *)
Mine ==
  /\ head < MaxHeight
  /\ head' = head + 1
  /\ chain' = [chain EXCEPT ![head + 1] = fork]
  /\ UNCHANGED fork

(* The node switches to another chain: block k and every block above it    *)
(* are replaced, and so far the new chain has only reached k.  k = 0 is    *)
(* the restart of a node that keeps no state: a new genesis block.         *)
Reorg(k) ==
  /\ fork < MaxFork
  /\ k <= head
  /\ head' = k
  /\ fork' = fork + 1
  /\ chain' = [n \in Heights |-> IF n < k THEN chain[n]
                                 ELSE IF n = k THEN fork + 1 ELSE NotMined]

ChainNext == Mine \/ \E k \in Heights : Reorg(k)
=============================================================================
