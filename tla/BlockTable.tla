----------------------------- MODULE BlockTable -----------------------------
(***************************************************************************)
(* The blocks table of src/database (primary key (chain_id, number), one   *)
(* chain id; hash UNIQUE) as a set of rows, and the queries of             *)
(* BlockRepository over it.  A row is a block: [number, hash, parentHash]. *)
(***************************************************************************)
EXTENDS Integers, FiniteSets, FiniteSetsExt

Numbers(rows) == {r.number : r \in rows}

(* getMaxBlockNumber: ORDER BY number DESC LIMIT 1, null on an empty table. *)
NoBlock == -1
MaxNumber(rows) == IF rows = {} THEN NoBlock ELSE Max(Numbers(rows))

(* The primary key and the UNIQUE hash accept every row of the batch: no   *)
(* stored row has the number or the hash of a new one.  One row that       *)
(* conflicts aborts the transaction, so the whole batch.                   *)
NoConflict(rows, batch) ==
  \A r \in rows, b \in batch : r.number # b.number /\ r.hash # b.hash

(* verifyBlocksWritten: as many rows carry one of the numbers as there are *)
(* numbers; numbers being unique, each of them is there.                   *)
Written(rows, batch) == Numbers(batch) \subseteq Numbers(rows)

(* findById for every block of the batch returns the hash that was saved.  *)
SameHashes(rows, batch) ==
  \A b \in batch : \E r \in rows : r.number = b.number /\ r.hash = b.hash

(* c is the next block after b in the batch sorted by number.              *)
Follows(b, c, batch) ==
  /\ b.number < c.number
  /\ \A d \in batch : d.number <= b.number \/ c.number <= d.number

\* Mutant of Linked: no continuity check.
LinkedAnyhow(batch) == TRUE

(* Each block of the sorted batch names the hash of the one before it.     *)
Linked(batch) ==
  \A b, c \in batch : Follows(b, c, batch) => c.parentHash = b.hash

(* The number at which a batch begins.                                     *)
FirstOf(batch) == {b.number : b \in {c \in batch : \A d \in batch : c.number <= d.number}}
=============================================================================
