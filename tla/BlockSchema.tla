---------------------------- MODULE BlockSchema ----------------------------
(***************************************************************************)
(* The bound that BlockSchema (src/src/database/schemas.ts) sets to a      *)
(* timestamp: one day after the time at which the module was loaded, that  *)
(* is, at which the process was started.  Timestamps are abstracted to the *)
(* order in which the blocks were mined.  A young process refuses no block *)
(* of the model; one that has been up for a day refuses what is mined from *)
(* then on.                                                                *)
(***************************************************************************)
EXTENDS Chain

(* The bound of a process that is younger than a day.                      *)
NoBound == <<MaxHeight, MaxFork>>

(* The bound of a process whose first day ends now.                        *)
BoundNow == BlockAt(head).hash

(* The block was mined after the one with hash h: on a later fork, or      *)
(* higher up the same fork.                                                *)
MinedAfter(b, h) == b.hash[2] > h[2] \/ (b.hash[2] = h[2] /\ b.hash[1] > h[1])

(* validateBlocks: one block above the bound fails the whole batch.        *)
WithinBound(batch, h) == \A b \in batch : ~ MinedAfter(b, h)
=============================================================================
