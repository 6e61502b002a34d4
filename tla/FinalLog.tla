------------------------------ MODULE FinalLog ------------------------------
(***************************************************************************)
(* What the sync engine promises to those who read its tables, provided    *)
(* the node never replaces a block of the confirmation depth: a log of     *)
(* final blocks, written by any number of writers.  Once a block is final  *)
(* it stays so; a batch of final blocks is written together with the       *)
(* events of these blocks; and what is written is neither changed nor      *)
(* taken back, so that a reader may act on it at once.                     *)
(***************************************************************************)
VARIABLES
  final,     \* the final blocks, whether written or not
  log,       \* the blocks that are written
  events     \* the events that are written, by the hash of their block

Init == log \subseteq final /\ events = {}

Finalise == final \subseteq final' /\ UNCHANGED <<log, events>>

Store(batch) ==
  /\ log' = log \cup batch
  /\ events' = events \cup {b.hash : b \in batch}
  /\ UNCHANGED final

Next == Finalise \/ \E batch \in SUBSET final : Store(batch)

Spec == Init /\ [][Next]_<<final, log, events>>
=============================================================================
