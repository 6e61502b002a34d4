------------------------ MODULE MCProductionIndexer ------------------------
(***************************************************************************)
(* Instances of ProductionIndexer for TLC.                                 *)
(***************************************************************************)
EXTENDS ProductionIndexer, TLC

CONSTANTS i1, i2       \* model values

OneIndexer == {i1}
TwoIndexers == {i1, i2}
Symmetric == Permutations(TwoIndexers)
=============================================================================
