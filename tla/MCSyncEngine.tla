---------------------------- MODULE MCSyncEngine ----------------------------
(***************************************************************************)
(* Instances of SyncEngine for TLC.                                        *)
(***************************************************************************)
EXTENDS SyncEngine

CONSTANTS i1, i2, none       \* model values

OneInstance == {i1}
TwoInstances == {i1, i2}

EmptyTable == {{}}

(* No gap; a gap that is seen; one that is not.                            *)
FewTables == {{}, {0, 2}, {0, 3}}
MoreTables == {{}, {0, 1}, {0, 1, 3}, {0, 3}}
OneToTwo == {<<1, 2>>}
=============================================================================
