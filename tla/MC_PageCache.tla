---------------------------- MODULE MC_PageCache ----------------------------
(* Instances of PageCache for TLC.                                         *)
EXTENDS PageCache, TLC

CONSTANTS table, index, v1, v2

MCPageIds == 0 .. 2
MCMaxPageNum == [f \in Files |-> IF f = table THEN 2 ELSE 3]
MCNoKey   == <<-1, -1>>

Symmetry == Permutations(Content)

=============================================================================
