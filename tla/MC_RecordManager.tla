-------------------------- MODULE MC_RecordManager --------------------------
(* Instances of RecordManager for TLC.                                     *)
EXTENDS RecordManager, TLC

Symmetry == Permutations(Data)

=============================================================================
