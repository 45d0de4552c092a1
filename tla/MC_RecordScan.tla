---------------------------- MODULE MC_RecordScan ----------------------------
(* Instances of RecordScan for TLC.                                        *)
EXTENDS RecordScan, TLC

Symmetry == Permutations(Data)

=============================================================================
