---------------------------- MODULE MC_IndexScan -----------------------------
EXTENDS IndexScan

(* Floats in no order of the record ids, some of them equal.               *)
MCFloatData == [e \in Entries |-> ((3 * e) % 4) - 1]
=============================================================================
