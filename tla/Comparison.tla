----------------------------- MODULE Comparison ------------------------------
(***************************************************************************)
(* How values are compared: by the functions of const.cpp in conditions,   *)
(* and by BTNode::comp (indexing/indexing.cpp) in indexes.  The two differ *)
(* for ints that are far apart, for floats and for dates.                  *)
(*                                                                         *)
(* A value is its bytes and its null bit.  The bytes of a FLOAT, a STRING  *)
(* or a DATE are given as a number, greater for a greater value; so are    *)
(* record ids, which are compared by page, then by slot.                   *)
(***************************************************************************)
EXTENDS Integers

CONSTANTS
  MaxInt,  \* the greatest int
  RIDs     \* record ids

ASSUME MaxIntAssumption == MaxInt \in Nat
ASSUME RIDsAssumption == RIDs \subseteq Nat

Ints == -(MaxInt + 1) .. MaxInt

Types == {"INT", "FLOAT", "STRING", "DATE"}

Cells == [data : Ints, isNull : BOOLEAN]

Operators == {"=", "<>", "<", ">", "<=", ">="}

(* getComparator: the bytes of the two values, with no regard to nulls.    *)
Compare(op, v, w) ==
  \/ op = "="  /\ v = w
  \/ op = "<>" /\ v # w
  \/ op = "<"  /\ v < w
  \/ op = ">"  /\ v > w
  \/ op = "<=" /\ v <= w
  \/ op = ">=" /\ v >= w

(* What an int makes of the difference or sum of two ints.                 *)
Wrap(n) ==
  IF n > MaxInt THEN n - 2 * (MaxInt + 1)
  ELSE IF n < -(MaxInt + 1) THEN n + 2 * (MaxInt + 1) ELSE n

(* What comp makes of two values that are not null.  Of floats it compares *)
(* the first with itself, dates it does not compare.                       *)
CompData(type, v, w) ==
  IF type = "INT" THEN Wrap(v - w) ELSE IF type = "STRING" THEN v - w ELSE 0

(* comp: below 0, 0 or above 0.  Nulls are equal and come first.           *)
Comp(type, c, d) ==
  IF c.isNull THEN IF d.isNull THEN 0 ELSE -1
  ELSE IF d.isNull THEN 1 ELSE CompData(type, c.data, d.data)

(* RID::comp.                                                              *)
CompRids(r, s) == IF r < s THEN -1 ELSE IF r = s THEN 0 ELSE 1

(* A mutant: entries of equal values are equal.                            *)
CompEntriesByValue(type, e, f) == Comp(type, e.cell, f.cell)

(* comp with record ids, which decide when the values are equal.           *)
CompEntries(type, e, f) ==
  IF Comp(type, e.cell, f.cell) = 0 THEN CompRids(e.rid, f.rid)
  ELSE Comp(type, e.cell, f.cell)

(***************************************************************************)
(* Properties                                                              *)
(***************************************************************************)

IndexEntries == [cell : Cells, rid : RIDs]

(* Values whose difference is an int.                                      *)
Close(e, f) == e.cell.data - f.cell.data \in Ints

Precedes(type, e, f) == CompEntries(type, e, f) < 0

(* What the searches in an index rely on: for every type, comp puts        *)
(* entries in an order, in which two entries have the same place only if   *)
(* they are of one record; and entries of ints and strings are in the      *)
(* order of their values.  All this as long as ints are close enough for   *)
(* their difference, which comp returns (indexing.cpp:1035).               *)
CompOrdersEntries ==
  \A type \in Types, e, f \in IndexEntries : Close(e, f) /\ Close(f, e) =>
    /\ ~(Precedes(type, e, f) /\ Precedes(type, f, e))
    /\ Precedes(type, e, f) \/ Precedes(type, f, e) \/ e.rid = f.rid
    /\ type \in {"INT", "STRING"} /\ ~e.cell.isNull /\ ~f.cell.isNull =>
         (Compare("<", e.cell.data, f.cell.data) => Precedes(type, e, f))
    /\ \A g \in IndexEntries : Close(f, g) /\ Close(e, g) =>
         (Precedes(type, e, f) /\ Precedes(type, f, g) => Precedes(type, e, g))

=============================================================================
