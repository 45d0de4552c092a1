------------------------------ MODULE IndexScan ------------------------------
(***************************************************************************)
(* Scans of an index file (IX_IndexScan, indexing/indexing.cpp): what the  *)
(* calls of GetNextEntry return, from the first to the one that finds no   *)
(* entry.  A scan finds its first leaf through the tree and then follows   *)
(* the leaves' links.                                                      *)
(*                                                                         *)
(* SELECT is the only caller and changes nothing while it scans, so a scan *)
(* is an operator on the tree; GetNextEntry's search for its place after a *)
(* deletion is not reached.  It has no branch for a first call with NE_OP  *)
(* (it answers success without an entry); Statements says what SELECT then *)
(* does.                                                                   *)
(***************************************************************************)
EXTENDS BTree, Comparison

CONSTANTS
  NullEntries,  \* the entries of null values, which are least
  FloatData     \* the values of entries if they are floats

ASSUME NullEntriesAssumption ==
  /\ NullEntries \subseteq Entries
  /\ \A e \in NullEntries, f \in Entries \ NullEntries : e < f

ASSUME FloatDataAssumption == FloatData \in [Entries -> Ints]

(* Ints are in the order of the entries, two record ids to a value.        *)
(* Floats are all equal to comp, and in the order of their record ids.     *)
(* The bytes of a null are zero.                                           *)
Data(type, e) ==
  IF e \in NullEntries THEN 0
  ELSE IF type = "FLOAT" THEN FloatData[e] ELSE (e - 1) \div 2

Cell(type, e) == [data |-> Data(type, e), isNull |-> e \in NullEntries]

NotNull(v) == [data |-> v, isNull |-> FALSE]
Null == [data |-> 0, isNull |-> TRUE]

(* Ints are close enough for their differences, as comp needs them.        *)
ASSUME CloseAssumption == \A e, f \in Entries : Data("INT", e) - Data("INT", f) \in Ints

ScanValues(type) == {Data(type, e) : e \in Entries}
ScanOps == {"none", "=", "<", ">", "<=", ">="}

(***************************************************************************)
(* Where a scan begins: a leaf, and the place in it before the next entry. *)
(***************************************************************************)

(* A mutant: the first item whose value is c is passed over.               *)
LastBelowOrAt(type, items, c) ==
  IF items = <<>> \/ Comp(type, c, Cell(type, items[1])) < 0 THEN 0
  ELSE BisectLow([i \in DOMAIN items |-> Comp(type, c, Cell(type, items[i])) > 0], 1) + 1

(* The last item that is below c, by bisection.                            *)
LastBelow(type, items, c) ==
  IF items = <<>> \/ Comp(type, c, Cell(type, items[1])) <= 0 THEN 0
  ELSE BisectLow([i \in DOMAIN items |-> Comp(type, c, Cell(type, items[i])) > 0], 1)

(* findFirstValue: down to the last child whose item is below c, or to the *)
(* first child.                                                            *)
FindFirst(type, t, c) ==
  LET child(v) == LET r == LastBelow(type, Items(t, v), c) IN
                  Childs(t, v)[IF r = 0 THEN 1 ELSE r]
      leaf     == LeafBelow(t, [v \in Pages |-> child(v)])[t.root]
  IN  [leaf |-> leaf, rank |-> LastBelow(type, Items(t, leaf), c)]

FirstLeaf(t) == [leaf |-> t.right, rank |-> 0]

(* tryLoadNext: the entries behind a place, leaf after leaf.               *)
LeafEntries(t) ==
  LET entries[v \in Pages] ==
        LET next == t.node[v].right IN
        Items(t, v) \o (IF next = NULL_NODE THEN <<>> ELSE entries[next])
  IN  entries

EntriesFrom(t, start) ==
  LET entries == LeafEntries(t)[start.leaf] IN SubSeq(entries, start.rank + 1, Len(entries))

(* findNext: the entries that satisfy the condition; after the first, only *)
(* entries greater than the one before are returned.                       *)
Returned(entries, satisfying) ==
  LET first[n \in 0 .. Len(entries)] ==
        IF n = 0 THEN <<>>
        ELSE LET e == entries[n]  seq == first[n - 1] IN
             IF e \in satisfying /\ (seq = <<>> \/ e > seq[Len(seq)])
             THEN Append(seq, e) ELSE seq
  IN  first[Len(entries)]

(* OpenScan, and the first call of GetNextEntry.                           *)
Start(type, t, op, c) ==
  IF op \in {"=", ">", ">="} THEN FindFirst(type, t, c) ELSE FirstLeaf(t)

(* "none" is NO_OP, whose value is not used.                               *)
Satisfying(type, op, v) == {e \in Entries : op = "none" \/ Compare(op, Data(type, e), v)}

(* A mutant: the scan ends where the values are past v.                    *)
ScanForUntilPast(type, t, op, v) ==
  LET entries == EntriesFrom(t, Start(type, t, op, NotNull(v)))
      past    == {i \in DOMAIN entries : op \in {"=", "<", "<="} /\ Data(type, entries[i]) > v}
  IN  Returned(IF past = {} THEN entries
               ELSE SubSeq(entries, 1, (CHOOSE i \in past : \A j \in past : i <= j) - 1),
               Satisfying(type, op, v))

(* The calls of GetNextEntry with a value, to the last leaf.               *)
ScanFor(type, t, op, v) ==
  Returned(EntriesFrom(t, Start(type, t, op, NotNull(v))), Satisfying(type, op, v))

(* With no value and EQ_OP: the nulls.                                     *)
ScanForNull(type, t) == Returned(EntriesFrom(t, Start(type, t, "=", Null)), NullEntries)

(***************************************************************************)
(* Properties                                                              *)
(***************************************************************************)

InOrder(seq) == \A i \in 1 .. Len(seq) - 1 : seq[i] < seq[i + 1]

(* The items of a tree can be searched: see CompOrdersEntries.             *)
ItemsComparable == Running => CompOrdersEntries

ScansReturn(type) ==
  \A op \in ScanOps, v \in ScanValues(type) :
    LET seq == ScanFor(type, tree, op, v) IN
    /\ InOrder(seq)
    /\ ToSet(seq) \ NullEntries =
         (rows \cap Satisfying(type, op, v)) \ NullEntries

(* As long as entries are only inserted, a scan returns the entry of every *)
(* record whose value satisfies the condition, once, in order, however     *)
(* the tree came to be; and it ends.  Nulls, which a comparison should not *)
(* meet (ql.cpp:136), are left out of account.                             *)
ScansFind == Running => ScansReturn("INT")

(* The same of an index of floats, which is in the order of the record ids *)
(* because comp takes all floats for equal (indexing.cpp:1037): a scan     *)
(* goes on to the last leaf and compares each entry by its true value, so  *)
(* it finds what is spread over the index.                                 *)
FloatScansFind == Running => ScansReturn("FLOAT")

(* A scan for nulls returns exactly the entries of the nulls.              *)
NullScansFind ==
  Running => \A type \in {"INT", "FLOAT"} :
    /\ InOrder(ScanForNull(type, tree))
    /\ ToSet(ScanForNull(type, tree)) = rows \cap NullEntries

=============================================================================
