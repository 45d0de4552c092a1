-------------------------------- MODULE Joins --------------------------------
(***************************************************************************)
(* SELECT on several tables (qlmanager/ql.cpp).  If the condition equates  *)
(* indexed attributes of two tables, one of them a primary key, then       *)
(* select_optimize merges scans of the two indexes.  Otherwise the tuples  *)
(* of the product are generated like the numbers of an odometer, one scan  *)
(* for a digit.  Either way a tuple is judged by all conditions and        *)
(* printed if they hold; here it is enough to say which are judged.        *)
(*                                                                         *)
(* A table is the sequence of the join keys of its rows in the order of    *)
(* its scan: of its index for a merge (IndexScan), of its file otherwise   *)
(* (RecordScan), where the keys play no part.  Keys are of type INT and    *)
(* not null, and the condition names the tables in the order of FROM.      *)
(* Nothing changes the tables during a SELECT.                             *)
(***************************************************************************)
EXTENDS Integers, Sequences

CONSTANTS
  Values,     \* join keys
  IntLimit,   \* ints are the numbers from -IntLimit to IntLimit - 1
  MaxRows,    \* bound on the rows of a table
  MaxTables   \* bound on the tables of a SELECT

ASSUME IntLimitAssumption ==
  IntLimit \in Nat \ {0} /\ Values \subseteq -IntLimit .. IntLimit - 1
ASSUME MaxRowsAssumption == MaxRows \in Nat
ASSUME MaxTablesAssumption == MaxTables \in Nat

VARIABLES
  rows,      \* the tables
  method,    \* "merge" or "product"
  primary,   \* the tables whose join attribute is a primary key
  place,     \* for each table the row its scan has come to
  judged,    \* history: the tuples judged, as places
  repeated,  \* history: the tuples judged more than once
  answer     \* "open", "running", "done" or "error"

vars == <<rows, method, primary, place, judged, repeated, answer>>
tables == <<rows, method, primary>>

Tables == 1 .. Len(rows)

(* Scans of an index.                                                      *)
KeySequences ==
  {keys \in UNION {[1 .. n -> Values] : n \in 0 .. MaxRows} :
     \A i, j \in DOMAIN keys : i <= j => keys[i] <= keys[j]}

Init ==
  /\ \E n \in 2 .. MaxTables : rows \in [1 .. n -> KeySequences]
  /\ \/ method = "merge" /\ Len(rows) = 2 /\ primary \in {{1}, {2}, {1, 2}}
     \/ method = "product" /\ primary = {}
  /\ place = [t \in Tables |-> 0]
  /\ judged = {}
  /\ repeated = {}
  /\ answer = "open"

Judge(tuples) ==
  /\ judged' = judged \cup tuples
  /\ repeated' = repeated \cup (judged \cap tuples)

Open ==
  /\ answer = "open"
  /\ \A t \in Tables : rows[t] # <<>>
  /\ place' = [t \in Tables |-> 1]
  /\ answer' = "running"
  /\ UNCHANGED <<tables, judged, repeated>>

(* A scan without a first row is taken for an error.                       *)
OpenFails ==
  /\ answer = "open"
  /\ \E t \in Tables : rows[t] = <<>>
  /\ answer' = "error"
  /\ UNCHANGED <<tables, place, judged, repeated>>

AtEnd(t) == place[t] = Len(rows[t])

(***************************************************************************)
(* select_optimize                                                         *)
(***************************************************************************)

(* An int difference wraps around.                                         *)
Difference(v, w) == ((v - w + IntLimit) % (2 * IntLimit)) - IntLimit

(* calculateDiff of the rows the scans have come to.                       *)
FirstMinusSecond == Difference(rows[1][place[1]], rows[2][place[2]])

WithPrimaryKey == IF 1 \in primary THEN 1 ELSE 2

(* A mutant: equal keys move the side of the primary key.                  *)
MovingPrimaryKey ==
  IF FirstMinusSecond = 0 THEN WithPrimaryKey ELSE IF FirstMinusSecond < 0 THEN 1 ELSE 2

(* Equal keys move the other side than the primary key's.                  *)
Moving ==
  IF FirstMinusSecond = 0 THEN 3 - WithPrimaryKey ELSE IF FirstMinusSecond < 0 THEN 1 ELSE 2

JudgeEqual == Judge({tuple \in {place} : FirstMinusSecond = 0})

Merge ==
  /\ method = "merge"
  /\ answer = "running"
  /\ ~AtEnd(Moving)
  /\ JudgeEqual
  /\ place' = [place EXCEPT ![Moving] = @ + 1]
  /\ UNCHANGED <<tables, answer>>

MergeEnds ==
  /\ method = "merge"
  /\ answer = "running"
  /\ AtEnd(Moving)
  /\ JudgeEqual
  /\ answer' = "done"
  /\ UNCHANGED <<tables, place>>

(***************************************************************************)
(* hasNextRecordList                                                       *)
(***************************************************************************)

(* The last digit that can go up goes up.                                  *)
IsDigit(t) == ~AtEnd(t) /\ \A u \in Tables : u > t => AtEnd(u)

(* A mutant: the digits behind it stay where they are.                     *)
NextTupleKeepsRest(t) == [place EXCEPT ![t] = @ + 1]

(* A mutant: their scans are reset, but not moved to their first rows.     *)
NextTupleBeforeFirst(t) ==
  [u \in Tables |-> IF u < t THEN place[u] ELSE IF u = t THEN place[u] + 1 ELSE 0]

(* The digits behind it begin again: their scans are reset.                *)
NextTuple(t) ==
  [u \in Tables |-> IF u < t THEN place[u] ELSE IF u = t THEN place[u] + 1 ELSE 1]

Product ==
  /\ method = "product"
  /\ answer = "running"
  /\ Judge({place})
  /\ \E t \in Tables : IsDigit(t) /\ place' = NextTuple(t)
  /\ UNCHANGED <<tables, answer>>

(* A mutant: after the last tuple the scans, reset, begin again.           *)
ProductRestarts ==
  /\ method = "product"
  /\ answer = "running"
  /\ \A t \in Tables : AtEnd(t)
  /\ Judge({place})
  /\ place' = [t \in Tables |-> 1]
  /\ UNCHANGED <<tables, answer>>

ProductEnds ==
  /\ method = "product"
  /\ answer = "running"
  /\ \A t \in Tables : AtEnd(t)
  /\ Judge({place})
  /\ answer' = "done"
  /\ UNCHANGED <<tables, place>>

(***************************************************************************)
(* The specification                                                       *)
(***************************************************************************)

Next == Open \/ OpenFails \/ Merge \/ MergeEnds \/ Product \/ ProductEnds

(* SELECT runs on until it returns.                                        *)
Spec == Init /\ [][Next]_vars /\ WF_vars(Next)

(***************************************************************************)
(* Properties                                                              *)
(***************************************************************************)

Tuples == {tuple \in [Tables -> 1 .. MaxRows] : \A t \in Tables : tuple[t] <= Len(rows[t])}

TypeOK ==
  /\ Len(rows) \in 2 .. MaxTables
  /\ rows \in [Tables -> KeySequences]
  /\ \/ method = "merge" /\ Len(rows) = 2 /\ primary \in {{1}, {2}, {1, 2}}
     \/ method = "product" /\ primary = {}
  /\ answer \in {"open", "running", "done", "error"}
  /\ answer \in {"running", "done"} => place \in Tuples
  /\ judged \subseteq Tuples
  /\ repeated \subseteq judged

(* What a merge relies on and the program does not see to: that keys are   *)
(* close enough for their difference, and that primary keys are different  *)
(* (checkPrimaryKey is false, const.h:20).                                 *)
Distinct(keys) == \A i, j \in DOMAIN keys : i # j => keys[i] # keys[j]

DifferencesFit ==
  \A t, u \in Tables : \A i \in DOMAIN rows[t], j \in DOMAIN rows[u] :
    Difference(rows[t][i], rows[u][j]) = rows[t][i] - rows[u][j]

Mergeable == DifferencesFit /\ \A t \in primary : Distinct(rows[t])

(* When select_optimize returns, it has judged every pair of rows with     *)
(* equal keys, however often a key occurs on the other side: a pair that   *)
(* was not judged is lost for the answer.                                  *)
MergeFindsMatches ==
  method = "merge" /\ answer = "done" /\ Mergeable =>
    \A tuple \in Tuples : rows[1][tuple[1]] = rows[2][tuple[2]] => tuple \in judged

(* Without a merge, every tuple of the product has been judged at the end. *)
ProductFindsAll ==
  method = "product" /\ answer = "done" => judged = Tuples

(* No tuple is judged, and so printed, twice.                              *)
NoTupleTwice == repeated = {}

(* A SELECT ends.                                                          *)
Ends == <>(answer \in {"done", "error"})

=============================================================================
