---------------------------- MODULE MC_Statements ----------------------------
EXTENDS Statements

(* Attribute 1 may be null, attribute 2 is the primary key.                *)
MCFieldLists ==
  {<<[notNull |-> FALSE, isPrimarykey |-> FALSE],
     [notNull |-> FALSE, isPrimarykey |-> TRUE]>>}

Comparing(c, op, v)  == [column |-> c, op |-> op, value |-> v]
Checking(c, op)      == [column |-> c, op |-> op]
Between(c, op, d)    == [column |-> c, op |-> op, other |-> d]

(* Conditions by themselves, and clauses in which guessBestCond has a      *)
(* choice: of two attributes, of two conditions on one, of a comparison    *)
(* and a check for null, and of one that cannot start an index scan.       *)
MCWhereClauses ==
  {<<Comparing(1, "=", 1)>>, <<Comparing(1, "<=", 0)>>, <<Between(1, "<", 2)>>,
   <<Checking(1, "is null")>>, <<Checking(1, "is not null")>>,
   <<Comparing(1, ">", 0), Comparing(2, "<=", 0)>>,
   <<Comparing(2, "=", 1), Comparing(1, "<", 1), Comparing(2, ">", 0)>>,
   <<Comparing(1, ">=", 0), Comparing(1, "<", 1), Checking(1, "is null")>>,
   <<Comparing(1, "=", 0), Comparing(1, "<>", 1)>>,
   <<Between(1, "=", 2), Checking(1, "is null")>>}

(* States that differ in what is never looked at again are one: all that   *)
(* are undefined, and what is in index files that no catalog names.        *)
Named(tb, i) ==
  \E c \in Columns : i \in {IndexNo(tb, c), stored[tb].attribute[c].indexNo}

SeenLater ==
  IF status = "undefined" THEN <<status>>
  ELSE <<catalog, stored, created, file, status, past,
         [tb \in Tables |-> [i \in IndexNumbers |->
           IF Named(tb, i) THEN index[tb][i] ELSE index[tb][i].exists]]>>
=============================================================================
