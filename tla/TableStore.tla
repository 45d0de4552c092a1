----------------------------- MODULE TableStore ------------------------------
(***************************************************************************)
(* What the statements on records promise a client, who does not see       *)
(* bytes, null bits, indexes, handles or restarts: tables of rows, each    *)
(* row a value or null for each attribute.  INSERT adds one row.  DELETE   *)
(* and UPDATE treat all rows that their WHERE clause chooses alike, and no *)
(* other.  Nothing else changes rows, but for DROP DATABASE and DROP       *)
(* TABLE: no statement that is refused, no index that comes or goes, no    *)
(* end of the program.  Statements says which of its statements is which   *)
(* step of this specification (StatementsMatchStore).                      *)
(*                                                                         *)
(* Whether the rows of a table that is dropped are gone is not promised:   *)
(* documents/systemmanager.md:83 says that DropTable destroys the table's  *)
(* file, and dropTable (sm.cpp:360-382) leaves it for the next table of    *)
(* that name.  What INSERT writes into attributes it got no value for is   *)
(* not promised, nor that a comparison with a null comes out one way.  And *)
(* once an INSERT gave fewer values than attributes, UPDATE may stop       *)
(* between two rows.                                                       *)
(***************************************************************************)
EXTENDS Comparison

CONSTANTS
  Tables,       \* names of tables
  Columns,      \* attributes
  Values,       \* values of attributes
  ValueLists,   \* functions from some attributes to the values inserted
  WhereClauses, \* sequences of conditions
  SetClauses    \* functions from some attributes to their new values

VARIABLES
  rows,  \* for each table a function from the ids of its rows
  exact  \* every INSERT so far gave all values

Null == 0 - 1
Row  == [Columns -> Values \cup {Null}]

NoRows == [tb \in Tables |-> [r \in {} |-> Null]]

Init == rows = NoRows /\ exact = TRUE

(***************************************************************************)
(* WHERE                                                                   *)
(***************************************************************************)

ComparesNull(row, cond) ==
  /\ cond.op \in Operators
  /\ \/ row[cond.column] = Null
     \/ "other" \in DOMAIN cond /\ row[cond.other] = Null

Satisfies(row, cond) ==
  \/ cond.op = "is null"     /\ row[cond.column] = Null
  \/ cond.op = "is not null" /\ row[cond.column] # Null
  \/ /\ cond.op \in Operators
     /\ Compare(cond.op, row[cond.column],
                IF "other" \in DOMAIN cond THEN row[cond.other] ELSE cond.value)

MustChoose(row, where) ==
  \A i \in DOMAIN where : ~ComparesNull(row, where[i]) /\ Satisfies(row, where[i])

MayChoose(row, where) ==
  \A i \in DOMAIN where : ComparesNull(row, where[i]) \/ Satisfies(row, where[i])

(***************************************************************************)
(* Statements: the rows of a table before, and after                       *)
(***************************************************************************)

Inserts(old, new, values) ==
  \E r \in RIDs \ DOMAIN old :
    /\ DOMAIN new = DOMAIN old \cup {r}
    /\ new[r] \in Row
    /\ \A c \in DOMAIN values : new[r][c] = values[c]
    /\ \A q \in DOMAIN old : new[q] = old[q]

Deletes(old, new, where) ==
  /\ DOMAIN new \subseteq DOMAIN old
  /\ \A r \in DOMAIN new : new[r] = old[r] /\ ~MustChoose(old[r], where)
  /\ \A r \in DOMAIN old \ DOMAIN new : MayChoose(old[r], where)

Sets(old, new, set) ==
  \A c \in Columns : new[c] = IF c \in DOMAIN set THEN set[c] ELSE old[c]

(* The rows that the clause must choose are changed, unless UPDATE may     *)
(* stop.                                                                   *)
Updates(old, new, where, set) ==
  /\ DOMAIN new = DOMAIN old
  /\ \A r \in DOMAIN old :
       /\ new[r] = old[r] \/ (Sets(old[r], new[r], set) /\ MayChoose(old[r], where))
       /\ exact /\ MustChoose(old[r], where) => Sets(old[r], new[r], set)
       /\ new[r] \in Row

(***************************************************************************)
(* The specification                                                       *)
(***************************************************************************)

OthersStay(tb) ==
  /\ DOMAIN rows' = Tables
  /\ \A other \in Tables \ {tb} : rows'[other] = rows[other]

Insert(tb, values) ==
  /\ Inserts(rows[tb], rows'[tb], values)
  /\ OthersStay(tb)
  /\ exact' = (exact /\ DOMAIN values = Columns)

Delete(tb, where) ==
  /\ Deletes(rows[tb], rows'[tb], where)
  /\ OthersStay(tb)
  /\ UNCHANGED exact

Update(tb, where, set) ==
  /\ Updates(rows[tb], rows'[tb], where, set)
  /\ OthersStay(tb)
  /\ UNCHANGED exact

DropTable(tb) ==
  /\ OthersStay(tb)
  /\ rows'[tb] \in {rows[tb], NoRows[tb]}
  /\ UNCHANGED exact

DropDatabase == rows' = NoRows /\ UNCHANGED exact

(* A statement that is refused, or that is not about rows.                 *)
ChangesNothing == UNCHANGED <<rows, exact>>

Next ==
  \/ ChangesNothing
  \/ DropDatabase
  \/ \E tb \in Tables :
       \/ DropTable(tb)
       \/ \E values \in ValueLists : Insert(tb, values)
       \/ \E where \in WhereClauses :
            \/ Delete(tb, where)
            \/ \E set \in SetClauses : Update(tb, where, set)

Spec == Init /\ [][Next]_<<rows, exact>>

=============================================================================
