----------------------------- MODULE Statements ------------------------------
(***************************************************************************)
(* The statements on the records of a table (qlmanager/ql.cpp, and the     *)
(* insert rule of parser/parser.y): INSERT, DELETE, UPDATE, and what       *)
(* SELECT on one table answers.  They open the table's file and its        *)
(* indexes and keep the indexes in step with the records.                  *)
(*                                                                         *)
(* A statement is one action: it changes one record after the other, in    *)
(* the order of their ids, and the entries of each, and returns where the  *)
(* first call fails.  Primary and foreign keys are not checked:            *)
(* checkPrimaryKey and checkForeignKey are false (const.h:20).  Conditions *)
(* and clauses name attributes of the table.                               *)
(***************************************************************************)
EXTENDS Catalog, FiniteSets, Sequences

NullChecks == {"is null", "is not null"}

(* An attribute is compared with a value or with another attribute, or     *)
(* asked whether it is null.                                               *)
Conditions ==
  [column : Columns, op : Operators, value : Values]
    \cup [column : Columns, op : Operators, other : Columns]
    \cup [column : Columns, op : NullChecks]

CONSTANT WhereClauses  \* sequences of conditions, all of which must hold

ASSUME WhereClausesAssumption == WhereClauses \subseteq Seq(Conditions) \ {<<>>}

Operand(record, cond) ==
  IF "other" \in DOMAIN cond THEN record[cond.other].data ELSE cond.value

(* ConditionInfo::Verify.                                                  *)
Verify(record, cond) ==
  LET cell == record[cond.column] IN
  \/ cond.op = "is null"     /\ cell.isNull
  \/ cond.op = "is not null" /\ ~cell.isNull
  \/ cond.op \in Operators   /\ Compare(cond.op, cell.data, Operand(record, cond))

(* A mutant: one of the conditions suffices.                               *)
ChosenByAny(tb, where) ==
  {r \in Rows(tb) : \E i \in DOMAIN where : Verify(file[tb].record[r], where[i])}

(* checkSatisfiedCond: the records that meet every condition.              *)
Chosen(tb, where) ==
  {r \in Rows(tb) : \A i \in DOMAIN where : Verify(file[tb].record[r], where[i])}

(* What a WHERE clause can choose; statements see no more of it.           *)
ChosenSets(tb) == {Chosen(tb, where) : where \in WhereClauses}

Indexed(tb) == {c \in Columns : HasIndex(tb, c)}

Refuses(tb, c) ==
  catalog[tb].attribute[c].isPrimarykey \/ catalog[tb].attribute[c].notNull

(* An index whose file DROP INDEX or DROP TABLE removed before the program *)
(* ended, so that the catalog names it again: OpenIndex fails.             *)
FileMissing(tb, c) == HasIndex(tb, c) /\ ~index[tb][IndexNo(tb, c)].exists

Undefined ==
  status' = "undefined" /\ UNCHANGED <<catalog, stored, created, file, index, past>>

(* The destructor of a table's handle calls BufPageManager::close, which   *)
(* writes the frames of all files.                                         *)
HandlesClosed == stored' = catalog

(***************************************************************************)
(* INSERT                                                                  *)
(***************************************************************************)

(* A mutant: the bytes of a null are not cleared.                          *)
NewCellRaw(v) == [data |-> v, isNull |-> v = Null]

(* ValueData: a null has its bit set and zero bytes.                       *)
NewCell(v) == IF v = Null THEN [data |-> 0, isNull |-> TRUE]
              ELSE [data |-> v, isNull |-> FALSE]

(* What the values make of an attribute.  INSERT does not ask for a value  *)
(* of each: the bytes of the rest are zero, and not null in the record,    *)
(* but null for an index (IndexStore's constructor).                       *)
NewRecord(values) ==
  [c \in Columns |-> NewCell(IF c \in DOMAIN values THEN values[c] ELSE 0)]

NewKey(values, c) == IF c \in DOMAIN values THEN Key(NewCell(values[c])) ELSE Null

(* The insert rule makes the table's file if it cannot be opened, and      *)
(* opens the indexes.  If that fails it returns from the parser and leaves *)
(* its handles open.                                                       *)
InsertIndexMissing(tb) ==
  /\ Exists(tb)
  /\ \E c \in Columns : FileMissing(tb, c)
  /\ file' = [file EXCEPT ![tb].exists = TRUE]
  /\ UNCHANGED <<catalog, stored, created, index, status, past>>

(* Every index is opened into the first handle (nowposofhandle stays 0):   *)
(* with two indexes the second handle is used, and destroyed, unopened.    *)
AfterInsert(tb) == IF Cardinality(Indexed(tb)) > 1 THEN "undefined" ELSE status

(* Values are refused before anything is written: a null that Refuses, a   *)
(* value of another type, or more values than attributes.                  *)
InsertRefused(tb) ==
  /\ Exists(tb)
  /\ \A c \in Columns : ~FileMissing(tb, c)
  /\ file' = [file EXCEPT ![tb].exists = TRUE]
  /\ status' = AfterInsert(tb)
  /\ HandlesClosed
  /\ UNCHANGED <<catalog, created, index, past>>

(* The record first, then an entry for each index.                         *)
Insert(tb, values) ==
  \E r \in RIDs \ Rows(tb) :
    /\ Exists(tb)
    /\ \A c \in Columns : ~FileMissing(tb, c)
    /\ \A c \in DOMAIN values : values[c] = Null => ~Refuses(tb, c)
    /\ HandlesClosed
    /\ status' = AfterInsert(tb)
    /\ past' = IF DOMAIN values = Columns THEN past ELSE past \cup {"short"}
    /\ UNCHANGED <<catalog, created>>
    /\ file' = [file EXCEPT ![tb] =
         [exists |-> TRUE, record |-> [file[tb].record EXCEPT ![r] = NewRecord(values)]]]
    /\ index' = [index EXCEPT ![tb] = [i \in IndexNumbers |->
         [exists  |-> index[tb][i].exists,
          entries |-> index[tb][i].entries \cup
            {<<NewKey(values, c), r>> : c \in {d \in Columns : IndexNo(tb, d) = i}}]]]

(* Values for the first attributes, at least one.                          *)
ValueLists ==
  UNION {[{d \in Columns : d <= c} -> Values \cup {Null}] : c \in Columns}

(***************************************************************************)
(* DELETE                                                                  *)
(***************************************************************************)

(* Delete fills its lists of indexes only if openScan fails, which it      *)
(* never does: if the table ever had an index, it opens indexes by numbers *)
(* it never set.  And without a file it destroys a handle never opened.    *)
DeleteUndefined(tb) ==
  /\ Exists(tb)
  /\ catalog[tb].indexCount # 0 \/ ~file[tb].exists
  /\ Undefined

Delete(tb, chosen) ==
  /\ Exists(tb)
  /\ catalog[tb].indexCount = 0
  /\ file[tb].exists
  /\ HandlesClosed
  /\ UNCHANGED <<catalog, created, index, status, past>>
  /\ file' = [file EXCEPT ![tb].record = [r \in RIDs |->
       IF r \in chosen THEN NoRecord ELSE @[r]]]

(***************************************************************************)
(* UPDATE.  set gives the attributes of the set clauses their new values;  *)
(* the clauses are in the order of the attributes.                         *)
(***************************************************************************)

(* A mutant: a null keeps its bit clear.                                   *)
ApplyClauseKeepsBit(cell, v) == IF v = Null THEN cell ELSE [data |-> v, isNull |-> FALSE]

(* applyClause: actLength is 0 for a null, so the bytes stay.              *)
ApplyClause(cell, v) ==
  IF v = Null THEN [cell EXCEPT !.isNull = TRUE] ELSE [data |-> v, isNull |-> FALSE]

ApplyClauses(record, set) ==
  [c \in Columns |-> IF c \in DOMAIN set THEN ApplyClause(record[c], set[c]) ELSE record[c]]

Entries(tb, c)     == index[tb][IndexNo(tb, c)].entries
OldEntry(tb, c, r) == <<Key(file[tb].record[r][c]), r>>
NewEntry(c, r, set) == <<set[c], r>>

(* DeleteEntry does not find the record's entry.                           *)
DeleteFails(tb, c, r) == OldEntry(tb, c, r) \notin Entries(tb, c)

(* A mutant: the new entry is inserted before the old one is deleted.      *)
InsertFailsFirst(tb, c, r, set) == NewEntry(c, r, set) \in Entries(tb, c)

(* InsertEntry finds the entry there already.                              *)
InsertFails(tb, c, r, set) ==
  NewEntry(c, r, set) \in Entries(tb, c) \ {OldEntry(tb, c, r)}

SetIndexed(tb, set) == Indexed(tb) \cap DOMAIN set

StopsBefore(tb, r, set) == \E c \in SetIndexed(tb, set) : DeleteFails(tb, c, r)
StopsAfter(tb, r, set)  == \E c \in SetIndexed(tb, set) : InsertFails(tb, c, r, set)

(* The records that are read: up to the first with a call that fails.      *)
Reached(tb, chosen, set) ==
  {r \in chosen :
     \A q \in chosen :
       q < r => ~StopsBefore(tb, q, set) /\ ~StopsAfter(tb, q, set)}

Updated(tb, chosen, set) == {r \in Reached(tb, chosen, set) : ~StopsBefore(tb, r, set)}

(* The entries of record r that go, and that come, in the index of c.      *)
Deletes(tb, c, r, set) ==
  \A d \in SetIndexed(tb, set) : d <= c => ~DeleteFails(tb, d, r)
Inserts(tb, c, r, set) ==
  /\ ~StopsBefore(tb, r, set)
  /\ \A d \in SetIndexed(tb, set) : d <= c => ~InsertFails(tb, d, r, set)

EntriesAfter(tb, c, chosen, set) ==
  LET reached == Reached(tb, chosen, set) IN
  (Entries(tb, c) \ {OldEntry(tb, c, r) : r \in {q \in reached : Deletes(tb, c, q, set)}})
    \cup {NewEntry(c, r, set) : r \in {q \in reached : Inserts(tb, c, q, set)}}

CanSet(tb, set) == \A c \in DOMAIN set : set[c] = Null => ~Refuses(tb, c)

(* Without the table's file, or an index's, Update returns and destroys    *)
(* handles that were never opened.                                         *)
UpdateUndefined(tb, set) ==
  /\ Exists(tb)
  /\ CanSet(tb, set)
  /\ ~file[tb].exists \/ \E c \in DOMAIN set : FileMissing(tb, c)
  /\ Undefined

Update(tb, chosen, set) ==
  /\ Exists(tb)
  /\ CanSet(tb, set)
  /\ file[tb].exists
  /\ \A c \in DOMAIN set : ~FileMissing(tb, c)
  /\ HandlesClosed
  /\ UNCHANGED <<catalog, created, status, past>>
  /\ file' = [file EXCEPT ![tb].record = [r \in RIDs |->
       IF r \in Updated(tb, chosen, set) THEN ApplyClauses(@[r], set) ELSE @[r]]]
  /\ index' = [index EXCEPT ![tb] = [i \in IndexNumbers |->
       [exists  |-> index[tb][i].exists,
        entries |->
          IF \E c \in SetIndexed(tb, set) : IndexNo(tb, c) = i
          THEN EntriesAfter(tb, CHOOSE c \in Columns : IndexNo(tb, c) = i, chosen, set)
          ELSE index[tb][i].entries]]]

SetClauses == UNION {[columns -> Values \cup {Null}] : columns \in SUBSET Columns \ {{}}}

(***************************************************************************)
(* SELECT on one table                                                     *)
(***************************************************************************)

(* A mutant: a scan for nulls looks for their zero bytes.                  *)
ScanEntriesByBytes(tb, cond) ==
  {e \in Entries(tb, cond.column) :
     \/ cond.op = "is null" /\ e[1] = 0
     \/ cond.op \in Operators /\ e[1] # Null /\ Compare(cond.op, e[1], cond.value)
     \/ cond.op \in {"<", "<="} /\ e[1] = Null /\ Compare(cond.op, 0, cond.value)}

(* The entries IX_IndexScan goes through for a condition: with "<" and     *)
(* "<=" the scan begins with the nulls and compares their zero bytes.      *)
ScanEntries(tb, cond) ==
  {e \in Entries(tb, cond.column) :
     \/ cond.op = "is null" /\ e[1] = Null
     \/ cond.op \in Operators /\ e[1] # Null /\ Compare(cond.op, e[1], cond.value)
     \/ cond.op \in {"<", "<="} /\ e[1] = Null /\ Compare(cond.op, 0, cond.value)}

(* The conditions guessBestCond may take: those with a value, or on nulls, *)
(* of an attribute with an index.                                          *)
Candidates(tb, where) ==
  {i \in DOMAIN where : "other" \notin DOMAIN where[i] /\ HasIndex(tb, where[i].column)}

IsPrimary(tb, where, i) == catalog[tb].attribute[where[i].column].isPrimarykey

(* guessBestCond: the first on a primary key, or else the last with a      *)
(* value, or else the last.                                                *)
IsBest(tb, where, i) ==
  LET candidates == Candidates(tb, where)
      primary    == {j \in candidates : IsPrimary(tb, where, j)}
      valued     == {j \in candidates : where[j].op \in Operators}
  IN  IF primary # {} THEN i \in primary /\ \A j \in primary : i <= j
      ELSE IF valued # {} THEN i \in valued /\ \A j \in valued : j <= i
      ELSE i \in candidates /\ \A j \in candidates : j <= i

Best(tb, where) == where[CHOOSE i \in DOMAIN where : IsBest(tb, where, i)]

ScansIndex(tb, where) == Candidates(tb, where) # {}

(* Every record that the index names is read and verified.                 *)
SelectByIndex(tb, where) ==
  {r \in Chosen(tb, where) : \E e \in ScanEntries(tb, Best(tb, where)) : e[2] = r}

SelectByScan(tb, where) == Chosen(tb, where)

(* openScanByCondition makes IS NOT NULL an NE_OP too, and a scan with     *)
(* NE_OP answers success without an entry (GetNextEntry has no branch for  *)
(* it): SELECT then reads the record of page -1 and slot -1.               *)
CannotStart(tb, where) == Best(tb, where).op \in {"<>", "is not null"}

(* SELECT changes nothing, but its handles are closed.                     *)
Select(tb, where) ==
  /\ Exists(tb)
  /\ file[tb].exists
  /\ HandlesClosed
  /\ UNCHANGED <<catalog, created, file, index, status, past>>
  /\ ScansIndex(tb, where) =>
       ~FileMissing(tb, Best(tb, where).column) /\ ~CannotStart(tb, where)

SelectUndefined(tb, where) ==
  /\ Exists(tb)
  /\ \/ ~file[tb].exists
     \/ /\ ScansIndex(tb, where)
        /\ FileMissing(tb, Best(tb, where).column) \/ CannotStart(tb, where)
  /\ Undefined

(***************************************************************************)
(* The specification                                                       *)
(***************************************************************************)

(* A statement with undefined behaviour ends before it does anything here. *)
RecordStatement(tb) ==
  \/ \E values \in ValueLists :
       /\ Insert(tb, values)
       /\ asked' = [statement |-> "INSERT", table |-> tb, values |-> values]
  \/ \E chosen \in ChosenSets(tb) :
       /\ Delete(tb, chosen)
       /\ asked' = [statement |-> "DELETE", table |-> tb, chosen |-> chosen]
  \/ \E chosen \in ChosenSets(tb), set \in SetClauses :
       /\ Update(tb, chosen, set)
       /\ asked' = [statement |-> "UPDATE", table |-> tb, chosen |-> chosen, set |-> set]
  \/ /\ \/ InsertIndexMissing(tb)
        \/ InsertRefused(tb)
        \/ DeleteUndefined(tb)
        \/ \E set \in SetClauses : UpdateUndefined(tb, set)
        \/ \E where \in WhereClauses : Select(tb, where) \/ SelectUndefined(tb, where)
     /\ asked' = NoChange

Next ==
  \/ DatabaseStatement
  \/ /\ status = "running"
     /\ \E tb \in Tables : CatalogStatement(tb) \/ RecordStatement(tb)

Spec == Init /\ [][Next]_vars

(***************************************************************************)
(* Properties                                                              *)
(***************************************************************************)

Running == status = "running"

Attribute == [notNull : BOOLEAN, isPrimarykey : BOOLEAN, indexNo : {None} \cup IndexNumbers]

CatalogType ==
  [Tables -> [indexCount : {None} \cup 0 .. MaxIndexes, attribute : [Columns -> Attribute]]]

TypeOK ==
  /\ catalog \in CatalogType
  /\ stored \in CatalogType
  /\ created \in BOOLEAN
  /\ file \in [Tables -> [exists : BOOLEAN, record : [RIDs -> Record \cup {NoRecord}]]]
  /\ index \in [Tables -> [IndexNumbers ->
       [exists : BOOLEAN, entries : SUBSET ((Values \cup {Null}) \X RIDs)]]]
  /\ status \in {"idle", "running", "undefined"}
  /\ past \subseteq PastEvents

(* What the program has created is on disk when it ends: a table in the    *)
(* catalog is in the stored one with the same attributes, an index with    *)
(* the same number, and no number of the stored count has been passed      *)
(* over.  So EXIT, or a kill, undoes only what DROP did, and refused       *)
(* indexes: createTable and createIndex force the catalog to disk, the     *)
(* other statements leave it in the buffer.                                *)
CreatedIsStored ==
  Running => \A tb \in Tables : Exists(tb) =>
    /\ stored[tb] # NoTable
    /\ stored[tb].indexCount <= catalog[tb].indexCount
    /\ \A c \in Columns :
         \/ stored[tb].attribute[c] = catalog[tb].attribute[c]
         \/ /\ ~HasIndex(tb, c)
            /\ [stored[tb].attribute[c] EXCEPT !.indexNo = None] = catalog[tb].attribute[c]

(* Two attributes never share an index file.  An attribute's index file is *)
(* there, unless the program ended after a DROP that had removed it; and   *)
(* no index file stays behind without an attribute, unless CREATE DATABASE *)
(* emptied the catalog.  All this whatever was created, dropped, refused   *)
(* and undone before: DROP INDEX leaves indexCount as it is, so that a     *)
(* number is not given out twice.                                          *)
IndexFilesNamed ==
  Running => \A tb \in Tables :
    /\ \A c, d \in Columns : HasIndex(tb, c) /\ IndexNo(tb, c) = IndexNo(tb, d) => c = d
    /\ "undone" \notin past => \A c \in Columns : ~FileMissing(tb, c)
    /\ "emptied" \notin past => \A i \in IndexNumbers :
         index[tb][i].exists => \E c \in Columns : IndexNo(tb, c) = i

(* ql.md:23, ql.md:30, ql.md:32: INSERT, DELETE and UPDATE maintain the    *)
(* indexes.  As long as no statement has had undefined behaviour, and each *)
(* INSERT gave all values, an index whose file is there holds an entry for *)
(* each record of its table, with the value and the null bit the record    *)
(* has now, and nothing else; also when it was created later than the      *)
(* records, the records outlived an earlier table or catalog, or the table *)
(* or the index was dropped and is back.                                   *)
IndexesMatchRecords ==
  Running /\ "short" \notin past => \A tb \in Tables, c \in Columns :
    HasIndex(tb, c) /\ ~FileMissing(tb, c) => Entries(tb, c) = EntriesOf(tb, c)

(* Which condition guessBestCond takes, and that it has an index, makes no *)
(* difference to what SELECT answers, as long as no null is compared with  *)
(* a value (ql.cpp:136 says that none should be).  A null that UPDATE      *)
(* wrote still has its old bytes, which only the index hides.              *)
SelectsAgree ==
  Running /\ "short" \notin past => \A tb \in Tables, where \in WhereClauses :
    ScansIndex(tb, where) => LET cond == Best(tb, where) IN
      /\ ~FileMissing(tb, cond.column)
      /\ ~CannotStart(tb, where)
      /\ cond.op \in Operators => \A r \in Rows(tb) : ~file[tb].record[r][cond.column].isNull
      => SelectByIndex(tb, where) = SelectByScan(tb, where)

(* The rows of the tables as a client knows them.                          *)
SeenRows ==
  [tb \in Tables |-> [r \in Rows(tb) |->
    [c \in Columns |-> Key(file[tb].record[r][c])]]]

Client == INSTANCE TableStore WITH rows <- SeenRows, exact <- "short" \notin past

(* The rows change as TableStore lets them: a statement that changes rows  *)
(* never stops between two of them, although UPDATE works record by record *)
(* and index by index and gives up when an index does not hold what it     *)
(* looks for.  What a null's old bytes are, which indexes there are and    *)
(* when the program ended do not show.                                     *)
ImplementsTableStore == Client!Spec

(* The WHERE clauses that the last statement on tb may have had.           *)
ClausesChoosing(tb, chosen) == {where \in WhereClauses : Chosen(tb, where) = chosen}

RowsChangeAs(a) ==
  /\ a.statement = "none"          => Client!ChangesNothing
  /\ a.statement = "DROP DATABASE" => Client!DropDatabase
  /\ a.statement = "DROP TABLE"    => Client!DropTable(a.table)
  /\ a.statement = "INSERT"        => Client!Insert(a.table, a.values)
  /\ a.statement = "DELETE" =>
       \A where \in ClausesChoosing(a.table, a.chosen) : Client!Delete(a.table, where)
  /\ a.statement = "UPDATE" =>
       \A where \in ClausesChoosing(a.table, a.chosen) :
         Client!Update(a.table, where, a.set)

(* Each statement does to the rows what its own clauses say: INSERT adds   *)
(* the values it was given; DELETE and UPDATE change the rows that meet    *)
(* all conditions of their WHERE, and no other, UPDATE to the values of    *)
(* its SET; the statements on tables, indexes and databases, the refused   *)
(* ones and the end of the program change none.                            *)
StatementsMatchStore == [][RowsChangeAs(asked')]_vars

=============================================================================
