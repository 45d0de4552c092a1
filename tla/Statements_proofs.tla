-------------------------- MODULE Statements_proofs --------------------------
(***************************************************************************)
(* For every set of tables, attributes, values, record ids and WHERE       *)
(* clauses, and every bound on the indexes of a table: the invariants of   *)
(* Statements.                                                             *)
(***************************************************************************)
EXTENDS Statements, WellFoundedInduction, TLAPS

USE MaxIntAssumption, RIDsAssumption, ValuesAssumption, MaxIndexesAssumption,
    ColumnsAssumption, FieldListsAssumption, NoRecordAssumption, WhereClausesAssumption

(***************************************************************************)
(* The inductive invariant                                                 *)
(***************************************************************************)

StoredNo(tb, c) == stored[tb].attribute[c].indexNo

(* Numbers of indexes are below the count, and each is of one attribute.   *)
Numbered(cat) ==
  \A tb \in Tables :
    /\ cat[tb] # NoTable => cat[tb].indexCount >= 0
    /\ \A c \in Columns : cat[tb].attribute[c].indexNo >= 0 =>
         /\ cat[tb].attribute[c].indexNo < cat[tb].indexCount
         /\ \A d \in Columns :
              cat[tb].attribute[d].indexNo = cat[tb].attribute[c].indexNo => d = c

(* IndexFilesNamed, of what is on disk while no program runs.              *)
StoredFilesNamed ==
  status = "idle" => \A tb \in Tables :
    /\ "undone" \notin past => \A c \in Columns :
         StoredNo(tb, c) >= 0 => index[tb][StoredNo(tb, c)].exists
    /\ "emptied" \notin past => \A i \in IndexNumbers :
         index[tb][i].exists => \E c \in Columns : StoredNo(tb, c) = i

(* The index that DROP removed has no file, although it is stored.         *)
DroppedFilesGone ==
  Running => \A tb \in Tables, c \in Columns :
    StoredNo(tb, c) >= 0 /\ ~HasIndex(tb, c) => ~index[tb][StoredNo(tb, c)].exists

(* IndexesMatchRecords, of what is on disk while no program runs.          *)
StoredIndexesMatch ==
  status = "idle" /\ "short" \notin past => \A tb \in Tables, c \in Columns :
    StoredNo(tb, c) >= 0 /\ index[tb][StoredNo(tb, c)].exists =>
      index[tb][StoredNo(tb, c)].entries = EntriesOf(tb, c)

IInv ==
  /\ TypeOK
  /\ Numbered(catalog)
  /\ Numbered(stored)
  /\ CreatedIsStored
  /\ IndexFilesNamed
  /\ StoredFilesNamed
  /\ DroppedFilesGone
  /\ IndexesMatchRecords
  /\ StoredIndexesMatch

(***************************************************************************)
(* What statements do, without what they are asked to do                   *)
(***************************************************************************)

DatabaseStep == CreateDb \/ CreateDbInside \/ DropDb \/ OpenDb \/ NotInUse \/ Exit

CatalogStep(tb) ==
  \/ \E fields \in FieldLists : CreateTable(tb, fields)
  \/ DropTable(tb)
  \/ CreateIndexRefused(tb)
  \/ \E c \in Columns : CreateIndex(tb, c) \/ DropIndex(tb, c)

RecordStep(tb) ==
  \/ InsertIndexMissing(tb)
  \/ InsertRefused(tb)
  \/ \E values \in ValueLists : Insert(tb, values)
  \/ \E chosen \in ChosenSets(tb) : Delete(tb, chosen)
  \/ DeleteUndefined(tb)
  \/ \E set \in SetClauses : UpdateUndefined(tb, set)
  \/ \E set \in SetClauses, chosen \in ChosenSets(tb) : Update(tb, chosen, set)
  \/ \E where \in WhereClauses : Select(tb, where)
  \/ \E where \in WhereClauses : SelectUndefined(tb, where)

LEMMA StatementSteps ==
  /\ DatabaseStatement => DatabaseStep
  /\ \A tb \in Tables : /\ CatalogStatement(tb) => CatalogStep(tb)
                        /\ RecordStatement(tb) => RecordStep(tb)
BY DEF DatabaseStatement, DatabaseStep, CatalogStatement, CatalogStep, RecordStatement, RecordStep

(***************************************************************************)
(* Types                                                                   *)
(***************************************************************************)

EntrySets == SUBSET ((Values \cup {Null}) \X RIDs)

LEMMA NullIsNoValue == Null \notin Values /\ Null = -1 /\ None = -1
BY DEF Null, None

LEMMA CatalogParts ==
  ASSUME NEW cat \in CatalogType, NEW tb \in Tables
  PROVE  /\ cat[tb].indexCount \in Int
         /\ cat[tb].attribute \in [Columns -> Attribute]
         /\ \A c \in Columns :
              /\ cat[tb].attribute[c] \in Attribute
              /\ cat[tb].attribute[c].indexNo \in Int
              /\ \/ cat[tb].attribute[c].indexNo = None
                 \/ cat[tb].attribute[c].indexNo \in IndexNumbers
<1>1. cat[tb] \in [indexCount : {None} \cup 0 .. MaxIndexes, attribute : [Columns -> Attribute]]
  BY DEF CatalogType
<1>2. \A a \in Attribute : /\ a.indexNo \in Int
                           /\ a.indexNo = None \/ a.indexNo \in IndexNumbers
  BY DEF Attribute, IndexNumbers, None
<1>3. cat[tb].attribute \in [Columns -> Attribute] /\ cat[tb].indexCount \in Int
  BY <1>1 DEF None
<1> QED
  BY <1>2, <1>3

LEMMA NoTableType ==
  /\ NoTable \in [indexCount : {None} \cup 0 .. MaxIndexes, attribute : [Columns -> Attribute]]
  /\ NoTables \in CatalogType
  /\ \A c \in Columns : NoTable.attribute[c].indexNo = None
<1>1. NoAttribute \in Attribute /\ NoAttribute.indexNo = None
  BY DEF NoAttribute, Attribute
<1>2. NoTable \in [indexCount : {None} \cup 0 .. MaxIndexes, attribute : [Columns -> Attribute]]
  BY <1>1 DEF NoTable
<1>3. \A c \in Columns : NoTable.attribute[c].indexNo = None
  BY <1>1 DEF NoTable
<1> QED
  BY <1>2, <1>3 DEF NoTables, CatalogType

LEMMA KeyType ==
  ASSUME NEW cell \in Cell
  PROVE  Key(cell) \in Values \cup {Null}
BY DEF Key, Cell

LEMMA EntriesOfType ==
  ASSUME TypeOK, NEW tb \in Tables, NEW c \in Columns
  PROVE  EntriesOf(tb, c) \in EntrySets
<1>1. \A r \in Rows(tb) : file[tb].record[r] \in Record
  BY DEF TypeOK, Rows
<1>2. \A r \in Rows(tb) : Key(file[tb].record[r][c]) \in Values \cup {Null}
  BY <1>1, KeyType DEF Record
<1>3. Rows(tb) \subseteq RIDs
  BY DEF Rows
<1> QED
  BY <1>2, <1>3 DEF EntriesOf, EntrySets

LEMMA ValueListParts ==
  ASSUME NEW values \in ValueLists
  PROVE  /\ DOMAIN values \subseteq Columns
         /\ \A c \in DOMAIN values : values[c] \in Values \cup {Null}
<1>1. PICK c \in Columns : values \in [{d \in Columns : d <= c} -> Values \cup {Null}]
  BY DEF ValueLists
<1> QED
  BY <1>1

LEMMA SetClausesParts ==
  ASSUME NEW set \in SetClauses
  PROVE  /\ DOMAIN set \subseteq Columns
         /\ \A c \in DOMAIN set : set[c] \in Values \cup {Null}
<1>1. PICK columns \in SUBSET Columns \ {{}} : set \in [columns -> Values \cup {Null}]
  BY DEF SetClauses
<1> QED
  BY <1>1

LEMMA NewCellType ==
  ASSUME NEW v \in Values \cup {Null}
  PROVE  NewCell(v) \in Cell /\ Key(NewCell(v)) = v
<1>1. CASE v = Null
  BY <1>1 DEF NewCell, Cell, Key
<1>2. CASE v # Null
  BY <1>2 DEF NewCell, Cell, Key
<1> QED
  BY <1>1, <1>2

LEMMA NewRecordType ==
  ASSUME NEW values \in ValueLists
  PROVE  /\ NewRecord(values) \in Record
         /\ \A c \in Columns : NewKey(values, c) \in Values \cup {Null}
<1>1. \A c \in Columns :
        (IF c \in DOMAIN values THEN values[c] ELSE 0) \in Values \cup {Null}
  BY ValueListParts
<1>2. \A c \in Columns : NewCell(IF c \in DOMAIN values THEN values[c] ELSE 0) \in Cell
  BY <1>1, NewCellType
<1>3. \A c \in Columns : NewKey(values, c) \in Values \cup {Null}
  BY <1>1, NewCellType, KeyType, ValueListParts DEF NewKey
<1> QED
  BY <1>2, <1>3 DEF NewRecord, Record

LEMMA ApplyClauseType ==
  ASSUME NEW cell \in Cell, NEW v \in Values \cup {Null}
  PROVE  ApplyClause(cell, v) \in Cell /\ Key(ApplyClause(cell, v)) = v
<1>1. CASE v = Null
  <2>1. ApplyClause(cell, v) = [data |-> cell.data, isNull |-> TRUE]
    BY <1>1 DEF ApplyClause, Cell
  <2> QED
    BY <1>1, <2>1 DEF Cell, Key
<1>2. CASE v # Null
  BY <1>2 DEF ApplyClause, Cell, Key
<1> QED
  BY <1>1, <1>2

LEMMA ApplyClausesType ==
  ASSUME NEW record \in Record, NEW set \in SetClauses
  PROVE  ApplyClauses(record, set) \in Record
<1>1. \A c \in Columns :
        (IF c \in DOMAIN set THEN ApplyClause(record[c], set[c]) ELSE record[c]) \in Cell
  BY SetClausesParts, ApplyClauseType DEF Record
<1> QED
  BY <1>1 DEF ApplyClauses, Record

TableType == [indexCount : {None} \cup 0 .. MaxIndexes, attribute : [Columns -> Attribute]]
RecordFileType == [exists : BOOLEAN, record : [RIDs -> Record \cup {NoRecord}]]
IndexFileType == [exists : BOOLEAN, entries : EntrySets]

LEMMA TypeParts ==
  TypeOK <=>
    /\ catalog \in [Tables -> TableType]
    /\ stored \in [Tables -> TableType]
    /\ created \in BOOLEAN
    /\ file \in [Tables -> RecordFileType]
    /\ index \in [Tables -> [IndexNumbers -> IndexFileType]]
    /\ status \in {"idle", "running", "undefined"}
    /\ past \subseteq PastEvents
BY DEF TypeOK, CatalogType, TableType, RecordFileType, IndexFileType, EntrySets

LEMMA TypePartsNext ==
  TypeOK' <=>
    /\ catalog' \in [Tables -> TableType]
    /\ stored' \in [Tables -> TableType]
    /\ created' \in BOOLEAN
    /\ file' \in [Tables -> RecordFileType]
    /\ index' \in [Tables -> [IndexNumbers -> IndexFileType]]
    /\ status' \in {"idle", "running", "undefined"}
    /\ past' \subseteq PastEvents
BY DEF TypeOK, CatalogType, TableType, RecordFileType, IndexFileType, EntrySets

LEMMA EmptyTypes ==
  /\ NoTable \in TableType
  /\ NoTables \in [Tables -> TableType]
  /\ NoFiles \in [Tables -> RecordFileType]
  /\ NoIndexFile \in IndexFileType
  /\ NoIndexFiles \in [Tables -> [IndexNumbers -> IndexFileType]]
<1>1. NoTable \in TableType /\ NoTables \in [Tables -> TableType]
  BY NoTableType DEF TableType, CatalogType
<1>2. NoFile \in RecordFileType
  BY DEF NoFile, RecordFileType
<1>3. NoIndexFile \in IndexFileType
  BY DEF NoIndexFile, IndexFileType, EntrySets
<1> QED
  BY <1>1, <1>2, <1>3 DEF NoFiles, NoIndexFiles

(* cat is the catalog, but for the number of the index of c.               *)
HasNumber(cat, tb, c, i) ==
  /\ cat \in [Tables -> TableType]
  /\ \A t \in Tables \ {tb} : cat[t] = catalog[t]
  /\ cat[tb].indexCount = catalog[tb].indexCount
  /\ \A d \in Columns \ {c} : cat[tb].attribute[d] = catalog[tb].attribute[d]
  /\ cat[tb].attribute[c].notNull = catalog[tb].attribute[c].notNull
  /\ cat[tb].attribute[c].isPrimarykey = catalog[tb].attribute[c].isPrimarykey
  /\ cat[tb].attribute[c].indexNo = i

LEMMA SetIndexNoParts ==
  ASSUME TypeOK, NEW tb \in Tables, NEW c \in Columns, NEW i \in {None} \cup IndexNumbers
  PROVE  HasNumber(SetIndexNo(tb, c, i), tb, c, i)
<1> DEFINE old == catalog[tb].attribute[c]
           new == [old EXCEPT !.indexNo = i]
           attributes == [catalog[tb].attribute EXCEPT ![c] = new]
           cat == [catalog EXCEPT ![tb].attribute = attributes]
<1>1. catalog \in [Tables -> TableType] /\ catalog[tb] \in TableType
  BY TypeParts
<1>2. catalog[tb].attribute \in [Columns -> Attribute]
  BY <1>1 DEF TableType
<1>3. /\ new \in Attribute
      /\ new.notNull = old.notNull /\ new.isPrimarykey = old.isPrimarykey /\ new.indexNo = i
  BY <1>2 DEF Attribute
<1>4. /\ attributes \in [Columns -> Attribute]
      /\ attributes[c] = new
      /\ \A d \in Columns \ {c} : attributes[d] = catalog[tb].attribute[d]
  BY <1>2, <1>3
<1>5. SetIndexNo(tb, c, i) = cat
  BY DEF SetIndexNo
<1> HIDE DEF new, attributes
<1>6. cat[tb] = [catalog[tb] EXCEPT !.attribute = attributes]
  BY <1>1
<1>7. /\ cat[tb] \in TableType
      /\ cat[tb].indexCount = catalog[tb].indexCount
      /\ cat[tb].attribute = attributes
  BY <1>1, <1>4, <1>6 DEF TableType
<1>8. cat \in [Tables -> TableType] /\ \A t \in Tables \ {tb} : cat[t] = catalog[t]
  BY <1>1, <1>7
<1>9. HasNumber(cat, tb, c, i)
  BY <1>3, <1>4, <1>7, <1>8 DEF HasNumber
<1> QED
  BY <1>5, <1>9

(* What CREATE TABLE puts into the catalog.                                *)
NewTable(fields) ==
  [indexCount |-> 0,
   attribute  |-> [c \in Columns |->
     [notNull |-> fields[c].notNull, isPrimarykey |-> fields[c].isPrimarykey,
      indexNo |-> None]]]

LEMMA NewTableParts ==
  ASSUME NEW fields \in FieldLists
  PROVE  /\ NewTable(fields) \in TableType
         /\ NewTable(fields).indexCount = 0
         /\ NewTable(fields) # NoTable
         /\ \A c \in Columns : NewTable(fields).attribute[c].indexNo = None
<1>1. fields \in [Columns -> Field]
  OBVIOUS
<1>2. \A c \in Columns : fields[c].notNull \in BOOLEAN /\ fields[c].isPrimarykey \in BOOLEAN
  BY <1>1 DEF Field
<1>3. NewTable(fields).attribute \in [Columns -> Attribute]
  BY <1>2 DEF NewTable, Attribute
<1>4. NewTable(fields).indexCount = 0 /\ 0 \in 0 .. MaxIndexes
  BY DEF NewTable
<1>5. NoTable.indexCount = -1
  BY DEF NoTable, None
<1>6. NewTable(fields) \in TableType
  BY <1>3, <1>4 DEF NewTable, TableType
<1>7. \A c \in Columns : NewTable(fields).attribute[c].indexNo = None
  BY DEF NewTable
<1> QED
  BY <1>4, <1>5, <1>6, <1>7

(* CREATE INDEX, table by table and number by number.                      *)
LEMMA CreateIndexParts ==
  ASSUME TypeOK, Numbered(catalog), NEW tb \in Tables, NEW c \in Columns, CreateIndex(tb, c)
  PROVE  LET count == catalog[tb].indexCount IN
         /\ count \in IndexNumbers
         /\ catalog' \in [Tables -> TableType]
         /\ \A t \in Tables \ {tb} : catalog'[t] = catalog[t]
         /\ catalog'[tb].indexCount = count + 1
         /\ \A d \in Columns \ {c} : catalog'[tb].attribute[d] = catalog[tb].attribute[d]
         /\ catalog'[tb].attribute[c].indexNo = count
         /\ index' \in [Tables -> [IndexNumbers -> IndexFileType]]
         /\ \A t \in Tables, i \in IndexNumbers :
              <<t, i>> # <<tb, count>> => index'[t][i] = index[t][i]
         /\ index'[tb][count].exists
         /\ file[tb].exists => index'[tb][count].entries = EntriesOf(tb, c)
<1> DEFINE count == catalog[tb].indexCount
           cat   == SetIndexNo(tb, c, count)
           new   == [exists |-> TRUE,
                     entries |-> IF file[tb].exists THEN EntriesOf(tb, c) ELSE {}]
<1>1. catalog[tb] \in TableType
  BY TypeParts
<1>2. count \in IndexNumbers /\ count + 1 \in 0 .. MaxIndexes
  BY <1>1 DEF CreateIndex, Exists, Numbered, TableType, IndexNumbers, None
<1>3. /\ cat \in [Tables -> TableType]
      /\ \A t \in Tables \ {tb} : cat[t] = catalog[t]
      /\ \A d \in Columns \ {c} : cat[tb].attribute[d] = catalog[tb].attribute[d]
      /\ cat[tb].attribute[c].indexNo = count
  <2>1. count \in {None} \cup IndexNumbers
    BY <1>2
  <2>2. HasNumber(cat, tb, c, count)
    BY <2>1, SetIndexNoParts
  <2> QED
    BY <2>2 DEF HasNumber
<1>4. catalog' = [cat EXCEPT ![tb].indexCount = count + 1]
  BY DEF CreateIndex
<1>5. index' = [index EXCEPT ![tb][count] = new]
  BY DEF CreateIndex
<1>6. new \in IndexFileType
  BY EntriesOfType DEF IndexFileType, EntrySets
<1>7. index \in [Tables -> [IndexNumbers -> IndexFileType]]
  BY TypeParts
<1> HIDE DEF cat, new
<1>8. [cat[tb] EXCEPT !.indexCount = count + 1] \in TableType
  BY <1>2, <1>3 DEF TableType
<1>9. /\ catalog' \in [Tables -> TableType]
      /\ \A t \in Tables \ {tb} : catalog'[t] = cat[t]
      /\ catalog'[tb] = [cat[tb] EXCEPT !.indexCount = count + 1]
  BY <1>3, <1>4, <1>8
<1>10. catalog'[tb].indexCount = count + 1 /\ catalog'[tb].attribute = cat[tb].attribute
  BY <1>3, <1>9 DEF TableType
<1>11. /\ index' \in [Tables -> [IndexNumbers -> IndexFileType]]
       /\ \A t \in Tables, i \in IndexNumbers :
            <<t, i>> # <<tb, count>> => index'[t][i] = index[t][i]
       /\ index'[tb][count] = new
  BY <1>2, <1>5, <1>6, <1>7
<1> QED
  BY <1>2, <1>3, <1>9, <1>10, <1>11 DEF new

LEMMA CreateIndexType ==
  ASSUME TypeOK, Numbered(catalog), NEW tb \in Tables, NEW c \in Columns, CreateIndex(tb, c)
  PROVE  TypeOK'
<1>1. /\ catalog' \in [Tables -> TableType]
      /\ index' \in [Tables -> [IndexNumbers -> IndexFileType]]
  BY CreateIndexParts
<1>2. /\ stored' \in [Tables -> TableType]
      /\ status' \in {"idle", "running", "undefined"}
      /\ UNCHANGED <<created, file, past>>
  BY <1>1, TypeParts, TypePartsNext DEF CreateIndex
<1> QED
  BY <1>1, <1>2, TypeParts, TypePartsNext

LEMMA CatalogStatementType ==
  ASSUME TypeOK, Numbered(catalog), NEW tb \in Tables, CatalogStep(tb)
  PROVE  TypeOK'
<1> USE DEF CatalogStep
<1>1. ASSUME NEW fields \in FieldLists, CreateTable(tb, fields)
      PROVE  TypeOK'
  <2>1. catalog' = [catalog EXCEPT ![tb] = NewTable(fields)]
    BY <1>1 DEF CreateTable, NewTable
  <2>2. catalog' \in [Tables -> TableType]
    BY <2>1, TypeParts, NewTableParts
  <2> QED
    BY <1>1, <2>2, TypeParts, TypePartsNext DEF CreateTable
<1>2. CASE DropTable(tb)
  <2>1. catalog' \in [Tables -> TableType]
    BY <1>2, TypeParts, EmptyTypes DEF DropTable
  <2>2. [i \in IndexNumbers |->
           IF \E c \in Columns : IndexNo(tb, c) = i THEN NoIndexFile ELSE index[tb][i]]
        \in [IndexNumbers -> IndexFileType]
    BY TypeParts, EmptyTypes
  <2>3. index' \in [Tables -> [IndexNumbers -> IndexFileType]]
    BY <1>2, <2>2, TypeParts, TypePartsNext DEF DropTable
  <2> QED
    BY <1>2, <2>1, <2>3, TypeParts, TypePartsNext DEF DropTable
<1>3. CASE CreateIndexRefused(tb)
  <2>1. catalog[tb] \in TableType /\ catalog[tb].indexCount + 1 \in 0 .. MaxIndexes
    BY <1>3, TypeParts, TypePartsNext DEF CreateIndexRefused, TableType, None
  <2>2. [catalog[tb] EXCEPT !.indexCount = @ + 1] \in TableType
    BY <2>1 DEF TableType
  <2>3. catalog' = [catalog EXCEPT ![tb] = [catalog[tb] EXCEPT !.indexCount = @ + 1]]
    BY <1>3, TypeParts, TypePartsNext DEF CreateIndexRefused
  <2>4. catalog' \in [Tables -> TableType]
    BY <2>2, <2>3, TypeParts
  <2> QED
    BY <1>3, <2>4, TypeParts, TypePartsNext DEF CreateIndexRefused
<1>4. ASSUME NEW c \in Columns, CreateIndex(tb, c)
      PROVE  TypeOK'
  BY <1>4, CreateIndexType
<1>5. ASSUME NEW c \in Columns, DropIndex(tb, c)
      PROVE  TypeOK'
  <2>1. catalog' \in [Tables -> TableType]
    BY <1>5, SetIndexNoParts DEF DropIndex, HasNumber
  <2>2. index' \in [Tables -> [IndexNumbers -> IndexFileType]]
    BY <1>5, TypeParts, EmptyTypes DEF DropIndex
  <2> QED
    BY <1>5, <2>1, <2>2, TypeParts, TypePartsNext DEF DropIndex
<1> QED
  BY <1>1, <1>2, <1>3, <1>4, <1>5

LEMMA DatabaseStatementType ==
  ASSUME TypeOK, DatabaseStep
  PROVE  TypeOK'
<1>1. CASE CreateDb
  BY <1>1, TypeParts, TypePartsNext, EmptyTypes DEF CreateDb, PastEvents
<1>2. CASE CreateDbInside
  BY <1>2, TypeParts, TypePartsNext DEF CreateDbInside
<1>3. CASE DropDb
  BY <1>3, TypeParts, TypePartsNext, EmptyTypes DEF DropDb
<1>4. CASE OpenDb
  BY <1>4, TypeParts, TypePartsNext DEF OpenDb
<1>5. CASE NotInUse
  BY <1>5, TypeParts, TypePartsNext DEF NotInUse
<1>6. CASE Exit
  BY <1>6, TypeParts, TypePartsNext, EmptyTypes DEF Exit, PastEvents
<1> QED
  BY <1>1, <1>2, <1>3, <1>4, <1>5, <1>6 DEF DatabaseStep

LEMMA ChosenAreRows ==
  ASSUME NEW tb \in Tables, NEW chosen \in ChosenSets(tb)
  PROVE  chosen \subseteq Rows(tb) /\ Rows(tb) \subseteq RIDs
BY DEF ChosenSets, Chosen, Rows

LEMMA RowsType ==
  ASSUME TypeOK, NEW tb \in Tables
  PROVE  /\ file[tb] \in RecordFileType
         /\ Rows(tb) \subseteq RIDs
         /\ \A r \in Rows(tb) : file[tb].record[r] \in Record
         /\ \A r \in RIDs \ Rows(tb) : file[tb].record[r] = NoRecord
BY TypeParts DEF Rows, RecordFileType

InsertsRecord(tb, values, r) ==
  /\ file' \in [Tables -> RecordFileType]
  /\ \A t \in Tables \ {tb} : file'[t] = file[t]
  /\ file'[tb].record = [file[tb].record EXCEPT ![r] = NewRecord(values)]
  /\ index' \in [Tables -> [IndexNumbers -> IndexFileType]]
  /\ \A t \in Tables \ {tb} : index'[t] = index[t]
  /\ \A i \in IndexNumbers :
       /\ index'[tb][i].exists = index[tb][i].exists
       /\ index'[tb][i].entries = index[tb][i].entries \cup
            {<<NewKey(values, c), r>> : c \in {d \in Columns : IndexNo(tb, d) = i}}

(* INSERT, record by record and number by number.                          *)
LEMMA InsertParts ==
  ASSUME TypeOK, NEW tb \in Tables, NEW values \in ValueLists, Insert(tb, values)
  PROVE  \E r \in RIDs \ Rows(tb) : InsertsRecord(tb, values, r)
<1>1. PICK r \in RIDs \ Rows(tb) :
        /\ file' = [file EXCEPT ![tb] =
             [exists |-> TRUE, record |-> [file[tb].record EXCEPT ![r] = NewRecord(values)]]]
        /\ index' = [index EXCEPT ![tb] = [i \in IndexNumbers |->
             [exists  |-> index[tb][i].exists,
              entries |-> index[tb][i].entries \cup
                {<<NewKey(values, c), r>> : c \in {d \in Columns : IndexNo(tb, d) = i}}]]]
  BY DEF Insert
<1> DEFINE records == [file[tb].record EXCEPT ![r] = NewRecord(values)]
           added(i) == {<<NewKey(values, c), r>> : c \in {d \in Columns : IndexNo(tb, d) = i}}
           indexes == [i \in IndexNumbers |->
             [exists |-> index[tb][i].exists, entries |-> index[tb][i].entries \cup added(i)]]
<1>2. records \in [RIDs -> Record \cup {NoRecord}]
  BY RowsType, NewRecordType DEF RecordFileType
<1>3. [exists |-> TRUE, record |-> records] \in RecordFileType
  BY <1>2 DEF RecordFileType
<1>4. \A i \in IndexNumbers : added(i) \in EntrySets
  <2>1. \A c \in Columns : <<NewKey(values, c), r>> \in (Values \cup {Null}) \X RIDs
    BY NewRecordType
  <2>2. \A i \in IndexNumbers : added(i) \subseteq (Values \cup {Null}) \X RIDs
    BY <2>1
  <2> QED
    BY <2>2 DEF EntrySets
<1>5. \A i \in IndexNumbers :
        /\ index[tb][i] \in IndexFileType
        /\ index[tb][i].exists \in BOOLEAN
        /\ index[tb][i].entries \in EntrySets
  BY TypeParts DEF IndexFileType
<1> HIDE DEF added
<1>6. \A i \in IndexNumbers :
        [exists |-> index[tb][i].exists, entries |-> index[tb][i].entries \cup added(i)]
          \in IndexFileType
  BY <1>4, <1>5 DEF IndexFileType, EntrySets
<1>7. /\ indexes \in [IndexNumbers -> IndexFileType]
      /\ \A i \in IndexNumbers :
           /\ indexes[i].exists = index[tb][i].exists
           /\ indexes[i].entries = index[tb][i].entries \cup added(i)
  BY <1>6
<1>8. index' = [index EXCEPT ![tb] = indexes]
  BY <1>1 DEF added
<1> HIDE DEF indexes, records
<1>9. /\ index' \in [Tables -> [IndexNumbers -> IndexFileType]]
      /\ \A t \in Tables \ {tb} : index'[t] = index[t]
      /\ index'[tb] = indexes
  BY <1>7, <1>8, TypeParts
<1>10. /\ file' \in [Tables -> RecordFileType]
       /\ \A t \in Tables \ {tb} : file'[t] = file[t]
       /\ file'[tb].record = records
  BY <1>1, <1>3, TypeParts DEF records
<1> QED
  BY <1>7, <1>9, <1>10 DEF records, added, InsertsRecord

UpdatesRecords(tb, chosen, set) ==
  /\ file' \in [Tables -> RecordFileType]
  /\ \A t \in Tables \ {tb} : file'[t] = file[t]
  /\ file'[tb].record = [r \in RIDs |->
       IF r \in Updated(tb, chosen, set) THEN ApplyClauses(file[tb].record[r], set)
       ELSE file[tb].record[r]]
  /\ index' \in [Tables -> [IndexNumbers -> IndexFileType]]
  /\ \A t \in Tables \ {tb} : index'[t] = index[t]
  /\ \A i \in IndexNumbers :
       /\ index'[tb][i].exists = index[tb][i].exists
       /\ index'[tb][i].entries =
            IF \E c \in SetIndexed(tb, set) : IndexNo(tb, c) = i
            THEN EntriesAfter(tb, CHOOSE c \in Columns : IndexNo(tb, c) = i, chosen, set)
            ELSE index[tb][i].entries

(* UPDATE, record by record and number by number.                          *)
LEMMA UpdateParts ==
  ASSUME TypeOK, Numbered(catalog), NEW tb \in Tables, NEW set \in SetClauses, NEW chosen \in ChosenSets(tb),
         Update(tb, chosen, set)
  PROVE  UpdatesRecords(tb, chosen, set)
<1> DEFINE records == [r \in RIDs |->
             IF r \in Updated(tb, chosen, set) THEN ApplyClauses(file[tb].record[r], set)
             ELSE file[tb].record[r]]
           after(i) ==
             IF \E c \in SetIndexed(tb, set) : IndexNo(tb, c) = i
             THEN EntriesAfter(tb, CHOOSE c \in Columns : IndexNo(tb, c) = i, chosen, set)
             ELSE index[tb][i].entries
           indexes == [i \in IndexNumbers |->
             [exists |-> index[tb][i].exists, entries |-> after(i)]]
<1>1. Reached(tb, chosen, set) \subseteq Rows(tb) /\ Updated(tb, chosen, set) \subseteq Rows(tb)
  BY ChosenAreRows DEF Updated, Reached
<1>2. records \in [RIDs -> Record \cup {NoRecord}]
  BY <1>1, RowsType, ApplyClausesType DEF RecordFileType
<1>3. \A i \in IndexNumbers :
        index[tb][i].exists \in BOOLEAN /\ index[tb][i].entries \in EntrySets
  BY TypeParts DEF IndexFileType
<1>4. ASSUME NEW i \in IndexNumbers
      PROVE  after(i) \in EntrySets
  <2>1. CASE \E c \in SetIndexed(tb, set) : IndexNo(tb, c) = i
    <3> DEFINE c == CHOOSE d \in Columns : IndexNo(tb, d) = i
    <3>1. c \in Columns /\ IndexNo(tb, c) = i
      BY <2>1 DEF SetIndexed, Indexed
    <3>2. PICK d \in SetIndexed(tb, set) : IndexNo(tb, d) = i
      BY <2>1
    <3>3. after(i) = EntriesAfter(tb, c, chosen, set)
      BY <2>1
    <3> HIDE DEF c, after
    <3>4. c \in DOMAIN set
      BY <3>1, <3>2 DEF Numbered, SetIndexed, Indexed, IndexNo, IndexNumbers
    <3>5. Entries(tb, c) \in EntrySets
      BY <3>1, <1>3 DEF Entries
    <3>6. \A r \in Rows(tb) : NewEntry(c, r, set) \in (Values \cup {Null}) \X RIDs
      BY <3>4, RowsType, SetClausesParts DEF NewEntry
    <3>7. EntriesAfter(tb, c, chosen, set) \subseteq
            Entries(tb, c) \cup {NewEntry(c, r, set) : r \in Rows(tb)}
      BY <1>1 DEF EntriesAfter
    <3> QED
      BY <3>3, <3>5, <3>6, <3>7 DEF EntrySets
  <2>2. CASE ~\E c \in SetIndexed(tb, set) : IndexNo(tb, c) = i
    BY <2>2, <1>3
  <2> QED
    BY <2>1, <2>2
<1>5. index' = [index EXCEPT ![tb] = indexes]
  BY DEF Update
<1>6. file' = [file EXCEPT ![tb].record = records]
  BY DEF Update
<1> HIDE DEF records, after
<1>7. /\ indexes \in [IndexNumbers -> IndexFileType]
      /\ \A i \in IndexNumbers :
           indexes[i].exists = index[tb][i].exists /\ indexes[i].entries = after(i)
  BY <1>3, <1>4 DEF IndexFileType
<1> HIDE DEF indexes
<1>8. /\ index' \in [Tables -> [IndexNumbers -> IndexFileType]]
      /\ \A t \in Tables \ {tb} : index'[t] = index[t]
      /\ index'[tb] = indexes
  BY <1>5, <1>7, TypeParts
<1>9. /\ file' \in [Tables -> RecordFileType]
      /\ \A t \in Tables \ {tb} : file'[t] = file[t]
      /\ file'[tb].record = records
  BY <1>2, <1>6, TypeParts DEF RecordFileType
<1> QED
  BY <1>7, <1>8, <1>9 DEF records, after, UpdatesRecords

LEMMA RecordStatementType ==
  ASSUME TypeOK, Numbered(catalog), NEW tb \in Tables, RecordStep(tb)
  PROVE  TypeOK'
<1>1. CASE InsertIndexMissing(tb)
  BY <1>1, TypeParts, TypePartsNext DEF InsertIndexMissing, RecordFileType
<1>2. ASSUME InsertRefused(tb)
      PROVE  TypeOK'
  BY <1>2, TypeParts, TypePartsNext DEF InsertRefused, RecordFileType, HandlesClosed, AfterInsert
<1>3. ASSUME NEW values \in ValueLists, Insert(tb, values)
      PROVE  TypeOK'
  <2>1. /\ file' \in [Tables -> RecordFileType]
        /\ index' \in [Tables -> [IndexNumbers -> IndexFileType]]
    BY <1>3, InsertParts DEF InsertsRecord
  <2>2. /\ status' = AfterInsert(tb)
        /\ past' = IF DOMAIN values = Columns THEN past ELSE past \cup {"short"}
        /\ stored' = catalog
        /\ UNCHANGED <<catalog, created>>
    BY <1>3 DEF Insert, HandlesClosed
  <2> QED
    BY <2>1, <2>2, TypeParts, TypePartsNext DEF AfterInsert, PastEvents
<1>4. ASSUME NEW chosen \in ChosenSets(tb), Delete(tb, chosen)
      PROVE  TypeOK'
  <2>1. [r \in RIDs |-> IF r \in chosen THEN NoRecord ELSE file[tb].record[r]]
          \in [RIDs -> Record \cup {NoRecord}]
    BY RowsType DEF RecordFileType
  <2>2. file' \in [Tables -> RecordFileType]
    BY <1>4, <2>1, TypeParts DEF Delete, RecordFileType
  <2> QED
    BY <1>4, <2>2, TypeParts, TypePartsNext DEF Delete, HandlesClosed
<1>5. CASE DeleteUndefined(tb)
  BY <1>5, TypeParts, TypePartsNext DEF DeleteUndefined, Undefined
<1>6. ASSUME NEW set \in SetClauses, UpdateUndefined(tb, set)
      PROVE  TypeOK'
  BY <1>6, TypeParts, TypePartsNext DEF UpdateUndefined, Undefined
<1>7. ASSUME NEW set \in SetClauses, NEW chosen \in ChosenSets(tb), Update(tb, chosen, set)
      PROVE  TypeOK'
  <2>1. /\ file' \in [Tables -> RecordFileType]
        /\ index' \in [Tables -> [IndexNumbers -> IndexFileType]]
    BY <1>7, UpdateParts DEF UpdatesRecords
  <2>2. /\ stored' = catalog
        /\ UNCHANGED <<catalog, created, status, past>>
    BY <1>7 DEF Update, HandlesClosed
  <2> QED
    BY <2>1, <2>2, TypeParts, TypePartsNext
<1>8. ASSUME NEW where \in WhereClauses, Select(tb, where)
      PROVE  TypeOK'
  BY <1>8, TypeParts, TypePartsNext DEF Select, HandlesClosed
<1>9. ASSUME NEW where \in WhereClauses, SelectUndefined(tb, where)
      PROVE  TypeOK'
  BY <1>9, TypeParts, TypePartsNext DEF SelectUndefined, Undefined
<1> QED
  BY <1>1, <1>2, <1>3, <1>4, <1>5, <1>6, <1>7, <1>8, <1>9 DEF RecordStep

(***************************************************************************)
(* The invariant: what a step has to show                                  *)
(***************************************************************************)

LEMMA NumberedParts ==
  ASSUME NEW cat \in [Tables -> TableType], Numbered(cat), NEW tb \in Tables, NEW c \in Columns,
         cat[tb].attribute[c].indexNo >= 0
  PROVE  /\ cat[tb] # NoTable
         /\ cat[tb].attribute[c].indexNo \in IndexNumbers
         /\ cat[tb].attribute[c].indexNo < cat[tb].indexCount
<1>1. cat \in CatalogType
  BY DEF CatalogType, TableType
<1>2. cat[tb].attribute[c].indexNo \in IndexNumbers
  BY <1>1, CatalogParts DEF None
<1>3. cat[tb] # NoTable
  BY NoTableType DEF None
<1> QED
  BY <1>2, <1>3 DEF Numbered

LEMMA NumberedNoTables == Numbered(NoTables)
BY NoTableType DEF Numbered, NoTables, None

LEMMA UndefinedStep ==
  ASSUME TypeOK', Numbered(catalog'), Numbered(stored'), status' = "undefined"
  PROVE  IInv'
BY DEF IInv, CreatedIsStored, IndexFilesNamed, StoredFilesNamed, DroppedFilesGone,
       IndexesMatchRecords, StoredIndexesMatch, Running

LEMMA IdleStep ==
  ASSUME TypeOK', Numbered(catalog'), Numbered(stored'), status' = "idle",
         StoredFilesNamed', StoredIndexesMatch'
  PROVE  IInv'
BY DEF IInv, CreatedIsStored, IndexFilesNamed, DroppedFilesGone, IndexesMatchRecords, Running

LEMMA RunningStep ==
  ASSUME TypeOK', Numbered(catalog'), Numbered(stored'), status' = "running",
         CreatedIsStored', IndexFilesNamed', DroppedFilesGone', IndexesMatchRecords'
  PROVE  IInv'
BY DEF IInv, StoredFilesNamed, StoredIndexesMatch

(* When the whole catalog is on disk, nothing is lost.                     *)
LEMMA AllStored ==
  ASSUME TypeOK', Numbered(catalog'), stored' = catalog'
  PROVE  CreatedIsStored' /\ DroppedFilesGone'
<1>1. \A tb \in Tables : catalog'[tb].indexCount <= catalog'[tb].indexCount
  BY TypePartsNext, CatalogParts DEF TypeOK
<1> QED
  BY <1>1 DEF CreatedIsStored, DroppedFilesGone, StoredNo, HasIndex, IndexNo, Exists

(* A statement on records: the handles it opened are closed.               *)
LEMMA HandlesClosedStep ==
  ASSUME IInv, status = "running", TypeOK', catalog' = catalog, stored' = catalog,
         status' \in {"running", "undefined"}, past \subseteq past',
         \A tb \in Tables, i \in IndexNumbers : index'[tb][i].exists = index[tb][i].exists,
         IndexesMatchRecords'
  PROVE  IInv'
<1>1. Numbered(catalog') /\ Numbered(stored')
  BY DEF IInv
<1>2. CASE status' = "undefined"
  BY <1>1, <1>2, UndefinedStep
<1>3. CASE status' = "running"
  <2>1. \A tb \in Tables, c \in Columns : FileMissing(tb, c)' <=> FileMissing(tb, c)
    <3> SUFFICES ASSUME NEW tb \in Tables, NEW c \in Columns
                 PROVE  FileMissing(tb, c)' <=> FileMissing(tb, c)
      OBVIOUS
    <3>1. CASE HasIndex(tb, c)
      <4>1. IndexNo(tb, c) \in IndexNumbers
        BY <3>1, NumberedParts, TypeParts DEF IInv, HasIndex, IndexNo
      <4> QED
        BY <4>1 DEF FileMissing, HasIndex, IndexNo
    <3>2. CASE ~HasIndex(tb, c)
      BY <3>2 DEF FileMissing, HasIndex, IndexNo
    <3> QED
      BY <3>1, <3>2
  <2>2. IndexFilesNamed
    BY DEF IInv
  <2>3. IndexFilesNamed'
    BY <1>3, <2>1, <2>2 DEF IndexFilesNamed, Running, HasIndex, IndexNo
  <2> QED
    BY <1>1, <1>3, <2>3, AllStored, RunningStep
<1> QED
  BY <1>2, <1>3

(* A statement on the records of tb has to show that tb's indexes match.   *)
LEMMA MatchStep ==
  ASSUME IInv, status = "running", NEW tb \in Tables, catalog' = catalog, past \subseteq past',
         \A t \in Tables \ {tb} : file'[t] = file[t] /\ index'[t] = index[t],
         \A i \in IndexNumbers : index'[tb][i].exists = index[tb][i].exists,
         \A c \in Columns :
           "short" \notin past' /\ HasIndex(tb, c) /\ ~FileMissing(tb, c) =>
             index'[tb][IndexNo(tb, c)].entries = EntriesOf(tb, c)'
  PROVE  IndexesMatchRecords'
<1> SUFFICES ASSUME "short" \notin past', NEW t \in Tables, NEW c \in Columns,
                    HasIndex(t, c)', ~FileMissing(t, c)'
             PROVE  Entries(t, c)' = EntriesOf(t, c)'
  BY DEF IndexesMatchRecords
<1>1. HasIndex(t, c) /\ IndexNo(t, c)' = IndexNo(t, c)
  BY DEF HasIndex, IndexNo
<1>2. IndexNo(t, c) \in IndexNumbers
  BY <1>1, NumberedParts, TypeParts DEF IInv, HasIndex, IndexNo
<1>3. ~FileMissing(t, c)
  BY <1>1, <1>2 DEF FileMissing, HasIndex, IndexNo
<1>4. CASE t = tb
  BY <1>1, <1>3, <1>4 DEF Entries
<1>5. CASE t # tb
  <2>1. Entries(t, c) = EntriesOf(t, c)
    BY <1>1, <1>3 DEF IInv, IndexesMatchRecords, Running
  <2>2. file'[t] = file[t] /\ index'[t] = index[t]
    BY <1>5
  <2> QED
    BY <1>1, <2>1, <2>2 DEF Entries, EntriesOf, Rows
<1> QED
  BY <1>4, <1>5

(***************************************************************************)
(* The statements on records                                               *)
(***************************************************************************)

LEMMA InsertMatches ==
  ASSUME IInv, status = "running", NEW tb \in Tables, NEW values \in ValueLists,
         Insert(tb, values)
  PROVE  IndexesMatchRecords'
<1>1. TypeOK
  BY DEF IInv
<1>2. PICK r \in RIDs \ Rows(tb) : InsertsRecord(tb, values, r)
  BY <1>1, InsertParts
<1>3. /\ \A t \in Tables \ {tb} : file'[t] = file[t] /\ index'[t] = index[t]
      /\ file'[tb].record = [file[tb].record EXCEPT ![r] = NewRecord(values)]
      /\ \A i \in IndexNumbers :
           /\ index'[tb][i].exists = index[tb][i].exists
           /\ index'[tb][i].entries = index[tb][i].entries \cup
                {<<NewKey(values, c), r>> : c \in {d \in Columns : IndexNo(tb, d) = i}}
  BY <1>2 DEF InsertsRecord
<1>4. /\ catalog' = catalog
      /\ past' = IF DOMAIN values = Columns THEN past ELSE past \cup {"short"}
  BY DEF Insert
<1>5. ASSUME NEW c \in Columns, "short" \notin past', HasIndex(tb, c), ~FileMissing(tb, c)
      PROVE  index'[tb][IndexNo(tb, c)].entries = EntriesOf(tb, c)'
  <2> DEFINE i == IndexNo(tb, c)
             new == NewRecord(values)
  <2>1. i \in IndexNumbers
    BY <1>5, NumberedParts, TypeParts DEF IInv, HasIndex, IndexNo
  <2>2. {d \in Columns : IndexNo(tb, d) = i} = {c}
    BY <1>5 DEF IInv, Numbered, HasIndex, IndexNo
  <2>3. DOMAIN values = Columns
    BY <1>4, <1>5
  <2>4. NewKey(values, c) = Key(new[c])
    BY <2>3 DEF NewKey, NewRecord
  <2>5. index'[tb][i].entries = EntriesOf(tb, c) \cup {<<Key(new[c]), r>>}
    <3>1. index[tb][i].entries = EntriesOf(tb, c)
      BY <1>4, <1>5 DEF IInv, IndexesMatchRecords, Running, Entries
    <3>2. index'[tb][i].entries = index[tb][i].entries \cup
            {<<NewKey(values, d), r>> : d \in {e \in Columns : IndexNo(tb, e) = i}}
      BY <1>3, <2>1
    <3>3. {<<NewKey(values, d), r>> : d \in {e \in Columns : IndexNo(tb, e) = i}}
            = {<<Key(new[c]), r>>}
      BY <2>2, <2>4
    <3> QED
      BY <3>1, <3>2, <3>3
  <2>6. new \in Record /\ new # NoRecord
    BY NewRecordType
  <2> HIDE DEF new
  <2>7. file[tb].record \in [RIDs -> Record \cup {NoRecord}]
    BY <1>1, RowsType DEF RecordFileType
  <2>8. /\ file'[tb].record[r] = new
        /\ \A q \in RIDs \ {r} : file'[tb].record[q] = file[tb].record[q]
    BY <1>3, <2>7 DEF new
  <2>9. Rows(tb)' = Rows(tb) \cup {r}
    BY <2>6, <2>8 DEF Rows
  <2>10. EntriesOf(tb, c)' = EntriesOf(tb, c) \cup {<<Key(new[c]), r>>}
    <3>1. EntriesOf(tb, c)' = {<<Key(file'[tb].record[q][c]), q>> : q \in Rows(tb) \cup {r}}
      BY <2>9 DEF EntriesOf
    <3>2. \A q \in Rows(tb) : file'[tb].record[q] = file[tb].record[q]
      BY <2>8 DEF Rows
    <3> QED
      BY <2>8, <3>1, <3>2 DEF EntriesOf
  <2> QED
    BY <2>5, <2>10
<1> QED
  BY <1>3, <1>4, <1>5, MatchStep

LEMMA DeleteMatches ==
  ASSUME IInv, status = "running", NEW tb \in Tables, NEW chosen \in ChosenSets(tb),
         Delete(tb, chosen)
  PROVE  IndexesMatchRecords'
<1>1. catalog[tb].indexCount = 0
  BY DEF Delete
<1>2. \A c \in Columns : ~HasIndex(tb, c)
  <2> SUFFICES ASSUME NEW c \in Columns, HasIndex(tb, c)
               PROVE  FALSE
    OBVIOUS
  <2>1. IndexNo(tb, c) \in IndexNumbers /\ IndexNo(tb, c) < 0
    BY <1>1, NumberedParts, TypeParts DEF IInv, HasIndex, IndexNo
  <2> QED
    BY <2>1 DEF IndexNumbers
<1>3. /\ catalog' = catalog /\ index' = index /\ past' = past
      /\ \A t \in Tables \ {tb} : file'[t] = file[t]
  BY TypeParts DEF Delete, IInv
<1> QED
  BY <1>2, <1>3, MatchStep

(* As long as indexes match, no call of UPDATE fails, and what it leaves   *)
(* in an index is what the records then have.                              *)
LEMMA UpdateMatches ==
  ASSUME IInv, status = "running", NEW tb \in Tables, NEW set \in SetClauses,
         NEW chosen \in ChosenSets(tb), Update(tb, chosen, set)
  PROVE  IndexesMatchRecords'
<1>1. TypeOK /\ Numbered(catalog) /\ IndexesMatchRecords
  BY DEF IInv
<1>2. /\ catalog' = catalog /\ past' = past
      /\ \A c \in DOMAIN set : ~FileMissing(tb, c)
  BY DEF Update
<1>3. /\ \A t \in Tables \ {tb} : file'[t] = file[t] /\ index'[t] = index[t]
      /\ file'[tb].record = [r \in RIDs |->
           IF r \in Updated(tb, chosen, set) THEN ApplyClauses(file[tb].record[r], set)
           ELSE file[tb].record[r]]
      /\ \A i \in IndexNumbers :
           /\ index'[tb][i].exists = index[tb][i].exists
           /\ index'[tb][i].entries =
                IF \E c \in SetIndexed(tb, set) : IndexNo(tb, c) = i
                THEN EntriesAfter(tb, CHOOSE c \in Columns : IndexNo(tb, c) = i, chosen, set)
                ELSE index[tb][i].entries
  <2>1. UpdatesRecords(tb, chosen, set)
    BY <1>1, UpdateParts
  <2> QED
    BY <2>1 DEF UpdatesRecords
<1>4. chosen \subseteq Rows(tb) /\ Rows(tb) \subseteq RIDs
  BY ChosenAreRows
<1>5. ASSUME NEW c \in Columns, "short" \notin past', HasIndex(tb, c), ~FileMissing(tb, c)
      PROVE  index'[tb][IndexNo(tb, c)].entries = EntriesOf(tb, c)'
  <2>1. \A d \in SetIndexed(tb, set) : Entries(tb, d) = EntriesOf(tb, d)
    BY <1>1, <1>2, <1>5 DEF IndexesMatchRecords, Running, SetIndexed, Indexed
  <2>2. \A r \in chosen : ~StopsBefore(tb, r, set)
    BY <1>4, <2>1 DEF StopsBefore, DeleteFails, OldEntry, EntriesOf
  <2>3. \A r \in chosen : ~StopsAfter(tb, r, set)
    <3> SUFFICES ASSUME NEW r \in chosen, NEW d \in SetIndexed(tb, set)
                 PROVE  ~InsertFails(tb, d, r, set)
      BY DEF StopsAfter
    <3>1. \A e \in EntriesOf(tb, d) : e[2] = r => e = OldEntry(tb, d, r)
      BY DEF EntriesOf, OldEntry
    <3>2. NewEntry(d, r, set)[2] = r
      BY DEF NewEntry
    <3> QED
      BY <2>1, <3>1, <3>2 DEF InsertFails
  <2>4. Reached(tb, chosen, set) = chosen
    BY <2>2, <2>3 DEF Reached
  <2>5. Updated(tb, chosen, set) = chosen
    BY <2>2, <2>4 DEF Updated
  <2>6. ASSUME NEW r \in RIDs
        PROVE  file'[tb].record[r] = IF r \in chosen THEN ApplyClauses(file[tb].record[r], set)
                                     ELSE file[tb].record[r]
    BY <1>3, <2>5
  <2>7. \A r \in chosen : file[tb].record[r] \in Record
                         /\ ApplyClauses(file[tb].record[r], set) \in Record
    BY <1>1, <1>4, RowsType, ApplyClausesType
  <2>8. Rows(tb)' = Rows(tb)
    BY <1>4, <2>6, <2>7 DEF Rows
  <2>9. IndexNo(tb, c) \in IndexNumbers
    BY <1>1, <1>5, NumberedParts, TypeParts DEF HasIndex, IndexNo
  <2>10. \A d \in Columns : IndexNo(tb, d) = IndexNo(tb, c) => d = c
    BY <1>1, <1>5 DEF Numbered, HasIndex, IndexNo
  <2>11. CASE c \in DOMAIN set
    <3>1. c \in SetIndexed(tb, set)
      BY <1>5, <2>11 DEF SetIndexed, Indexed
    <3>2. (CHOOSE d \in Columns : IndexNo(tb, d) = IndexNo(tb, c)) = c
      BY <2>10
    <3>3. index'[tb][IndexNo(tb, c)].entries = EntriesAfter(tb, c, chosen, set)
      BY <1>3, <2>9, <3>1, <3>2
    <3>4. \A r \in chosen : Deletes(tb, c, r, set) /\ Inserts(tb, c, r, set)
      BY <2>2, <2>3 DEF Deletes, Inserts, StopsBefore, StopsAfter
    <3>5. EntriesAfter(tb, c, chosen, set) =
            (EntriesOf(tb, c) \ {OldEntry(tb, c, r) : r \in chosen})
              \cup {NewEntry(c, r, set) : r \in chosen}
      BY <2>1, <2>4, <3>1, <3>4 DEF EntriesAfter
    <3>6. \A r \in chosen : Key(file'[tb].record[r][c]) = set[c]
      <4> SUFFICES ASSUME NEW r \in chosen
                   PROVE  Key(file'[tb].record[r][c]) = set[c]
        OBVIOUS
      <4>1. file'[tb].record[r][c] = ApplyClause(file[tb].record[r][c], set[c])
        BY <1>4, <2>6, <2>11 DEF ApplyClauses
      <4>2. file[tb].record[r][c] \in Cell
        BY <2>7 DEF Record
      <4> QED
        BY <2>11, <4>1, <4>2, ApplyClauseType, SetClausesParts
    <3>7. EntriesOf(tb, c)' = {<<Key(file'[tb].record[r][c]), r>> : r \in Rows(tb)}
      BY <2>8 DEF EntriesOf
    <3>8. \A r \in Rows(tb) \ chosen : file'[tb].record[r] = file[tb].record[r]
      BY <1>4, <2>6
    <3> QED
      BY <1>4, <3>3, <3>5, <3>6, <3>7, <3>8 DEF EntriesOf, OldEntry, NewEntry
  <2>12. CASE c \notin DOMAIN set
    <3>1. ~\E d \in SetIndexed(tb, set) : IndexNo(tb, d) = IndexNo(tb, c)
      BY <2>10, <2>12 DEF SetIndexed, Indexed
    <3>2. index'[tb][IndexNo(tb, c)].entries = EntriesOf(tb, c)
      BY <1>1, <1>2, <1>3, <1>5, <2>9, <3>1 DEF IndexesMatchRecords, Running, Entries
    <3>3. \A r \in Rows(tb) : file'[tb].record[r][c] = file[tb].record[r][c]
      BY <1>4, <2>6, <2>12 DEF ApplyClauses
    <3> QED
      BY <2>8, <3>2, <3>3 DEF EntriesOf
  <2> QED
    BY <2>11, <2>12
<1> QED
  BY <1>2, <1>3, <1>5, MatchStep

LEMMA RecordStatementKeeps ==
  ASSUME IInv, status = "running", NEW tb \in Tables, RecordStep(tb)
  PROVE  IInv'
<1>1. TypeOK /\ Numbered(catalog) /\ Numbered(stored) /\ TypeOK'
  BY RecordStatementType DEF IInv
<1>2. ASSUME Undefined
      PROVE  IInv'
  BY <1>1, <1>2, UndefinedStep DEF Undefined
<1>3. CASE InsertIndexMissing(tb)
  <2>1. /\ UNCHANGED <<catalog, stored, created, index, status, past>>
        /\ \A t \in Tables : file'[t].record = file[t].record
    BY <1>1, <1>3, TypeParts DEF InsertIndexMissing, RecordFileType
  <2>2. \A t \in Tables, c \in Columns : EntriesOf(t, c)' = EntriesOf(t, c)
    BY <2>1 DEF EntriesOf, Rows
  <2>3. CreatedIsStored' /\ IndexFilesNamed' /\ DroppedFilesGone'
    BY <2>1 DEF IInv, CreatedIsStored, IndexFilesNamed, DroppedFilesGone, Running, StoredNo,
                HasIndex, IndexNo, FileMissing, Exists
  <2>4. IndexesMatchRecords'
    BY <2>1, <2>2 DEF IInv, IndexesMatchRecords, Running, HasIndex, IndexNo, FileMissing, Entries
  <2> QED
    BY <1>1, <2>1, <2>3, <2>4, RunningStep
<1>4. ASSUME InsertRefused(tb)
      PROVE  IInv'
  <2>1. /\ catalog' = catalog /\ stored' = catalog /\ index' = index /\ past' = past
        /\ status' \in {"running", "undefined"}
        /\ \A t \in Tables : file'[t].record = file[t].record
    BY <1>1, <1>4, TypeParts DEF InsertRefused, HandlesClosed, AfterInsert, RecordFileType
  <2>2. \A t \in Tables, c \in Columns : EntriesOf(t, c)' = EntriesOf(t, c)
    BY <2>1 DEF EntriesOf, Rows
  <2>3. IndexesMatchRecords'
    BY <2>1, <2>2 DEF IInv, IndexesMatchRecords, Running, HasIndex, IndexNo, FileMissing, Entries
  <2> QED
    BY <1>1, <2>1, <2>3, HandlesClosedStep
<1>5. ASSUME NEW values \in ValueLists, Insert(tb, values)
      PROVE  IInv'
  <2>1. \A t \in Tables, i \in IndexNumbers : index'[t][i].exists = index[t][i].exists
    <3>1. PICK r \in RIDs \ Rows(tb) : InsertsRecord(tb, values, r)
      BY <1>1, <1>5, InsertParts
    <3> QED
      BY <3>1 DEF InsertsRecord
  <2>2. /\ catalog' = catalog /\ stored' = catalog /\ past \subseteq past'
        /\ status' \in {"running", "undefined"}
    BY <1>5 DEF Insert, HandlesClosed, AfterInsert
  <2> QED
    BY <1>1, <1>5, <2>1, <2>2, InsertMatches, HandlesClosedStep
<1>6. ASSUME NEW chosen \in ChosenSets(tb), Delete(tb, chosen)
      PROVE  IInv'
  <2>1. /\ catalog' = catalog /\ stored' = catalog /\ index' = index /\ past' = past
        /\ status' = "running"
    BY <1>6 DEF Delete, HandlesClosed
  <2> QED
    BY <1>1, <1>6, <2>1, DeleteMatches, HandlesClosedStep
<1>7. ASSUME NEW set \in SetClauses, NEW chosen \in ChosenSets(tb), Update(tb, chosen, set)
      PROVE  IInv'
  <2>1. \A t \in Tables, i \in IndexNumbers : index'[t][i].exists = index[t][i].exists
    <3>1. UpdatesRecords(tb, chosen, set)
      BY <1>1, <1>7, UpdateParts
    <3> QED
      BY <3>1 DEF UpdatesRecords
  <2>2. /\ catalog' = catalog /\ stored' = catalog /\ past' = past /\ status' = "running"
    BY <1>7 DEF Update, HandlesClosed
  <2> QED
    BY <1>1, <1>7, <2>1, <2>2, UpdateMatches, HandlesClosedStep
<1>8. ASSUME NEW where \in WhereClauses, Select(tb, where)
      PROVE  IInv'
  <2>1. UNCHANGED <<catalog, created, file, index, status, past>> /\ stored' = catalog
    BY <1>8 DEF Select, HandlesClosed
  <2>2. \A t \in Tables, c \in Columns : EntriesOf(t, c)' = EntriesOf(t, c)
    BY <2>1 DEF EntriesOf, Rows
  <2>3. IndexesMatchRecords'
    BY <2>1, <2>2 DEF IInv, IndexesMatchRecords, Running, HasIndex, IndexNo, FileMissing, Entries
  <2> QED
    BY <1>1, <2>1, <2>3, HandlesClosedStep
<1> QED
  BY <1>2, <1>3, <1>4, <1>5, <1>6, <1>7, <1>8
  DEF RecordStep, DeleteUndefined, UpdateUndefined, SelectUndefined

(***************************************************************************)
(* The statements on the catalog                                           *)
(***************************************************************************)

LEMMA CreateTableKeeps ==
  ASSUME IInv, status = "running", NEW tb \in Tables, NEW fields \in FieldLists,
         CreateTable(tb, fields)
  PROVE  IInv'
<1>1. /\ TypeOK /\ TypeOK' /\ Numbered(catalog)
      /\ catalog' = [catalog EXCEPT ![tb] = NewTable(fields)]
  BY CatalogStatementType DEF IInv, CatalogStep, CreateTable, NewTable
<1>2. /\ stored' = catalog' /\ catalog[tb] = NoTable
      /\ UNCHANGED <<created, file, index, status, past>>
  BY DEF CreateTable, Exists
<1>3. /\ \A t \in Tables \ {tb} : catalog'[t] = catalog[t]
      /\ catalog'[tb] = NewTable(fields)
  BY <1>1, TypeParts
<1>4. \A c \in Columns :
        IndexNo(tb, c) = None /\ IndexNo(tb, c)' = None /\ ~HasIndex(tb, c)'
  BY <1>2, <1>3, NoTableType, NewTableParts DEF IndexNo, HasIndex, None
<1>5. \A t \in Tables, c \in Columns : IndexNo(t, c)' = IndexNo(t, c)
  BY <1>3, <1>4 DEF IndexNo
<1>6. Numbered(catalog')
  BY <1>1, <1>3, <1>4, NewTableParts DEF Numbered, IndexNo, None
<1>7. \A t \in Tables, c \in Columns :
        /\ HasIndex(t, c)' <=> HasIndex(t, c)
        /\ FileMissing(t, c)' <=> FileMissing(t, c)
        /\ Entries(t, c)' = Entries(t, c)
        /\ EntriesOf(t, c)' = EntriesOf(t, c)
  BY <1>2, <1>5 DEF FileMissing, HasIndex, Entries, EntriesOf, Rows
<1>8. IndexFilesNamed'
  <2> SUFFICES ASSUME NEW t \in Tables
               PROVE  /\ \A c, d \in Columns :
                           HasIndex(t, c)' /\ IndexNo(t, c)' = IndexNo(t, d)' => c = d
                      /\ "undone" \notin past' => \A c \in Columns : ~FileMissing(t, c)'
                      /\ "emptied" \notin past' => \A i \in IndexNumbers :
                           index'[t][i].exists => \E c \in Columns : IndexNo(t, c)' = i
    BY DEF IndexFilesNamed
  <2>1. /\ \A c, d \in Columns :
             HasIndex(t, c) /\ IndexNo(t, c) = IndexNo(t, d) => c = d
        /\ "undone" \notin past => \A c \in Columns : ~FileMissing(t, c)
        /\ "emptied" \notin past => \A i \in IndexNumbers :
             index[t][i].exists => \E c \in Columns : IndexNo(t, c) = i
    BY DEF IInv, IndexFilesNamed, Running
  <2> QED
    BY <1>2, <1>5, <1>7, <2>1
<1>9. IndexesMatchRecords'
  <2>1. IndexesMatchRecords
    BY DEF IInv
  <2> QED
    BY <1>2, <1>7, <2>1 DEF IndexesMatchRecords, Running
<1> QED
  BY <1>1, <1>2, <1>6, <1>8, <1>9, AllStored, RunningStep

LEMMA CreateIndexKeeps ==
  ASSUME IInv, status = "running", NEW tb \in Tables, NEW c \in Columns, CreateIndex(tb, c)
  PROVE  IInv'
<1> DEFINE count == catalog[tb].indexCount
<1>1. TypeOK /\ TypeOK' /\ Numbered(catalog) /\ Numbered(stored)
  BY CreateIndexType DEF IInv
<1>2. /\ count \in IndexNumbers
      /\ \A t \in Tables \ {tb} : catalog'[t] = catalog[t]
      /\ catalog'[tb].indexCount = count + 1
      /\ \A d \in Columns \ {c} : catalog'[tb].attribute[d] = catalog[tb].attribute[d]
      /\ catalog'[tb].attribute[c].indexNo = count
      /\ \A t \in Tables, i \in IndexNumbers :
           <<t, i>> # <<tb, count>> => index'[t][i] = index[t][i]
      /\ index'[tb][count].exists
      /\ file[tb].exists => index'[tb][count].entries = EntriesOf(tb, c)
  BY <1>1, CreateIndexParts
<1>3. /\ UNCHANGED <<created, file, past>>
      /\ status' = IF file[tb].exists THEN status ELSE "undefined"
      /\ stored' = IF file[tb].exists THEN catalog' ELSE stored
      /\ ~HasIndex(tb, c)
  BY DEF CreateIndex
<1>4. \A d \in Columns : HasIndex(tb, d) => IndexNo(tb, d) \in IndexNumbers /\ IndexNo(tb, d) < count
  BY <1>1, NumberedParts, TypeParts DEF HasIndex, IndexNo
<1>5. /\ \A d \in Columns \ {c} : IndexNo(tb, d)' = IndexNo(tb, d)
      /\ IndexNo(tb, c)' = count /\ HasIndex(tb, c)'
      /\ \A t \in Tables \ {tb}, d \in Columns : IndexNo(t, d)' = IndexNo(t, d)
      /\ count \in Nat
  BY <1>2 DEF IndexNo, HasIndex, IndexNumbers
<1>6. Numbered(catalog')
  <2> SUFFICES ASSUME NEW t \in Tables
               PROVE  /\ catalog'[t] # NoTable => catalog'[t].indexCount >= 0
                      /\ \A d \in Columns : IndexNo(t, d)' >= 0 =>
                           /\ IndexNo(t, d)' < catalog'[t].indexCount
                           /\ \A e \in Columns : IndexNo(t, e)' = IndexNo(t, d)' => e = d
    BY DEF Numbered, IndexNo
  <2>1. CASE t # tb
    BY <1>1, <1>2, <2>1 DEF Numbered, IndexNo
  <2>2. CASE t = tb
    <3>1. \A d \in Columns \ {c} : IndexNo(tb, d)' >= 0 =>
            /\ IndexNo(tb, d)' < count
            /\ \A e \in Columns \ {c} : IndexNo(tb, e)' = IndexNo(tb, d)' => e = d
      BY <1>1, <1>4, <1>5 DEF HasIndex, Numbered, IndexNo
    <3>2. \A d \in Columns \ {c} : IndexNo(tb, d)' \in Int
      BY <1>1, <1>5, CatalogParts DEF TypeOK, IndexNo
    <3> QED
      BY <1>2, <1>5, <2>2, <3>1, <3>2
  <2> QED
    BY <2>1, <2>2
<1>7. CASE ~file[tb].exists
  BY <1>1, <1>3, <1>6, <1>7, UndefinedStep
<1>8. CASE file[tb].exists
  <2>1. stored' = catalog' /\ status' = "running"
    BY <1>3, <1>8
  <2>2. ASSUME NEW t \in Tables, NEW d \in Columns, <<t, d>> # <<tb, c>>, HasIndex(t, d)
        PROVE  IndexNo(t, d) \in IndexNumbers /\ index'[t][IndexNo(t, d)] = index[t][IndexNo(t, d)]
    <3>1. IndexNo(t, d) \in IndexNumbers
      BY <1>1, <2>2, NumberedParts, TypeParts DEF HasIndex, IndexNo
    <3>2. <<t, IndexNo(t, d)>> # <<tb, count>>
      BY <1>4, <1>5, <2>2
    <3> QED
      BY <1>2, <3>1, <3>2
  <2>3. \A t \in Tables, d \in Columns :
          <<t, d>> # <<tb, c>> => IndexNo(t, d)' = IndexNo(t, d)
    BY <1>5
  <2>4. \A t \in Tables, d, e \in Columns :
          HasIndex(t, d)' /\ IndexNo(t, d)' = IndexNo(t, e)' => d = e
    BY <1>6 DEF Numbered, HasIndex, IndexNo
  <2>5. \A t \in Tables, d \in Columns :
          FileMissing(t, d)' => <<t, d>> # <<tb, c>> /\ FileMissing(t, d)
    BY <1>2, <1>5, <2>2, <2>3 DEF FileMissing, HasIndex
  <2>6. ASSUME "emptied" \notin past', NEW t \in Tables, NEW i \in IndexNumbers, index'[t][i].exists
        PROVE  \E d \in Columns : IndexNo(t, d)' = i
    <3>1. CASE <<t, i>> = <<tb, count>>
      BY <1>5, <3>1
    <3>2. CASE <<t, i>> # <<tb, count>>
      <4>1. index[t][i].exists /\ "emptied" \notin past
        BY <1>2, <1>3, <2>6, <3>2
      <4>2. PICK d \in Columns : IndexNo(t, d) = i
        BY <4>1 DEF IInv, IndexFilesNamed, Running
      <4>3. <<t, d>> # <<tb, c>>
        BY <1>3, <4>2 DEF HasIndex, IndexNumbers
      <4> QED
        BY <2>3, <4>2, <4>3
    <3> QED
      BY <3>1, <3>2
  <2>7. IndexFilesNamed'
    BY <1>3, <2>4, <2>5, <2>6 DEF IInv, IndexFilesNamed, Running
  <2>8. IndexesMatchRecords'
    <3> SUFFICES ASSUME "short" \notin past, NEW t \in Tables, NEW d \in Columns,
                        HasIndex(t, d)', ~FileMissing(t, d)'
                 PROVE  Entries(t, d)' = EntriesOf(t, d)
      BY <1>3 DEF IndexesMatchRecords, EntriesOf, Rows
    <3>1. CASE <<t, d>> = <<tb, c>>
      BY <1>2, <1>5, <1>8, <3>1 DEF Entries
    <3>2. CASE <<t, d>> # <<tb, c>>
      <4>1. HasIndex(t, d) /\ ~FileMissing(t, d)
        BY <2>2, <2>3, <3>2 DEF FileMissing, HasIndex
      <4>2. Entries(t, d)' = Entries(t, d)
        BY <2>2, <2>3, <3>2, <4>1 DEF Entries
      <4> QED
        BY <4>1, <4>2 DEF IInv, IndexesMatchRecords, Running
    <3> QED
      BY <3>1, <3>2
  <2> QED
    BY <1>1, <1>6, <2>1, <2>7, <2>8, AllStored, RunningStep
<1> QED
  BY <1>7, <1>8

LEMMA WithoutIndex ==
  ASSUME NEW a \in Attribute, NEW b \in Attribute,
         b.notNull = a.notNull, b.isPrimarykey = a.isPrimarykey, b.indexNo = None
  PROVE  [a EXCEPT !.indexNo = None] = b
BY DEF Attribute

(* DROP of the indexes of some attributes of a table.                      *)
LEMMA DropKeeps ==
  ASSUME IInv, status = "running", TypeOK', NEW tb \in Tables, NEW dropped \in SUBSET Columns,
         UNCHANGED <<stored, created, file, status, past>>,
         \A t \in Tables \ {tb} : catalog'[t] = catalog[t] /\ index'[t] = index[t],
         \A c \in dropped : catalog'[tb].attribute[c].indexNo = None,
         catalog'[tb] = NoTable \/
           /\ catalog[tb] # NoTable
           /\ catalog'[tb].indexCount = catalog[tb].indexCount
           /\ \A c \in dropped :
                /\ catalog'[tb].attribute[c].notNull = catalog[tb].attribute[c].notNull
                /\ catalog'[tb].attribute[c].isPrimarykey = catalog[tb].attribute[c].isPrimarykey,
         \A c \in Columns \ dropped : catalog'[tb].attribute[c] = catalog[tb].attribute[c],
         \A i \in IndexNumbers :
           index'[tb][i] = IF \E c \in dropped : IndexNo(tb, c) = i THEN NoIndexFile
                           ELSE index[tb][i]
  PROVE  IInv'
<1>1. TypeOK /\ Numbered(catalog) /\ Numbered(stored) /\ Running /\ Running'
  BY DEF IInv, Running
<1>2. \A t \in Tables, c \in Columns :
        /\ IndexNo(t, c)' = IF t = tb /\ c \in dropped THEN None ELSE IndexNo(t, c)
        /\ HasIndex(t, c)' <=> HasIndex(t, c) /\ ~(t = tb /\ c \in dropped)
  <2> SUFFICES ASSUME NEW t \in Tables, NEW c \in Columns
               PROVE  /\ IndexNo(t, c)' = IF t = tb /\ c \in dropped THEN None ELSE IndexNo(t, c)
                      /\ HasIndex(t, c)' <=> HasIndex(t, c) /\ ~(t = tb /\ c \in dropped)
    OBVIOUS
  <2>1. CASE t = tb /\ c \in dropped
    <3>1. IndexNo(t, c)' = None
      BY <2>1 DEF IndexNo
    <3>2. ~HasIndex(t, c)'
      BY <3>1 DEF HasIndex, None
    <3> QED
      BY <2>1, <3>1, <3>2
  <2>2. CASE ~(t = tb /\ c \in dropped)
    <3>1. catalog'[t].attribute[c] = catalog[t].attribute[c]
      BY <2>2
    <3>2. IndexNo(t, c)' = IndexNo(t, c)
      BY <3>1 DEF IndexNo
    <3> QED
      BY <2>2, <3>2 DEF HasIndex
  <2> QED
    BY <2>1, <2>2
<1>3. \A t \in Tables, c \in Columns :
        HasIndex(t, c) => Exists(t) /\ IndexNo(t, c) \in IndexNumbers
  BY <1>1, NumberedParts, TypeParts DEF HasIndex, IndexNo, Exists
<1>4. \A t \in Tables, c, d \in Columns :
        HasIndex(t, c) /\ IndexNo(t, c) = IndexNo(t, d) => c = d
  BY <1>1 DEF Numbered, HasIndex, IndexNo
<1>5. \A t \in Tables, i \in IndexNumbers : index'[t][i].exists => index[t][i].exists
  BY DEF NoIndexFile
<1>6. \A t \in Tables, c \in Columns : HasIndex(t, c)' =>
        /\ HasIndex(t, c) /\ IndexNo(t, c)' = IndexNo(t, c)
        /\ index'[t][IndexNo(t, c)] = index[t][IndexNo(t, c)]
  <2> SUFFICES ASSUME NEW t \in Tables, NEW c \in Columns, HasIndex(t, c)'
               PROVE  /\ HasIndex(t, c) /\ IndexNo(t, c)' = IndexNo(t, c)
                      /\ index'[t][IndexNo(t, c)] = index[t][IndexNo(t, c)]
    OBVIOUS
  <2>1. HasIndex(t, c) /\ IndexNo(t, c)' = IndexNo(t, c) /\ IndexNo(t, c) \in IndexNumbers
    BY <1>2, <1>3
  <2>2. CASE t # tb
    BY <2>1, <2>2
  <2>3. CASE t = tb
    <3>1. ~\E d \in dropped : IndexNo(tb, d) = IndexNo(tb, c)
      BY <1>2, <1>4, <2>1, <2>3
    <3> QED
      BY <2>1, <2>3, <3>1
  <2> QED
    BY <2>1, <2>2, <2>3
<1>7. Numbered(catalog')
  <2> SUFFICES ASSUME NEW t \in Tables
               PROVE  /\ catalog'[t] # NoTable => catalog'[t].indexCount >= 0
                      /\ \A c \in Columns : HasIndex(t, c)' =>
                           /\ IndexNo(t, c)' < catalog'[t].indexCount
                           /\ \A d \in Columns : IndexNo(t, d)' = IndexNo(t, c)' => d = c
    BY DEF Numbered, IndexNo, HasIndex
  <2>1. catalog'[t] # NoTable =>
          catalog'[t].indexCount = catalog[t].indexCount /\ catalog[t] # NoTable
    OBVIOUS
  <2>2. catalog'[t] = NoTable => \A c \in Columns : ~HasIndex(t, c)'
    BY NoTableType DEF HasIndex, IndexNo, None
  <2>3. ASSUME NEW c \in Columns, HasIndex(t, c)'
        PROVE  /\ IndexNo(t, c)' < catalog'[t].indexCount
               /\ \A d \in Columns : IndexNo(t, d)' = IndexNo(t, c)' => d = c
    <3>1. IndexNo(t, c) < catalog[t].indexCount /\ IndexNo(t, c)' = IndexNo(t, c)
      BY <1>1, <1>6, <2>3 DEF Numbered, HasIndex, IndexNo
    <3>2. ASSUME NEW d \in Columns, IndexNo(t, d)' = IndexNo(t, c)'
          PROVE  d = c
      <4>1. HasIndex(t, d)'
        BY <2>3, <3>2 DEF HasIndex
      <4>2. IndexNo(t, d) = IndexNo(t, c) /\ HasIndex(t, c)
        BY <1>6, <2>3, <3>1, <3>2, <4>1
      <4> QED
        BY <1>4, <4>2
    <3>3. catalog'[t] # NoTable
      BY <2>2, <2>3
    <3>4. IndexNo(t, c)' < catalog'[t].indexCount
      BY <2>1, <3>1, <3>3
    <3> QED
      BY <3>2, <3>4
  <2> QED
    BY <1>1, <2>1, <2>3 DEF Numbered
<1>8. CreatedIsStored'
  <2> SUFFICES ASSUME NEW t \in Tables, Exists(t)'
               PROVE  /\ stored'[t] # NoTable
                      /\ stored'[t].indexCount <= catalog'[t].indexCount
                      /\ \A c \in Columns :
                           \/ stored'[t].attribute[c] = catalog'[t].attribute[c]
                           \/ /\ ~HasIndex(t, c)'
                              /\ [stored'[t].attribute[c] EXCEPT !.indexNo = None] =
                                   catalog'[t].attribute[c]
    BY DEF CreatedIsStored
  <2>1. Exists(t) /\ catalog'[t].indexCount = catalog[t].indexCount
    BY DEF Exists
  <2>2. /\ stored[t] # NoTable
        /\ stored[t].indexCount <= catalog[t].indexCount
        /\ \A c \in Columns :
             \/ stored[t].attribute[c] = catalog[t].attribute[c]
             \/ /\ ~HasIndex(t, c)
                /\ [stored[t].attribute[c] EXCEPT !.indexNo = None] = catalog[t].attribute[c]
    BY <1>1, <2>1 DEF IInv, CreatedIsStored
  <2>3. ASSUME NEW c \in Columns, t = tb, c \in dropped
        PROVE  /\ ~HasIndex(t, c)'
               /\ [stored[t].attribute[c] EXCEPT !.indexNo = None] = catalog'[t].attribute[c]
    <3>1. /\ catalog[t].attribute[c] \in Attribute
          /\ catalog'[t].attribute[c] \in Attribute
          /\ stored[t].attribute[c] \in Attribute
      BY <1>1, TypeParts, TypePartsNext DEF TableType
    <3>2. /\ catalog'[t].attribute[c].notNull = catalog[t].attribute[c].notNull
          /\ catalog'[t].attribute[c].isPrimarykey = catalog[t].attribute[c].isPrimarykey
          /\ catalog'[t].attribute[c].indexNo = None
      BY <2>3 DEF Exists
    <3>3. /\ stored[t].attribute[c].notNull = catalog[t].attribute[c].notNull
          /\ stored[t].attribute[c].isPrimarykey = catalog[t].attribute[c].isPrimarykey
      BY <2>2, <3>1 DEF Attribute
    <3>4. [stored[t].attribute[c] EXCEPT !.indexNo = None] = catalog'[t].attribute[c]
      BY <3>1, <3>2, <3>3, WithoutIndex
    <3> QED
      BY <1>2, <2>3, <3>4
  <2>4. ASSUME NEW c \in Columns, ~(t = tb /\ c \in dropped)
        PROVE  catalog'[t].attribute[c] = catalog[t].attribute[c] /\ (HasIndex(t, c)' <=> HasIndex(t, c))
    BY <1>2, <2>4
  <2> QED
    BY <2>1, <2>2, <2>3, <2>4
<1>9. DroppedFilesGone'
  <2> SUFFICES ASSUME NEW t \in Tables, NEW c \in Columns, StoredNo(t, c) >= 0, ~HasIndex(t, c)'
               PROVE  ~index'[t][StoredNo(t, c)].exists
    BY DEF DroppedFilesGone, StoredNo
  <2>1. StoredNo(t, c) \in IndexNumbers
    BY <1>1, NumberedParts, TypeParts DEF StoredNo
  <2>2. CASE ~HasIndex(t, c)
    BY <1>1, <1>5, <2>1, <2>2 DEF IInv, DroppedFilesGone
  <2>3. CASE HasIndex(t, c)
    <3>1. t = tb /\ c \in dropped
      BY <1>2, <2>3
    <3>2. StoredNo(t, c) = IndexNo(t, c)
      BY <1>1, <1>3, <2>3 DEF IInv, CreatedIsStored, StoredNo, IndexNo
    <3> QED
      BY <2>1, <3>1, <3>2 DEF NoIndexFile
  <2> QED
    BY <2>2, <2>3
<1>10. \A t \in Tables, c \in Columns :
         FileMissing(t, c)' => FileMissing(t, c)
  BY <1>6 DEF FileMissing
<1>11. ASSUME "emptied" \notin past, NEW t \in Tables, NEW i \in IndexNumbers, index'[t][i].exists
       PROVE  \E c \in Columns : IndexNo(t, c)' = i
  <2>1. PICK c \in Columns : IndexNo(t, c) = i
    BY <1>1, <1>5, <1>11 DEF IInv, IndexFilesNamed
  <2>2. ~(t = tb /\ c \in dropped)
    BY <1>11, <2>1 DEF NoIndexFile
  <2> QED
    BY <1>2, <2>1, <2>2
<1>12. \A t \in Tables, c, d \in Columns :
         HasIndex(t, c)' /\ IndexNo(t, c)' = IndexNo(t, d)' => c = d
  BY <1>7 DEF Numbered, HasIndex, IndexNo
<1>13. IndexFilesNamed'
  BY <1>1, <1>10, <1>11, <1>12 DEF IInv, IndexFilesNamed
<1>14. \A t \in Tables, c \in Columns :
         HasIndex(t, c)' /\ ~FileMissing(t, c)' =>
           /\ HasIndex(t, c) /\ ~FileMissing(t, c)
           /\ Entries(t, c)' = Entries(t, c)
  BY <1>6 DEF FileMissing, Entries
<1>15. \A t \in Tables, c \in Columns : EntriesOf(t, c)' = EntriesOf(t, c)
  BY DEF EntriesOf, Rows
<1>16. IndexesMatchRecords'
  BY <1>1, <1>14, <1>15 DEF IInv, IndexesMatchRecords
<1> QED
  BY <1>1, <1>7, <1>8, <1>9, <1>13, <1>16, RunningStep DEF Running

LEMMA DropTableKeeps ==
  ASSUME IInv, status = "running", NEW tb \in Tables, DropTable(tb)
  PROVE  IInv'
<1>1. TypeOK /\ TypeOK'
  BY CatalogStatementType DEF IInv, CatalogStep
<1>2. /\ UNCHANGED <<stored, created, file, status, past>>
      /\ catalog' = [catalog EXCEPT ![tb] = NoTable]
      /\ index' = [index EXCEPT ![tb] = [i \in IndexNumbers |->
           IF \E c \in Columns : IndexNo(tb, c) = i THEN NoIndexFile ELSE index[tb][i]]]
  BY DEF DropTable
<1>3. /\ \A t \in Tables \ {tb} : catalog'[t] = catalog[t] /\ index'[t] = index[t]
      /\ catalog'[tb] = NoTable
      /\ \A i \in IndexNumbers :
           index'[tb][i] = IF \E c \in Columns : IndexNo(tb, c) = i THEN NoIndexFile
                           ELSE index[tb][i]
  BY <1>1, <1>2, TypeParts
<1>4. \A c \in Columns : catalog'[tb].attribute[c].indexNo = None
  BY <1>3, NoTableType
<1>5. Columns \in SUBSET Columns /\ Columns \ Columns = {}
  OBVIOUS
<1> QED
  BY <1>1, <1>2, <1>3, <1>4, <1>5, DropKeeps

LEMMA DropIndexKeeps ==
  ASSUME IInv, status = "running", NEW tb \in Tables, NEW c \in Columns, DropIndex(tb, c)
  PROVE  IInv'
<1> DEFINE dropped == {c}
<1>1. TypeOK /\ TypeOK' /\ Numbered(catalog)
  BY CatalogStatementType DEF IInv, CatalogStep
<1>2. /\ UNCHANGED <<stored, created, file, status, past>>
      /\ catalog' = SetIndexNo(tb, c, None)
      /\ index' = [index EXCEPT ![tb][IndexNo(tb, c)] = NoIndexFile]
      /\ HasIndex(tb, c)
  BY DEF DropIndex
<1>3. IndexNo(tb, c) \in IndexNumbers /\ catalog[tb] # NoTable
  BY <1>1, <1>2, NumberedParts, TypeParts DEF HasIndex, IndexNo
<1>4. /\ \A t \in Tables \ {tb} : catalog'[t] = catalog[t]
      /\ catalog'[tb].indexCount = catalog[tb].indexCount
      /\ \A d \in Columns \ {c} : catalog'[tb].attribute[d] = catalog[tb].attribute[d]
      /\ catalog'[tb].attribute[c].notNull = catalog[tb].attribute[c].notNull
      /\ catalog'[tb].attribute[c].isPrimarykey = catalog[tb].attribute[c].isPrimarykey
      /\ catalog'[tb].attribute[c].indexNo = None
  BY <1>1, <1>2, SetIndexNoParts DEF HasNumber
<1>5. /\ \A t \in Tables \ {tb} : index'[t] = index[t]
      /\ \A i \in IndexNumbers :
           index'[tb][i] = IF \E d \in dropped : IndexNo(tb, d) = i THEN NoIndexFile
                           ELSE index[tb][i]
  BY <1>1, <1>2, <1>3, TypeParts
<1>6. /\ dropped \in SUBSET Columns
      /\ \A d \in dropped :
           /\ catalog'[tb].attribute[d].indexNo = None
           /\ catalog'[tb].attribute[d].notNull = catalog[tb].attribute[d].notNull
           /\ catalog'[tb].attribute[d].isPrimarykey = catalog[tb].attribute[d].isPrimarykey
      /\ \A d \in Columns \ dropped : catalog'[tb].attribute[d] = catalog[tb].attribute[d]
  BY <1>4
<1> HIDE DEF dropped
<1>7. \/ catalog'[tb] = NoTable
      \/ /\ catalog[tb] # NoTable
         /\ catalog'[tb].indexCount = catalog[tb].indexCount
         /\ \A d \in dropped :
              /\ catalog'[tb].attribute[d].notNull = catalog[tb].attribute[d].notNull
              /\ catalog'[tb].attribute[d].isPrimarykey = catalog[tb].attribute[d].isPrimarykey
  BY <1>3, <1>4, <1>6
<1>8. \A t \in Tables \ {tb} : catalog'[t] = catalog[t] /\ index'[t] = index[t]
  BY <1>4, <1>5
<1>9. \A d \in dropped : catalog'[tb].attribute[d].indexNo = None
  BY <1>6
<1> QED
  BY <1>1, <1>2, <1>5, <1>6, <1>7, <1>8, <1>9, DropKeeps

LEMMA CreateIndexRefusedKeeps ==
  ASSUME IInv, status = "running", NEW tb \in Tables, CreateIndexRefused(tb)
  PROVE  IInv'
<1>1. TypeOK /\ TypeOK' /\ Numbered(catalog) /\ Numbered(stored)
  BY CatalogStatementType DEF IInv, CatalogStep
<1>2. /\ UNCHANGED <<stored, created, file, index, status, past>>
      /\ catalog' = [catalog EXCEPT ![tb] =
           [catalog[tb] EXCEPT !.indexCount = catalog[tb].indexCount + 1]]
      /\ Exists(tb)
  BY DEF CreateIndexRefused
<1>3. /\ \A t \in Tables \ {tb} : catalog'[t] = catalog[t]
      /\ catalog'[tb].indexCount = catalog[tb].indexCount + 1
      /\ catalog'[tb].attribute = catalog[tb].attribute
      /\ \A t \in Tables : catalog[t].indexCount \in Int /\ stored[t].indexCount \in Int
  BY <1>1, <1>2, TypeParts DEF TableType, None
<1>4. \A t \in Tables, c \in Columns :
        /\ catalog'[t].attribute[c] = catalog[t].attribute[c]
        /\ IndexNo(t, c)' = IndexNo(t, c)
        /\ HasIndex(t, c)' <=> HasIndex(t, c)
        /\ FileMissing(t, c)' <=> FileMissing(t, c)
        /\ Entries(t, c)' = Entries(t, c)
        /\ EntriesOf(t, c)' = EntriesOf(t, c)
  BY <1>2, <1>3 DEF IndexNo, HasIndex, FileMissing, Entries, EntriesOf, Rows
<1>5. \A t \in Tables :
        /\ Exists(t)' => Exists(t)
        /\ catalog[t].indexCount <= catalog'[t].indexCount
        /\ catalog'[t].indexCount \in Int
  BY <1>2, <1>3 DEF Exists
<1>6. Numbered(catalog')
  <2> SUFFICES ASSUME NEW t \in Tables
               PROVE  /\ catalog'[t] # NoTable => catalog'[t].indexCount >= 0
                      /\ \A c \in Columns : catalog'[t].attribute[c].indexNo >= 0 =>
                           /\ catalog'[t].attribute[c].indexNo < catalog'[t].indexCount
                           /\ \A d \in Columns :
                                catalog'[t].attribute[d].indexNo =
                                  catalog'[t].attribute[c].indexNo => d = c
    BY DEF Numbered
  <2>1. catalog'[t] # NoTable => catalog'[t].indexCount >= 0
    BY <1>1, <1>3, <1>5 DEF Numbered, Exists
  <2>2. ASSUME NEW c \in Columns, catalog[t].attribute[c].indexNo >= 0
        PROVE  catalog[t].attribute[c].indexNo < catalog'[t].indexCount
    <3>1. catalog[t].attribute[c].indexNo < catalog[t].indexCount
      BY <1>1, <2>2 DEF Numbered
    <3>2. catalog[t].attribute[c].indexNo \in Int
      BY <1>1, CatalogParts DEF TypeOK
    <3> QED
      BY <1>3, <1>5, <3>1, <3>2
  <2> QED
    BY <1>1, <1>4, <2>1, <2>2 DEF Numbered
<1>7. CreatedIsStored'
  <2> SUFFICES ASSUME NEW t \in Tables, Running, Exists(t)
               PROVE  stored[t].indexCount <= catalog'[t].indexCount
    BY <1>2, <1>4, <1>5 DEF IInv, CreatedIsStored, Running
  <2>1. stored[t].indexCount <= catalog[t].indexCount
    BY DEF IInv, CreatedIsStored
  <2> QED
    BY <1>3, <1>5, <2>1
<1>8. IndexFilesNamed'
  BY <1>2, <1>4 DEF IInv, IndexFilesNamed, Running
<1>9. DroppedFilesGone'
  BY <1>2, <1>4 DEF IInv, DroppedFilesGone, Running, StoredNo
<1>10. IndexesMatchRecords'
  BY <1>2, <1>4 DEF IInv, IndexesMatchRecords, Running
<1> QED
  BY <1>1, <1>2, <1>6, <1>7, <1>8, <1>9, <1>10, RunningStep

LEMMA CatalogStatementKeeps ==
  ASSUME IInv, status = "running", NEW tb \in Tables, CatalogStep(tb)
  PROVE  IInv'
BY CreateTableKeeps, CreateIndexKeeps, DropTableKeeps, DropIndexKeeps, CreateIndexRefusedKeeps
DEF CatalogStep

(***************************************************************************)
(* The database                                                            *)
(***************************************************************************)

LEMMA StoredEntries ==
  ASSUME UNCHANGED <<file, index>>
  PROVE  \A tb \in Tables, c \in Columns : EntriesOf(tb, c)' = EntriesOf(tb, c)
BY DEF EntriesOf, Rows

(* A database without tables has no indexes to speak of.                   *)
LEMMA NothingStored ==
  ASSUME TypeOK', Numbered(catalog'), status' = "idle", stored' = NoTables,
         "emptied" \notin past' =>
           \A tb \in Tables, i \in IndexNumbers : ~index'[tb][i].exists
  PROVE  IInv'
<1>1. \A tb \in Tables, c \in Columns : ~(StoredNo(tb, c)' >= 0)
  BY NoTableType DEF StoredNo, NoTables, None
<1>2. StoredFilesNamed' /\ StoredIndexesMatch'
  BY <1>1 DEF StoredFilesNamed, StoredIndexesMatch
<1>3. Numbered(stored')
  BY NumberedNoTables
<1> QED
  BY <1>2, <1>3, IdleStep

LEMMA CreateDbKeeps ==
  ASSUME IInv, CreateDb
  PROVE  IInv'
<1>1. TypeOK' /\ Numbered(catalog')
  BY DatabaseStatementType DEF IInv, DatabaseStep, CreateDb
<1>2. /\ status = "idle" /\ status' = "idle" /\ stored' = NoTables
      /\ past' = IF stored = NoTables THEN past ELSE past \cup {"emptied"}
      /\ UNCHANGED <<file, index>>
  BY DEF CreateDb
<1>3. ASSUME "emptied" \notin past', NEW tb \in Tables, NEW i \in IndexNumbers, index'[tb][i].exists
      PROVE  FALSE
  <2>1. stored = NoTables /\ "emptied" \notin past
    BY <1>2, <1>3
  <2>2. PICK c \in Columns : StoredNo(tb, c) = i
    BY <1>2, <1>3, <2>1 DEF IInv, StoredFilesNamed
  <2>3. StoredNo(tb, c) = None
    BY <2>1, NoTableType DEF StoredNo, NoTables
  <2> QED
    BY <2>2, <2>3 DEF IndexNumbers, None
<1> QED
  BY <1>1, <1>2, <1>3, NothingStored

LEMMA DropDbKeeps ==
  ASSUME IInv, DropDb
  PROVE  IInv'
<1>1. TypeOK' /\ Numbered(catalog')
  BY DatabaseStatementType DEF IInv, DatabaseStep, DropDb
<1>2. status' = "idle" /\ stored' = NoTables /\ index' = NoIndexFiles
  BY DEF DropDb
<1>3. \A tb \in Tables, i \in IndexNumbers : ~index'[tb][i].exists
  BY <1>2 DEF NoIndexFiles, NoIndexFile
<1> QED
  BY <1>1, <1>2, <1>3, NothingStored

LEMMA OpenDbKeeps ==
  ASSUME IInv, OpenDb
  PROVE  IInv'
<1>1. TypeOK' /\ Numbered(stored) /\ TypeOK
  BY DatabaseStatementType DEF IInv, DatabaseStep
<1>2. /\ status = "idle" /\ status' = "running" /\ catalog' = stored
      /\ UNCHANGED <<stored, created, file, index, past>>
  BY DEF OpenDb
<1>3. \A tb \in Tables, c \in Columns :
        /\ IndexNo(tb, c)' = StoredNo(tb, c)
        /\ HasIndex(tb, c)' <=> StoredNo(tb, c) >= 0
        /\ FileMissing(tb, c)' <=>
             StoredNo(tb, c) >= 0 /\ ~index[tb][StoredNo(tb, c)].exists
        /\ Entries(tb, c)' = index[tb][StoredNo(tb, c)].entries
  BY <1>2 DEF IndexNo, HasIndex, FileMissing, Entries, StoredNo
<1>4. \A tb \in Tables, c, d \in Columns :
        StoredNo(tb, c) >= 0 /\ StoredNo(tb, c) = StoredNo(tb, d) => c = d
  BY <1>1 DEF Numbered, StoredNo
<1>5. IndexFilesNamed'
  BY <1>2, <1>3, <1>4 DEF IInv, IndexFilesNamed, StoredFilesNamed
<1>6. IndexesMatchRecords'
  BY <1>2, <1>3, StoredEntries DEF IInv, IndexesMatchRecords, StoredIndexesMatch
<1> QED
  BY <1>1, <1>2, <1>5, <1>6, AllStored, RunningStep

LEMMA ExitKeeps ==
  ASSUME IInv, Exit
  PROVE  IInv'
<1>1. TypeOK' /\ Numbered(stored) /\ TypeOK /\ Numbered(catalog)
  BY DatabaseStatementType DEF IInv, DatabaseStep
<1>2. /\ Running /\ status' = "idle" /\ catalog' = NoTables
      /\ past' = IF Undoes THEN past \cup {"undone"} ELSE past
      /\ UNCHANGED <<stored, created, file, index>>
  BY DEF Exit, Running
<1>3. ASSUME NEW tb \in Tables, NEW c \in Columns, HasIndex(tb, c)
      PROVE  StoredNo(tb, c) = IndexNo(tb, c)
  <2>1. Exists(tb)
    BY <1>1, <1>3, NumberedParts, TypeParts DEF HasIndex, IndexNo, Exists
  <2> QED
    BY <1>2, <1>3, <2>1 DEF IInv, CreatedIsStored, StoredNo, IndexNo
<1>4. ASSUME "undone" \notin past', NEW tb \in Tables, NEW c \in Columns, StoredNo(tb, c) >= 0
      PROVE  index[tb][StoredNo(tb, c)].exists
  <2>1. HasIndex(tb, c) /\ "undone" \notin past
    BY <1>2, <1>4 DEF Undoes, StoredNo
  <2>2. ~FileMissing(tb, c)
    BY <1>2, <2>1 DEF IInv, IndexFilesNamed
  <2> QED
    BY <1>3, <2>1, <2>2 DEF FileMissing
<1>5. ASSUME "emptied" \notin past', NEW tb \in Tables, NEW i \in IndexNumbers, index[tb][i].exists
      PROVE  \E c \in Columns : StoredNo(tb, c) = i
  <2>1. "emptied" \notin past
    BY <1>2, <1>5
  <2>2. PICK c \in Columns : IndexNo(tb, c) = i
    BY <1>2, <1>5, <2>1 DEF IInv, IndexFilesNamed
  <2>3. HasIndex(tb, c)
    BY <2>2 DEF HasIndex, IndexNumbers
  <2> QED
    BY <1>3, <2>2, <2>3
<1>6. StoredFilesNamed'
  BY <1>2, <1>4, <1>5 DEF StoredFilesNamed, StoredNo
<1>7. ASSUME "short" \notin past', NEW tb \in Tables, NEW c \in Columns,
             StoredNo(tb, c) >= 0, index[tb][StoredNo(tb, c)].exists
      PROVE  index[tb][StoredNo(tb, c)].entries = EntriesOf(tb, c)
  <2>1. HasIndex(tb, c) /\ "short" \notin past
    BY <1>2, <1>7 DEF IInv, DroppedFilesGone
  <2>2. StoredNo(tb, c) = IndexNo(tb, c) /\ ~FileMissing(tb, c)
    BY <1>3, <1>7, <2>1 DEF FileMissing
  <2> QED
    BY <1>2, <2>1, <2>2 DEF IInv, IndexesMatchRecords, Entries
<1>8. StoredIndexesMatch'
  BY <1>2, <1>7, StoredEntries DEF StoredIndexesMatch, StoredNo
<1> QED
  BY <1>1, <1>2, <1>6, <1>8, NumberedNoTables, IdleStep

LEMMA SameCatalogKeeps ==
  ASSUME IInv, Running, CreateDbInside
  PROVE  IInv'
<1>1. TypeOK' /\ Numbered(catalog)
  BY DatabaseStatementType DEF IInv, DatabaseStep
<1>2. UNCHANGED <<catalog, created, file, index, status, past>> /\ stored' = catalog
  BY DEF CreateDbInside
<1>3. IndexFilesNamed'
  BY <1>2 DEF IInv, IndexFilesNamed, Running, HasIndex, IndexNo, FileMissing
<1>4. IndexesMatchRecords'
  BY <1>2, StoredEntries DEF IInv, IndexesMatchRecords, Running, HasIndex, IndexNo, FileMissing, Entries
<1> QED
  BY <1>1, <1>2, <1>3, <1>4, AllStored, RunningStep DEF Running

LEMMA DatabaseStatementKeeps ==
  ASSUME IInv, DatabaseStep
  PROVE  IInv'
<1>1. CASE CreateDbInside
  BY <1>1, SameCatalogKeeps DEF CreateDbInside, Running
<1>2. CASE NotInUse
  BY <1>2, DatabaseStatementType, UndefinedStep DEF NotInUse, IInv, DatabaseStep
<1> QED
  BY <1>1, <1>2, CreateDbKeeps, DropDbKeeps, OpenDbKeeps, ExitKeeps DEF DatabaseStep

(***************************************************************************)
(* The theorems                                                            *)
(***************************************************************************)

LEMMA InitIInv == Init => IInv
<1> SUFFICES ASSUME Init PROVE IInv
  OBVIOUS
<1> USE DEF Init
<1>1. TypeOK
  BY TypeParts, EmptyTypes
<1>2. Numbered(catalog) /\ Numbered(stored)
  BY NumberedNoTables
<1>3. \A tb \in Tables, c \in Columns : ~(StoredNo(tb, c) >= 0)
  BY NoTableType DEF StoredNo, NoTables, None
<1>4. \A tb \in Tables, i \in IndexNumbers : ~index[tb][i].exists
  BY DEF NoIndexFiles, NoIndexFile
<1>5. StoredFilesNamed /\ StoredIndexesMatch
  BY <1>3, <1>4 DEF StoredFilesNamed, StoredIndexesMatch
<1> QED
  BY <1>1, <1>2, <1>5
  DEF IInv, CreatedIsStored, IndexFilesNamed, DroppedFilesGone, IndexesMatchRecords, Running

LEMMA StutterKeeps ==
  ASSUME IInv, UNCHANGED vars
  PROVE  IInv'
<1>1. UNCHANGED <<catalog, stored, created, file, index, status, past>>
  BY DEF vars
<1>2. \A tb \in Tables, c \in Columns :
        /\ IndexNo(tb, c)' = IndexNo(tb, c)
        /\ StoredNo(tb, c)' = StoredNo(tb, c)
        /\ HasIndex(tb, c)' <=> HasIndex(tb, c)
        /\ FileMissing(tb, c)' <=> FileMissing(tb, c)
        /\ Entries(tb, c)' = Entries(tb, c)
        /\ EntriesOf(tb, c)' = EntriesOf(tb, c)
  BY <1>1, StoredEntries DEF IndexNo, StoredNo, HasIndex, FileMissing, Entries
<1>3. TypeOK' /\ Numbered(catalog)' /\ Numbered(stored)'
  BY <1>1, TypeParts, TypePartsNext DEF IInv, Numbered
<1>4. CreatedIsStored'
  BY <1>1, <1>2 DEF IInv, CreatedIsStored, Running, Exists
<1>5. IndexFilesNamed'
  BY <1>1, <1>2 DEF IInv, IndexFilesNamed, Running
<1>6. StoredFilesNamed'
  BY <1>1, <1>2 DEF IInv, StoredFilesNamed
<1>7. DroppedFilesGone'
  BY <1>1, <1>2 DEF IInv, DroppedFilesGone, Running
<1>8. IndexesMatchRecords'
  BY <1>1, <1>2 DEF IInv, IndexesMatchRecords, Running
<1>9. StoredIndexesMatch'
  BY <1>1, <1>2 DEF IInv, StoredIndexesMatch
<1> QED
  BY <1>3, <1>4, <1>5, <1>6, <1>7, <1>8, <1>9 DEF IInv

THEOREM StatementsInvariant == Spec => []IInv
<1>1. Init => IInv
  BY InitIInv
<1>2. IInv /\ [Next]_vars => IInv'
  <2> SUFFICES ASSUME IInv, [Next]_vars
               PROVE  IInv'
    OBVIOUS
  <2>1. CASE DatabaseStatement
    BY <2>1, StatementSteps, DatabaseStatementKeeps
  <2>2. ASSUME status = "running", NEW tb \in Tables, CatalogStatement(tb) \/ RecordStatement(tb)
        PROVE  IInv'
    BY <2>2, StatementSteps, CatalogStatementKeeps, RecordStatementKeeps
  <2>3. CASE UNCHANGED vars
    BY <2>3, StutterKeeps
  <2> QED
    BY <2>1, <2>2, <2>3 DEF Next
<1> QED
  BY <1>1, <1>2, PTL DEF Spec

(* Every variable stays in its set.                                        *)
THEOREM StatementsTypeOK == Spec => []TypeOK
<1>1. IInv => TypeOK
  BY DEF IInv
<1> QED
  BY <1>1, StatementsInvariant, PTL

(* What the program has created is on disk when it ends, however many      *)
(* tables and indexes there are.                                           *)
THEOREM StatementsCreatedIsStored == Spec => []CreatedIsStored
<1>1. IInv => CreatedIsStored
  BY DEF IInv
<1> QED
  BY <1>1, StatementsInvariant, PTL

(* Index files and the attributes that name them: one for each.            *)
THEOREM StatementsIndexFilesNamed == Spec => []IndexFilesNamed
<1>1. IInv => IndexFilesNamed
  BY DEF IInv
<1> QED
  BY <1>1, StatementsInvariant, PTL

(* INSERT, DELETE, UPDATE and the statements on the catalog keep every     *)
(* index equal to its attribute in the records of the table.               *)
THEOREM StatementsIndexesMatch == Spec => []IndexesMatchRecords
<1>1. IInv => IndexesMatchRecords
  BY DEF IInv
<1> QED
  BY <1>1, StatementsInvariant, PTL

(***************************************************************************)
(* SELECT                                                                  *)
(***************************************************************************)

LEMMA LeastExists ==
  ASSUME NEW S \in SUBSET Nat, S # {}
  PROVE  \E i \in S : \A j \in S : i <= j
<1> DEFINE R == {ss \in Nat \X Nat : ss[1] < ss[2]}
<1>1. IsWellFoundedOn(R, Nat)
  BY NatLessThanWellFounded DEF OpToRel
<1>2. PICK i \in S : \A j \in S : ~ (<<j, i>> \in R)
  <2> HIDE DEF R
  <2> QED
    BY <1>1, WFMin
<1>3. ASSUME NEW j \in S
      PROVE  i <= j
  <2>1. i \in Nat /\ j \in Nat
    OBVIOUS
  <2>2. ~(j < i)
    BY <1>2, <2>1
  <2> QED
    BY <2>1, <2>2
<1> QED
  BY <1>3

LEMMA GreatestExists ==
  ASSUME NEW n \in Nat, NEW S \in SUBSET (1 .. n), S # {}
  PROVE  \E i \in S : \A j \in S : j <= i
<1> DEFINE T == {n - i : i \in S}
<1>1. T \in SUBSET Nat /\ T # {}
  <2>1. \A i \in S : i \in 1 .. n
    OBVIOUS
  <2>2. \A i \in 1 .. n : n - i \in Nat
    OBVIOUS
  <2> QED
    BY <2>1, <2>2
<1>2. PICK k \in T : \A j \in T : k <= j
  <2> HIDE DEF T
  <2> QED
    BY <1>1, LeastExists
<1>3. PICK i \in S : k = n - i
  BY <1>2
<1>4. \A j \in S : j <= i
  <2> SUFFICES ASSUME NEW j \in S
               PROVE  j <= i
    OBVIOUS
  <2>1. n - j \in T
    OBVIOUS
  <2>2. n - i <= n - j
    BY <1>2, <1>3, <2>1
  <2> QED
    BY <2>2
<1> QED
  BY <1>4

(* guessBestCond finds a condition if one may be taken.                    *)
LEMMA BestExists ==
  ASSUME NEW tb \in Tables, NEW where \in WhereClauses, ScansIndex(tb, where)
  PROVE  \E i \in Candidates(tb, where) :
           Best(tb, where) = where[i] /\ where[i] \in Conditions
<1> DEFINE candidates == Candidates(tb, where)
           primary    == {j \in candidates : IsPrimary(tb, where, j)}
           valued     == {j \in candidates : where[j].op \in Operators}
<1>1. where \in Seq(Conditions)
  OBVIOUS
<1>2. PICK n \in Nat : DOMAIN where = 1 .. n
  BY <1>1
<1>3. /\ candidates \in SUBSET (1 .. n) /\ candidates # {}
      /\ primary \subseteq candidates /\ valued \subseteq candidates
  BY <1>2 DEF Candidates, ScansIndex
<1>4. \E i \in candidates : IsBest(tb, where, i)
  <2>1. CASE primary # {}
    <3>1. PICK i \in primary : \A j \in primary : i <= j
      <4>1. primary \in SUBSET Nat
        BY <1>3
      <4> HIDE DEF primary
      <4> QED
        BY <2>1, <4>1, LeastExists
    <3> QED
      BY <2>1, <3>1 DEF IsBest
  <2>2. CASE primary = {} /\ valued # {}
    <3>1. PICK i \in valued : \A j \in valued : j <= i
      <4>1. valued \in SUBSET (1 .. n)
        BY <1>3
      <4> HIDE DEF valued
      <4> QED
        BY <2>2, <4>1, GreatestExists
    <3> QED
      BY <2>2, <3>1 DEF IsBest
  <2>3. CASE primary = {} /\ valued = {}
    <3>1. PICK i \in candidates : \A j \in candidates : j <= i
      <4> HIDE DEF candidates
      <4> QED
        BY <1>3, GreatestExists
    <3> QED
      BY <2>3, <3>1 DEF IsBest
  <2> QED
    BY <2>1, <2>2, <2>3
<1>5. PICK i \in DOMAIN where : i = (CHOOSE k \in DOMAIN where : IsBest(tb, where, k))
                                  /\ IsBest(tb, where, i)
  BY <1>4 DEF Candidates
<1>6. i \in candidates
  BY <1>5 DEF IsBest
<1>7. where[i] \in Conditions
  BY <1>1, <1>2, <1>5
<1> QED
  BY <1>5, <1>6, <1>7 DEF Best

LEMMA IndexFindsChosen ==
  ASSUME IInv, Running, "short" \notin past, NEW tb \in Tables, NEW where \in WhereClauses,
         ScansIndex(tb, where), ~FileMissing(tb, Best(tb, where).column),
         ~CannotStart(tb, where),
         Best(tb, where).op \in Operators =>
           \A r \in Rows(tb) : ~file[tb].record[r][Best(tb, where).column].isNull
  PROVE  SelectByIndex(tb, where) = SelectByScan(tb, where)
<1> DEFINE cond == Best(tb, where)
<1>1. PICK i \in Candidates(tb, where) : cond = where[i] /\ cond \in Conditions
  BY BestExists
<1>2. /\ i \in DOMAIN where
      /\ "other" \notin DOMAIN cond
      /\ HasIndex(tb, cond.column)
  BY <1>1 DEF Candidates
<1>3. cond.column \in Columns
  BY <1>1 DEF Conditions
<1>4. Entries(tb, cond.column) = EntriesOf(tb, cond.column)
  BY <1>2, <1>3 DEF IInv, IndexesMatchRecords
<1>5. ASSUME NEW r \in Chosen(tb, where)
      PROVE  \E e \in ScanEntries(tb, cond) : e[2] = r
  <2> DEFINE cell == file[tb].record[r][cond.column]
             entry == <<Key(cell), r>>
  <2>1. r \in Rows(tb) /\ Verify(file[tb].record[r], cond)
    BY <1>1, <1>2 DEF Chosen
  <2>2. cell \in Cell
    <3>1. file[tb].record[r] \in Record
      BY <2>1, RowsType DEF IInv
    <3> QED
      BY <1>3, <3>1 DEF Record
  <2>3. entry \in Entries(tb, cond.column)
    BY <1>4, <2>1 DEF EntriesOf
  <2>4. cond.op # "is not null"
    BY DEF CannotStart
  <2>5. CASE cond.op = "is null" /\ cell.isNull
    <3>1. entry[1] = Null
      BY <2>5 DEF Key
    <3>2. entry \in ScanEntries(tb, cond)
      BY <2>3, <2>5, <3>1 DEF ScanEntries
    <3> QED
      BY <3>2
  <2>6. CASE cond.op \in Operators /\ Compare(cond.op, cell.data, Operand(file[tb].record[r], cond))
    <3>1. Operand(file[tb].record[r], cond) = cond.value
      BY <1>2 DEF Operand
    <3>2. ~cell.isNull
      BY <2>1, <2>6
    <3>3. entry[1] = cell.data /\ cell.data \in Values /\ entry[1] # Null
      BY <2>2, <3>2, NullIsNoValue DEF Key, Cell
    <3>4. Compare(cond.op, entry[1], cond.value)
      BY <2>6, <3>1, <3>3
    <3>5. entry \in ScanEntries(tb, cond)
      <4> HIDE DEF cond, entry
      <4> QED
        BY <2>3, <2>6, <3>3, <3>4 DEF ScanEntries
    <3> QED
      BY <3>5
  <2> QED
    BY <2>1, <2>4, <2>5, <2>6 DEF Verify
<1> QED
  BY <1>5 DEF SelectByIndex, SelectByScan

(* SELECT answers the same whichever condition guessBestCond takes: for    *)
(* WHERE clauses of any length.                                            *)
THEOREM StatementsSelectsAgree == Spec => []SelectsAgree
<1>1. IInv => SelectsAgree
  BY IndexFindsChosen DEF SelectsAgree
<1> QED
  BY <1>1, StatementsInvariant, PTL


-----------------------------------------------------------------------------
(***************************************************************************)
(* The statements implement TableStore, for every set of tables, values    *)
(* and WHERE clauses.                                                      *)
(***************************************************************************)

(***************************************************************************)
(* The rows of a table                                                     *)
(***************************************************************************)

SeenRow(record) == [c \in Columns |-> Key(record[c])]

LEMMA SeenRowsAre ==
  ASSUME NEW tb \in Tables
  PROVE  /\ SeenRows[tb] = [r \in Rows(tb) |-> SeenRow(file[tb].record[r])]
         /\ DOMAIN SeenRows[tb] = Rows(tb)
         /\ \A r \in Rows(tb) : SeenRows[tb][r] = SeenRow(file[tb].record[r])
BY DEF SeenRows, SeenRow

LEMMA SeenRowsAreNext ==
  ASSUME NEW tb \in Tables
  PROVE  /\ SeenRows'[tb] = [r \in Rows(tb)' |-> SeenRow(file'[tb].record[r])]
         /\ DOMAIN SeenRows'[tb] = Rows(tb)'
         /\ \A r \in Rows(tb)' : SeenRows'[tb][r] = SeenRow(file'[tb].record[r])
BY DEF SeenRows, SeenRow

LEMMA SeenRowType ==
  ASSUME NEW record \in Record
  PROVE  SeenRow(record) \in Client!Row
<1>1. \A c \in Columns : Key(record[c]) \in Values \cup {Null}
  BY KeyType DEF Record
<1> QED
  BY <1>1 DEF SeenRow, Client!Row, Client!Null, Null

LEMMA SameRecords ==
  ASSUME NEW tb \in Tables, file'[tb].record = file[tb].record
  PROVE  SeenRows'[tb] = SeenRows[tb]
<1>1. Rows(tb)' = Rows(tb)
  BY DEF Rows
<1>2. SeenRows'[tb] = [r \in Rows(tb) |-> SeenRow(file[tb].record[r])]
  BY <1>1, SeenRowsAreNext
<1> QED
  BY <1>2, SeenRowsAre

(* Statements that leave the records alone.                                *)
LEMMA RowsUnchanged ==
  ASSUME \A tb \in Tables : file'[tb].record = file[tb].record,
         "short" \in past' <=> "short" \in past
  PROVE  Client!ChangesNothing
<1>1. \A tb \in Tables : SeenRows'[tb] = SeenRows[tb]
  BY SameRecords
<1>2. SeenRows' = SeenRows
  BY <1>1 DEF SeenRows
<1>3. ("short" \notin past)' = ("short" \notin past)
  OBVIOUS
<1> QED
  BY <1>2, <1>3 DEF Client!ChangesNothing

(* A statement changes the rows of one table.                              *)
LEMMA OtherTables ==
  ASSUME NEW tb \in Tables, \A t \in Tables \ {tb} : file'[t] = file[t]
  PROVE  Client!OthersStay(tb)
<1>1. \A t \in Tables \ {tb} : SeenRows'[t] = SeenRows[t]
  BY SameRecords
<1>2. DOMAIN SeenRows' = Tables
  BY DEF SeenRows
<1> QED
  BY <1>1, <1>2 DEF Client!OthersStay

(***************************************************************************)
(* WHERE                                                                   *)
(***************************************************************************)

(* Without nulls, a comparison of rows is the comparison of their bytes.   *)
LEMMA VerifiesWhatClientSees ==
  ASSUME NEW record \in Record, NEW cond \in Conditions,
         ~Client!ComparesNull(SeenRow(record), cond)
  PROVE  Client!Satisfies(SeenRow(record), cond) <=> Verify(record, cond)
<1> DEFINE cell == record[cond.column]
           row  == SeenRow(record)
<1>1. cond.column \in Columns /\ ("other" \in DOMAIN cond => cond.other \in Columns)
  BY DEF Conditions
<1>2. row[cond.column] = Key(cell) /\ cell \in Cell
  BY <1>1 DEF SeenRow, Record
<1>3. (row[cond.column] = Null) <=> cell.isNull
  BY <1>2, NullIsNoValue DEF Key, Cell
<1>4. CASE cond.op \in Operators
  <2>1. ~cell.isNull /\ row[cond.column] = cell.data
    BY <1>2, <1>3, <1>4 DEF Client!ComparesNull, Client!Null, Null, Key, Client!Operators, Operators
  <2>2. (IF "other" \in DOMAIN cond THEN row[cond.other] ELSE cond.value) = Operand(record, cond)
    <3>1. CASE "other" \in DOMAIN cond
      <4>1. row[cond.other] = Key(record[cond.other]) /\ record[cond.other] \in Cell
        BY <1>1, <3>1 DEF SeenRow, Record
      <4>2. row[cond.other] # Null
        BY <1>4, <3>1 DEF Client!ComparesNull, Client!Null, Null, Client!Operators, Operators
      <4> QED
        BY <3>1, <4>1, <4>2 DEF Operand, Key, Cell
    <3>2. CASE "other" \notin DOMAIN cond
      BY <3>2 DEF Operand
    <3> QED
      BY <3>1, <3>2
  <2>3. cond.op \notin NullChecks
    BY <1>4 DEF NullChecks, Operators
  <2> QED
    BY <1>4, <2>1, <2>2, <2>3
    DEF Client!Satisfies, Verify, Client!Compare, Compare, Client!Operators, Operators, NullChecks
<1>5. CASE cond.op \notin Operators
  BY <1>3, <1>5 DEF Client!Satisfies, Verify, Client!Null, Null, Client!Operators, Operators
<1> QED
  BY <1>4, <1>5

LEMMA ChosenMayBe ==
  ASSUME TypeOK, NEW tb \in Tables, NEW where \in WhereClauses, NEW r \in Rows(tb)
  PROVE  /\ r \in Chosen(tb, where) => Client!MayChoose(SeenRows[tb][r], where)
         /\ Client!MustChoose(SeenRows[tb][r], where) => r \in Chosen(tb, where)
<1>1. /\ file[tb].record[r] \in Record
      /\ SeenRows[tb][r] = SeenRow(file[tb].record[r])
  BY RowsType, SeenRowsAre
<1>2. \A i \in DOMAIN where : where[i] \in Conditions
  <2>1. where \in Seq(Conditions)
    OBVIOUS
  <2> QED
    BY <2>1
<1>3. \A i \in DOMAIN where :
        \/ Client!ComparesNull(SeenRows[tb][r], where[i])
        \/ Client!Satisfies(SeenRows[tb][r], where[i]) <=> Verify(file[tb].record[r], where[i])
  BY <1>1, <1>2, VerifiesWhatClientSees
<1> QED
  BY <1>3 DEF Chosen, Client!MayChoose, Client!MustChoose

(***************************************************************************)
(* The statements on records                                               *)
(***************************************************************************)

LEMMA InsertInserts ==
  ASSUME IInv, NEW tb \in Tables, NEW values \in ValueLists, Insert(tb, values)
  PROVE  Client!Insert(tb, values)
<1>1. TypeOK
  BY DEF IInv
<1>2. PICK r \in RIDs \ Rows(tb) : InsertsRecord(tb, values, r)
  BY <1>1, InsertParts
<1>3. /\ \A t \in Tables \ {tb} : file'[t] = file[t]
      /\ file'[tb].record = [file[tb].record EXCEPT ![r] = NewRecord(values)]
  BY <1>2 DEF InsertsRecord
<1>4. /\ file[tb].record \in [RIDs -> Record \cup {NoRecord}]
      /\ NewRecord(values) \in Record
  BY <1>1, RowsType, NewRecordType DEF RecordFileType
<1>5. /\ \A q \in RIDs \ {r} : file'[tb].record[q] = file[tb].record[q]
      /\ file'[tb].record[r] = NewRecord(values)
  BY <1>3, <1>4
<1>6. Rows(tb)' = Rows(tb) \cup {r}
  BY <1>4, <1>5 DEF Rows
<1>7. Client!Inserts(SeenRows[tb], SeenRows'[tb], values)
  <2>1. DOMAIN SeenRows'[tb] = DOMAIN SeenRows[tb] \cup {r}
    BY <1>6, SeenRowsAre, SeenRowsAreNext
  <2>2. /\ SeenRows'[tb][r] \in Client!Row
        /\ \A c \in DOMAIN values : SeenRows'[tb][r][c] = values[c]
    <3>1. SeenRows'[tb][r] = SeenRow(NewRecord(values))
      BY <1>5, <1>6, SeenRowsAreNext
    <3>2. \A c \in DOMAIN values : SeenRow(NewRecord(values))[c] = values[c]
      BY ValueListParts, NewCellType DEF SeenRow, NewRecord
    <3> QED
      BY <1>4, <3>1, <3>2, SeenRowType
  <2>3. \A q \in Rows(tb) : SeenRows'[tb][q] = SeenRows[tb][q]
    <3> SUFFICES ASSUME NEW q \in Rows(tb)
                 PROVE  SeenRows'[tb][q] = SeenRows[tb][q]
      OBVIOUS
    <3>1. q \in RIDs \ {r}
      BY <1>3 DEF Rows
    <3>2. SeenRows'[tb][q] = SeenRow(file'[tb].record[q])
      BY <1>6, SeenRowsAreNext
    <3> QED
      BY <1>5, <3>1, <3>2, SeenRowsAre
  <2>4. r \in RIDs \ DOMAIN SeenRows[tb] /\ DOMAIN SeenRows[tb] = Rows(tb)
    BY SeenRowsAre
  <2> QED
    BY <2>1, <2>2, <2>3, <2>4 DEF Client!Inserts
<1>8. ("short" \notin past)' = ("short" \notin past /\ DOMAIN values = Columns)
  BY DEF Insert
<1> QED
  BY <1>3, <1>7, <1>8, OtherTables DEF Client!Insert

LEMMA DeleteDeletes ==
  ASSUME IInv, NEW tb \in Tables, NEW where \in WhereClauses, Delete(tb, Chosen(tb, where))
  PROVE  Client!Delete(tb, where)
<1> DEFINE chosen == Chosen(tb, where)
<1>1. TypeOK
  BY DEF IInv
<1>2. /\ file' = [file EXCEPT ![tb].record = [r \in RIDs |->
           IF r \in chosen THEN NoRecord ELSE file[tb].record[r]]]
      /\ past' = past
  BY DEF Delete
<1>3. /\ \A t \in Tables \ {tb} : file'[t] = file[t]
      /\ \A r \in RIDs : file'[tb].record[r] =
           IF r \in chosen THEN NoRecord ELSE file[tb].record[r]
  BY <1>1, <1>2, TypeParts DEF RecordFileType
<1>4. chosen \subseteq Rows(tb) /\ Rows(tb) \subseteq RIDs
  BY DEF Chosen, Rows
<1>5. Rows(tb)' = Rows(tb) \ chosen
  BY <1>3, <1>4 DEF Rows
<1>6. Client!Deletes(SeenRows[tb], SeenRows'[tb], where)
  <2>1. DOMAIN SeenRows'[tb] = Rows(tb) \ chosen /\ DOMAIN SeenRows[tb] = Rows(tb)
    BY <1>5, SeenRowsAre, SeenRowsAreNext
  <2>2. \A r \in Rows(tb) \ chosen : SeenRows'[tb][r] = SeenRows[tb][r]
    <3> SUFFICES ASSUME NEW r \in Rows(tb) \ chosen
                 PROVE  SeenRows'[tb][r] = SeenRows[tb][r]
      OBVIOUS
    <3>1. file'[tb].record[r] = file[tb].record[r]
      BY <1>3, <1>4
    <3>2. SeenRows'[tb][r] = SeenRow(file'[tb].record[r])
      BY <1>5, SeenRowsAreNext
    <3> QED
      BY <3>1, <3>2, SeenRowsAre
  <2>3. /\ \A r \in Rows(tb) \ chosen : ~Client!MustChoose(SeenRows[tb][r], where)
        /\ \A r \in chosen : Client!MayChoose(SeenRows[tb][r], where)
    BY <1>1, <1>4, ChosenMayBe
  <2>4. DOMAIN SeenRows[tb] \ DOMAIN SeenRows'[tb] = chosen
    BY <1>4, <2>1
  <2> HIDE DEF chosen
  <2> QED
    BY <2>1, <2>2, <2>3, <2>4 DEF Client!Deletes
<1> QED
  BY <1>2, <1>3, <1>6, OtherTables DEF Client!Delete

(* UPDATE does not stop between two records: every index has the entries   *)
(* it deletes, and no index has those it inserts.                          *)
LEMMA UpdateFinishes ==
  ASSUME IInv, status = "running", "short" \notin past, NEW tb \in Tables,
         NEW set \in SetClauses, NEW chosen \in ChosenSets(tb), Update(tb, chosen, set)
  PROVE  Updated(tb, chosen, set) = chosen
<1>1. \A c \in DOMAIN set : ~FileMissing(tb, c)
  BY DEF Update
<1>2. chosen \subseteq Rows(tb)
  BY ChosenAreRows
<1>3. \A c \in SetIndexed(tb, set) : Entries(tb, c) = EntriesOf(tb, c)
  BY <1>1 DEF IInv, IndexesMatchRecords, Running, SetIndexed, Indexed
<1>4. \A r \in chosen : ~StopsBefore(tb, r, set)
  BY <1>2, <1>3 DEF StopsBefore, DeleteFails, OldEntry, EntriesOf
<1>5. \A r \in chosen : ~StopsAfter(tb, r, set)
  <2> SUFFICES ASSUME NEW r \in chosen, NEW c \in SetIndexed(tb, set)
               PROVE  ~InsertFails(tb, c, r, set)
    BY DEF StopsAfter
  <2>1. \A e \in EntriesOf(tb, c) : e[2] = r => e = OldEntry(tb, c, r)
    BY DEF EntriesOf, OldEntry
  <2>2. NewEntry(c, r, set)[2] = r
    BY DEF NewEntry
  <2> QED
    BY <1>3, <2>1, <2>2 DEF InsertFails
<1>6. Reached(tb, chosen, set) = chosen
  BY <1>4, <1>5 DEF Reached
<1> QED
  BY <1>4, <1>6 DEF Updated

LEMMA ApplyClausesSets ==
  ASSUME NEW record \in Record, NEW set \in SetClauses
  PROVE  Client!Sets(SeenRow(record), SeenRow(ApplyClauses(record, set)), set)
<1> SUFFICES ASSUME NEW c \in Columns
             PROVE  SeenRow(ApplyClauses(record, set))[c] =
                      IF c \in DOMAIN set THEN set[c] ELSE SeenRow(record)[c]
  BY DEF Client!Sets
<1>1. SeenRow(ApplyClauses(record, set))[c] = Key(ApplyClauses(record, set)[c])
  BY DEF SeenRow
<1>2. ApplyClauses(record, set)[c] =
        IF c \in DOMAIN set THEN ApplyClause(record[c], set[c]) ELSE record[c]
  BY DEF ApplyClauses
<1>3. CASE c \in DOMAIN set
  <2>1. record[c] \in Cell /\ set[c] \in Values \cup {Null}
    BY <1>3, SetClausesParts DEF Record
  <2> QED
    BY <1>1, <1>2, <1>3, <2>1, ApplyClauseType
<1>4. CASE c \notin DOMAIN set
  BY <1>1, <1>2, <1>4 DEF SeenRow
<1> QED
  BY <1>3, <1>4

LEMMA UpdateUpdates ==
  ASSUME IInv, status = "running", NEW tb \in Tables, NEW set \in SetClauses,
         NEW where \in WhereClauses, Update(tb, Chosen(tb, where), set)
  PROVE  Client!Update(tb, where, set)
<1> DEFINE chosen == Chosen(tb, where)
           updated == Updated(tb, chosen, set)
<1>1. TypeOK /\ Numbered(catalog)
  BY DEF IInv
<1>2. chosen \in ChosenSets(tb)
  BY DEF ChosenSets
<1>3. chosen \subseteq Rows(tb) /\ Rows(tb) \subseteq RIDs /\ updated \subseteq chosen
  BY DEF Chosen, Rows, Updated, Reached
<1>4. past' = past /\ Update(tb, chosen, set)
  BY DEF Update
<1> HIDE DEF chosen
<1>5. /\ \A t \in Tables \ {tb} : file'[t] = file[t]
      /\ file'[tb].record = [r \in RIDs |->
           IF r \in updated THEN ApplyClauses(file[tb].record[r], set)
           ELSE file[tb].record[r]]
  <2>1. UpdatesRecords(tb, chosen, set)
    BY <1>1, <1>2, <1>4, UpdateParts
  <2> QED
    BY <2>1 DEF UpdatesRecords
<1>6. "short" \notin past => updated = chosen
  BY <1>2, <1>4, UpdateFinishes
<1> HIDE DEF updated
<1>7. \A r \in RIDs : file'[tb].record[r] =
        IF r \in updated THEN ApplyClauses(file[tb].record[r], set) ELSE file[tb].record[r]
  BY <1>5
<1>8. \A r \in Rows(tb) : /\ file[tb].record[r] \in Record
                          /\ ApplyClauses(file[tb].record[r], set) \in Record
  BY <1>1, RowsType, ApplyClausesType
<1>9. Rows(tb)' = Rows(tb)
  BY <1>3, <1>7, <1>8 DEF Rows
<1>10. /\ DOMAIN SeenRows[tb] = Rows(tb) /\ DOMAIN SeenRows'[tb] = Rows(tb)
       /\ \A r \in Rows(tb) : SeenRows[tb][r] = SeenRow(file[tb].record[r])
       /\ \A r \in Rows(tb) : SeenRows'[tb][r] = SeenRow(file'[tb].record[r])
  BY <1>9, SeenRowsAre, SeenRowsAreNext
<1>11. \A r \in Rows(tb) \ updated : SeenRows'[tb][r] = SeenRows[tb][r]
  BY <1>3, <1>7, <1>10
<1>12. \A r \in updated : Client!Sets(SeenRows[tb][r], SeenRows'[tb][r], set)
  <2> SUFFICES ASSUME NEW r \in updated
               PROVE  Client!Sets(SeenRows[tb][r], SeenRows'[tb][r], set)
    OBVIOUS
  <2>1. r \in Rows(tb) /\ r \in RIDs
    BY <1>3
  <2>2. file'[tb].record[r] = ApplyClauses(file[tb].record[r], set)
    BY <1>7, <2>1
  <2>3. /\ SeenRows[tb][r] = SeenRow(file[tb].record[r])
        /\ SeenRows'[tb][r] = SeenRow(ApplyClauses(file[tb].record[r], set))
        /\ file[tb].record[r] \in Record
    BY <1>8, <1>10, <2>1, <2>2
  <2> QED
    BY <2>3, ApplyClausesSets
<1>13. \A r \in Rows(tb) : SeenRows'[tb][r] \in Client!Row
  BY <1>3, <1>7, <1>8, <1>10, SeenRowType
<1>14. \A r \in Rows(tb) :
         /\ r \in chosen => Client!MayChoose(SeenRows[tb][r], where)
         /\ Client!MustChoose(SeenRows[tb][r], where) => r \in chosen
  BY <1>1, ChosenMayBe DEF chosen
<1>15. \A r \in Rows(tb) :
         /\ SeenRows'[tb][r] = SeenRows[tb][r] \/ Client!MayChoose(SeenRows[tb][r], where)
         /\ "short" \notin past /\ Client!MustChoose(SeenRows[tb][r], where) =>
              Client!Sets(SeenRows[tb][r], SeenRows'[tb][r], set)
  BY <1>3, <1>6, <1>11, <1>12, <1>14
<1>16. Client!Updates(SeenRows[tb], SeenRows'[tb], where, set)
  BY <1>10, <1>11, <1>12, <1>13, <1>15 DEF Client!Updates
<1> QED
  BY <1>4, <1>5, <1>16, OtherTables DEF Client!Update

(* Statements that are refused, or that are not about rows.                *)
KeepsRows(tb) ==
  \/ InsertIndexMissing(tb) \/ InsertRefused(tb)
  \/ \E where \in WhereClauses : Select(tb, where)
  \/ \E fields \in FieldLists : CreateTable(tb, fields)
  \/ CreateIndexRefused(tb)
  \/ \E c \in Columns : CreateIndex(tb, c) \/ DropIndex(tb, c)

LEMMA KeepsRowsKeeps ==
  ASSUME TypeOK, NEW tb \in Tables, KeepsRows(tb)
  PROVE  Client!ChangesNothing
<1>1. file[tb] \in RecordFileType
  BY TypeParts
<1>2. CASE file' = [file EXCEPT ![tb].exists = TRUE] /\ past' = past
  <2>1. \A t \in Tables : file'[t].record = file[t].record
    BY <1>1, <1>2, TypeParts DEF RecordFileType
  <2> QED
    BY <1>2, <2>1, RowsUnchanged
<1>3. CASE UNCHANGED <<file, past>>
  BY <1>3, RowsUnchanged
<1>4. CASE InsertIndexMissing(tb) \/ InsertRefused(tb)
  BY <1>2, <1>4 DEF InsertIndexMissing, InsertRefused
<1>5. CASE \E where \in WhereClauses : Select(tb, where)
  BY <1>3, <1>5 DEF Select
<1>6. CASE \/ \E fields \in FieldLists : CreateTable(tb, fields)
           \/ CreateIndexRefused(tb)
           \/ \E c \in Columns : CreateIndex(tb, c) \/ DropIndex(tb, c)
  BY <1>3, <1>6 DEF CreateTable, CreateIndexRefused, CreateIndex, DropIndex
<1> QED
  BY <1>4, <1>5, <1>6 DEF KeepsRows

(* dropTable leaves the table's file.                                      *)
LEMMA DropTableDrops ==
  ASSUME NEW tb \in Tables, DropTable(tb)
  PROVE  Client!DropTable(tb)
<1>1. UNCHANGED <<file, past>>
  BY DEF DropTable
<1>2. SeenRows'[tb] = SeenRows[tb]
  BY <1>1, SameRecords
<1> QED
  BY <1>1, <1>2, OtherTables DEF Client!DropTable

(* Undefined behaviour ends the model, not the rows.                       *)
LEMMA UndefinedChangesNothing ==
  ASSUME Undefined
  PROVE  Client!ChangesNothing
<1>1. UNCHANGED <<file, past>>
  BY DEF Undefined
<1> QED
  BY <1>1, RowsUnchanged

LEMMA RecordStatementImplements ==
  ASSUME IInv, status = "running", NEW tb \in Tables, RecordStep(tb)
  PROVE  Client!Next
<1>1. TypeOK
  BY DEF IInv
<1>2. ASSUME KeepsRows(tb)
      PROVE  Client!Next
  BY <1>1, <1>2, KeepsRowsKeeps DEF Client!Next
<1>3. ASSUME Undefined
      PROVE  Client!Next
  BY <1>3, UndefinedChangesNothing DEF Client!Next
<1>4. CASE InsertIndexMissing(tb) \/ InsertRefused(tb)
  BY <1>2, <1>4 DEF KeepsRows
<1>5. CASE \E values \in ValueLists : Insert(tb, values)
  BY <1>5, InsertInserts DEF Client!Next
<1>6. CASE \E chosen \in ChosenSets(tb) : Delete(tb, chosen)
  BY <1>6, DeleteDeletes DEF ChosenSets, Client!Next
<1>7. CASE DeleteUndefined(tb)
  BY <1>3, <1>7 DEF DeleteUndefined
<1>8. CASE \E set \in SetClauses : UpdateUndefined(tb, set)
  BY <1>3, <1>8 DEF UpdateUndefined
<1>9. CASE \E set \in SetClauses, chosen \in ChosenSets(tb) : Update(tb, chosen, set)
  BY <1>9, UpdateUpdates DEF ChosenSets, Client!Next
<1>10. CASE \E where \in WhereClauses : Select(tb, where)
  BY <1>2, <1>10 DEF KeepsRows
<1>11. CASE \E where \in WhereClauses : SelectUndefined(tb, where)
  BY <1>3, <1>11 DEF SelectUndefined
<1> QED
  BY <1>4, <1>5, <1>6, <1>7, <1>8, <1>9, <1>10, <1>11 DEF RecordStep

LEMMA CatalogStatementImplements ==
  ASSUME IInv, NEW tb \in Tables, CatalogStep(tb)
  PROVE  Client!Next
<1>1. CASE DropTable(tb)
  BY <1>1, DropTableDrops DEF Client!Next
<1>2. CASE KeepsRows(tb)
  BY <1>2, KeepsRowsKeeps DEF Client!Next, IInv
<1> QED
  BY <1>1, <1>2 DEF CatalogStep, KeepsRows

LEMMA NoFilesNoRows ==
  /\ file = NoFiles => SeenRows = Client!NoRows
  /\ file' = NoFiles => SeenRows' = Client!NoRows
<1>1. \A tb \in Tables, r \in RIDs : NoFiles[tb].record[r] = NoRecord
  BY DEF NoFiles, NoFile
<1>2. \A tb \in Tables : file = NoFiles => Rows(tb) = {}
  BY <1>1 DEF Rows
<1>3. \A tb \in Tables : file' = NoFiles => Rows(tb)' = {}
  BY <1>1 DEF Rows
<1>4. ASSUME file = NoFiles
      PROVE  SeenRows = Client!NoRows
  <2>1. \A tb \in Tables : SeenRows[tb] = [r \in {} |-> Client!Null]
    BY <1>2, <1>4, SeenRowsAre
  <2> QED
    BY <2>1 DEF SeenRows, Client!NoRows
<1>5. ASSUME file' = NoFiles
      PROVE  SeenRows' = Client!NoRows
  <2>1. \A tb \in Tables : SeenRows'[tb] = [r \in {} |-> Client!Null]
    BY <1>3, <1>5, SeenRowsAreNext
  <2> QED
    BY <2>1 DEF SeenRows, Client!NoRows
<1> QED
  BY <1>4, <1>5

LEMMA DatabaseStatementMatches ==
  /\ CreateDb \/ CreateDbInside \/ OpenDb \/ NotInUse \/ Exit => Client!ChangesNothing
  /\ DropDb => Client!DropDatabase
<1>1. ASSUME CreateDb \/ CreateDbInside \/ OpenDb \/ NotInUse \/ Exit
      PROVE  Client!ChangesNothing
  <2>1. file' = file /\ ("short" \in past' <=> "short" \in past)
    BY <1>1 DEF CreateDb, CreateDbInside, OpenDb, NotInUse, Exit
  <2> QED
    BY <2>1, RowsUnchanged
<1>2. ASSUME DropDb
      PROVE  Client!DropDatabase
  BY <1>2, NoFilesNoRows DEF DropDb, Client!DropDatabase
<1> QED
  BY <1>1, <1>2

LEMMA DatabaseStatementImplements ==
  ASSUME DatabaseStep
  PROVE  Client!Next
BY DatabaseStatementMatches DEF DatabaseStep, Client!Next

LEMMA InitImplements == Init => Client!Init
BY NoFilesNoRows DEF Init, Client!Init

LEMMA NextImplements ==
  ASSUME IInv, [Next]_vars
  PROVE  [Client!Next]_<<SeenRows, "short" \notin past>>
<1>1. CASE DatabaseStatement
  BY <1>1, StatementSteps, DatabaseStatementImplements
<1>2. CASE status = "running" /\ \E tb \in Tables : CatalogStatement(tb) \/ RecordStatement(tb)
  BY <1>2, StatementSteps, CatalogStatementImplements, RecordStatementImplements
<1>3. CASE UNCHANGED vars
  <2>1. UNCHANGED <<file, past>>
    BY <1>3 DEF vars
  <2> QED
    BY <2>1, RowsUnchanged DEF Client!Next
<1> QED
  BY <1>1, <1>2, <1>3 DEF Next

(***************************************************************************)
(* What each statement is asked to do to the rows                          *)
(***************************************************************************)

LEMMA AskedNothing ==
  ASSUME asked' = NoChange, Client!ChangesNothing
  PROVE  RowsChangeAs(asked')
BY DEF NoChange, RowsChangeAs

LEMMA DatabaseStatementMatchesAsked ==
  ASSUME DatabaseStatement
  PROVE  RowsChangeAs(asked')
<1>1. CASE (CreateDb \/ CreateDbInside \/ OpenDb \/ NotInUse \/ Exit) /\ asked' = NoChange
  BY <1>1, DatabaseStatementMatches, AskedNothing
<1>2. CASE DropDb /\ asked' = [statement |-> "DROP DATABASE"]
  <2>1. Client!DropDatabase
    BY <1>2, DatabaseStatementMatches
  <2> QED
    BY <1>2, <2>1 DEF RowsChangeAs
<1> QED
  BY <1>1, <1>2 DEF DatabaseStatement

LEMMA CatalogStatementMatchesAsked ==
  ASSUME IInv, NEW tb \in Tables, CatalogStatement(tb)
  PROVE  RowsChangeAs(asked')
<1>1. CASE KeepsRows(tb) /\ asked' = NoChange
  BY <1>1, KeepsRowsKeeps, AskedNothing DEF IInv
<1>2. CASE DropTable(tb) /\ asked' = [statement |-> "DROP TABLE", table |-> tb]
  <2>1. Client!DropTable(tb)
    BY <1>2, DropTableDrops
  <2> QED
    BY <1>2, <2>1 DEF RowsChangeAs
<1> QED
  BY <1>1, <1>2 DEF CatalogStatement, KeepsRows

LEMMA RecordStatementMatchesAsked ==
  ASSUME IInv, status = "running", NEW tb \in Tables, RecordStatement(tb)
  PROVE  RowsChangeAs(asked')
<1>1. ASSUME NEW values \in ValueLists, Insert(tb, values),
             asked' = [statement |-> "INSERT", table |-> tb, values |-> values]
      PROVE  RowsChangeAs(asked')
  <2>1. Client!Insert(tb, values)
    BY <1>1, InsertInserts
  <2> QED
    BY <1>1, <2>1 DEF RowsChangeAs
<1>2. ASSUME NEW chosen \in ChosenSets(tb), Delete(tb, chosen),
             asked' = [statement |-> "DELETE", table |-> tb, chosen |-> chosen]
      PROVE  RowsChangeAs(asked')
  <2>1. \A where \in ClausesChoosing(tb, chosen) : Client!Delete(tb, where)
    BY <1>2, DeleteDeletes DEF ClausesChoosing
  <2> QED
    BY <1>2, <2>1 DEF RowsChangeAs
<1>3. ASSUME NEW chosen \in ChosenSets(tb), NEW set \in SetClauses, Update(tb, chosen, set),
             asked' = [statement |-> "UPDATE", table |-> tb, chosen |-> chosen, set |-> set]
      PROVE  RowsChangeAs(asked')
  <2>1. \A where \in ClausesChoosing(tb, chosen) : Client!Update(tb, where, set)
    BY <1>3, UpdateUpdates DEF ClausesChoosing
  <2> QED
    BY <1>3, <2>1 DEF RowsChangeAs
<1>4. ASSUME KeepsRows(tb) \/ Undefined, asked' = NoChange
      PROVE  RowsChangeAs(asked')
  BY <1>4, KeepsRowsKeeps, UndefinedChangesNothing, AskedNothing DEF IInv
<1>5. ASSUME InsertIndexMissing(tb) \/ InsertRefused(tb) \/ DeleteUndefined(tb)
               \/ (\E set \in SetClauses : UpdateUndefined(tb, set))
               \/ (\E where \in WhereClauses : Select(tb, where) \/ SelectUndefined(tb, where))
      PROVE  KeepsRows(tb) \/ Undefined
  BY <1>5 DEF KeepsRows, DeleteUndefined, UpdateUndefined, SelectUndefined
<1> QED
  BY <1>1, <1>2, <1>3, <1>4, <1>5 DEF RecordStatement

(* A client of the statements sees TableStore: rows change only as some    *)
(* statement of it may change them, and UPDATE, which gives up when an     *)
(* index does not hold what it looks for, never does so between two        *)
(* records.  StatementsCalls says which statement.                         *)
THEOREM StatementsRefineTableStore == Spec => ImplementsTableStore
<1>1. Init => Client!Init
  BY InitImplements
<1>2. IInv /\ [Next]_vars => [Client!Next]_<<SeenRows, "short" \notin past>>
  BY NextImplements
<1> QED
  BY <1>1, <1>2, StatementsInvariant, PTL DEF Spec, ImplementsTableStore, Client!Spec

(* INSERT, DELETE and UPDATE do to the rows what their own values, WHERE   *)
(* and SET say, all of it and nothing else, and no other statement but     *)
(* DROP DATABASE changes a row: for every set of tables and clauses, and   *)
(* whatever indexes, nulls and earlier programs there were.                *)
THEOREM StatementsCalls == Spec => StatementsMatchStore
<1>1. IInv /\ [Next]_vars => [RowsChangeAs(asked')]_vars
  BY DatabaseStatementMatchesAsked, CatalogStatementMatchesAsked, RecordStatementMatchesAsked
  DEF Next
<1> QED
  BY <1>1, StatementsInvariant, PTL DEF Spec, StatementsMatchStore

=============================================================================
