------------------------------- MODULE Catalog -------------------------------
(***************************************************************************)
(* The system manager (systemmanager/sm.cpp): the database, its catalog,   *)
(* which says what tables there are and which of their attributes have an  *)
(* index, and the statements that change them.                             *)
(*                                                                         *)
(* The catalog is two record files, with a record for each table and one   *)
(* for each attribute.  Here they are functions from the names of tables;  *)
(* the attributes of a table are in the order of their records, which is   *)
(* the order they were declared in.  A table's file is what RecordStore    *)
(* says of a record file, an index file is the set of entries it was asked *)
(* to hold (BTree says how far that is true).                              *)
(*                                                                         *)
(* Nothing closes a database: the program ends, by EXIT or by a kill, with *)
(* what its handles and its page buffer hold, and only `stored' is there   *)
(* when it runs again.  A program ends between two statements here.        *)
(*                                                                         *)
(* createTable does not look whether the table exists; with two tables of  *)
(* one name nothing below holds, so it is called for new names only.  There *)
(* is one database; databases made inside it are not used.                 *)
(***************************************************************************)
EXTENDS Comparison

CONSTANTS
  Tables,      \* names of tables
  Columns,     \* positions of attributes; clients know their names
  FieldLists,  \* the attributes a table may be declared with
  Values,      \* values of attributes, all of type INT
  NoRecord,    \* a clear bit in the bitmap of a record file
  MaxIndexes   \* bound on the indexes a table ever has

ASSUME ValuesAssumption == Values \subseteq 0 .. MaxInt /\ 0 \in Values
ASSUME MaxIndexesAssumption == MaxIndexes \in Nat

(* What CREATE TABLE says of an attribute.                                 *)
Field == [notNull : BOOLEAN, isPrimarykey : BOOLEAN]

(* All tables have as many attributes: the file a dropped table left is    *)
(* read by the layout of the next table of that name.                      *)
ASSUME ColumnsAssumption == Columns \subseteq Nat
ASSUME FieldListsAssumption == FieldLists \subseteq [Columns -> Field]

None == 0 - 1
Null == 0 - 1

NoAttribute == [notNull |-> FALSE, isPrimarykey |-> FALSE, indexNo |-> None]
NoTable == [indexCount |-> None, attribute |-> [c \in Columns |-> NoAttribute]]
NoTables == [tb \in Tables |-> NoTable]

VARIABLES
  catalog,  \* for each table in use its indexCount and its attributes
  stored,   \* the same as it is on disk
  created,  \* the database's directory is there
  file,     \* for each table its record file, which DROP TABLE leaves
  index,    \* for each table and number the index file
  status,   \* "idle" before USE, "running" after it, "undefined" after a
            \* step that C++ leaves open
  past,     \* history: what has happened of PastEvents
  asked     \* history: what the last statement was to do to the rows of
            \* tables, with the values and clauses it was given

vars == <<catalog, stored, created, file, index, status, past, asked>>

(* Some INSERT gave fewer values than attributes; the program ended before *)
(* a DROP was on disk; CREATE DATABASE emptied a catalog.                  *)
PastEvents == {"short", "undone", "emptied"}

IndexNumbers == 0 .. MaxIndexes - 1

Exists(tb) == catalog[tb] # NoTable

IndexNo(tb, c) == catalog[tb].attribute[c].indexNo
HasIndex(tb, c) == IndexNo(tb, c) >= 0

(* A record: for each attribute its bytes and its bit in the null bitmap.  *)
Cell == [data : Values, isNull : BOOLEAN]
Record == [Columns -> Cell]

ASSUME NoRecordAssumption == NoRecord \notin Record

NoFile == [exists |-> FALSE, record |-> [r \in RIDs |-> NoRecord]]
Rows(tb) == {r \in RIDs : file[tb].record[r] # NoRecord}

NoIndexFile == [exists |-> FALSE, entries |-> {}]
NoFiles == [tb \in Tables |-> NoFile]
NoIndexFiles == [tb \in Tables |-> [i \in IndexNumbers |-> NoIndexFile]]

(* appendNullbit: what an index holds of a cell; null is least.            *)
Key(cell) == IF cell.isNull THEN Null ELSE cell.data

EntriesOf(tb, c) == {<<Key(file[tb].record[r][c]), r>> : r \in Rows(tb)}

(* The last statement was not to change rows, or was refused.              *)
NoChange == [statement |-> "none"]

Init ==
  /\ catalog = NoTables
  /\ stored  = NoTables
  /\ created = FALSE
  /\ file    = NoFiles
  /\ index   = NoIndexFiles
  /\ status  = "idle"
  /\ past    = {}
  /\ asked   = NoChange

SetIndexNo(tb, c, i) == [catalog EXCEPT ![tb].attribute[c].indexNo = i]

(***************************************************************************)
(* The program and its database                                            *)
(***************************************************************************)

(* createDb: mkdir fails when the directory is there, and with it system   *)
(* returns a positive number, which is taken for success.  createFile then *)
(* writes new headers into the catalog's files: no tables.  The tables'    *)
(* files and index files stay.                                             *)
CreateDb ==
  /\ status = "idle"
  /\ created' = TRUE
  /\ stored' = NoTables
  /\ past' = IF stored = NoTables THEN past ELSE past \cup {"emptied"}
  /\ UNCHANGED <<catalog, file, index, status>>

(* With a database in use, the new one's directory is made inside it.  The *)
(* rule for CREATE DATABASE ends with BufPageManager::close.               *)
CreateDbInside ==
  /\ status = "running"
  /\ stored' = catalog
  /\ UNCHANGED <<catalog, created, file, index, status, past>>

(* dropDb: rm -r, relative to the directory the program is in: with the    *)
(* database in use it finds nothing.                                       *)
DropDb ==
  /\ status = "idle"
  /\ created' = FALSE
  /\ stored' = NoTables
  /\ file' = NoFiles
  /\ index' = NoIndexFiles
  /\ UNCHANGED <<catalog, status, past>>

(* openDb: chdir, then the handles on the catalog's two files.  With the   *)
(* database in use, chdir fails.                                           *)
OpenDb ==
  /\ status = "idle"
  /\ created
  /\ catalog' = stored
  /\ status' = "running"
  /\ UNCHANGED <<stored, created, file, index, past>>

(* INSERT, DROP TABLE, CREATE INDEX and DROP INDEX do not ask whether a    *)
(* database is in use: they scan through handles that were never opened.   *)
NotInUse ==
  /\ status = "idle"
  /\ status' = "undefined"
  /\ UNCHANGED <<catalog, stored, created, file, index, past>>

(* EXIT returns from main, which destroys no manager and no handle, as a   *)
(* kill does not: frames of the buffer that were not written are lost.     *)
Undoes ==
  \E tb \in Tables, c \in Columns :
    stored[tb].attribute[c].indexNo >= 0 /\ ~HasIndex(tb, c)

Exit ==
  /\ status = "running"
  /\ status' = "idle"
  /\ catalog' = NoTables
  /\ past' = IF Undoes THEN past \cup {"undone"} ELSE past
  /\ UNCHANGED <<stored, created, file, index>>

DatabaseStatement ==
  \/ /\ CreateDb \/ CreateDbInside \/ OpenDb \/ NotInUse \/ Exit
     /\ asked' = NoChange
  \/ /\ DropDb
     /\ asked' = [statement |-> "DROP DATABASE"]

(***************************************************************************)
(* The statements                                                          *)
(***************************************************************************)

(* createTable: a record for each attribute, then one for the table; both  *)
(* handles are forced to disk.  The table's file is made by the first      *)
(* INSERT; one that an earlier table of this name left is not looked at.   *)
CreateTable(tb, fields) ==
  /\ ~Exists(tb)
  /\ catalog' = [catalog EXCEPT ![tb] =
       [indexCount |-> 0,
        attribute  |-> [c \in Columns |->
          [notNull |-> fields[c].notNull, isPrimarykey |-> fields[c].isPrimarykey,
           indexNo |-> None]]]]
  /\ stored' = catalog'
  /\ UNCHANGED <<created, file, index, status, past>>

(* dropTable: the records of the catalog go, in the buffer, and the index  *)
(* files, if they are there, on disk.  Without the table it finds nothing  *)
(* and answers success.  The headers that the catalog's handles keep in    *)
(* memory (the next free page) are not modelled: they say where records    *)
(* go, not what they hold.                                                 *)
DropTable(tb) ==
  /\ catalog' = [catalog EXCEPT ![tb] = NoTable]
  /\ index' = [index EXCEPT ![tb] = [i \in IndexNumbers |->
       IF \E c \in Columns : IndexNo(tb, c) = i THEN NoIndexFile ELSE @[i]]]
  /\ UNCHANGED <<stored, created, file, status, past>>

(* createIndex raises indexCount, in the buffer, before it looks at the    *)
(* attribute, which may have an index or not be there at all.              *)
CreateIndexRefused(tb) ==
  /\ Exists(tb)
  /\ catalog[tb].indexCount < MaxIndexes
  /\ catalog' = [catalog EXCEPT ![tb].indexCount = @ + 1]
  /\ UNCHANGED <<stored, created, file, index, status, past>>

(* A mutant: the catalog is not forced to disk.                            *)
CreateIndexUnforced(tb, c) ==
  LET count == catalog[tb].indexCount IN
  /\ Exists(tb)
  /\ count < MaxIndexes
  /\ ~HasIndex(tb, c)
  /\ catalog' = [SetIndexNo(tb, c, count) EXCEPT ![tb].indexCount = count + 1]
  /\ index' = [index EXCEPT ![tb][count] =
       [exists |-> TRUE,
        entries |-> IF file[tb].exists THEN EntriesOf(tb, c) ELSE {}]]
  /\ status' = IF file[tb].exists THEN status ELSE "undefined"
  /\ UNCHANGED <<stored, created, file, past>>

(* The old count is the number of the index, which is created empty, or    *)
(* emptied, then named in the catalog, then filled from the table's file,  *)
(* and the catalog forced to disk.  If there is no file yet, the function  *)
(* returns and destroys a RecordHandle whose managers were never set.      *)
CreateIndex(tb, c) ==
  LET count == catalog[tb].indexCount IN
  /\ Exists(tb)
  /\ count < MaxIndexes
  /\ ~HasIndex(tb, c)
  /\ catalog' = [SetIndexNo(tb, c, count) EXCEPT ![tb].indexCount = count + 1]
  /\ index' = [index EXCEPT ![tb][count] =
       [exists |-> TRUE,
        entries |-> IF file[tb].exists THEN EntriesOf(tb, c) ELSE {}]]
  /\ status' = IF file[tb].exists THEN status ELSE "undefined"
  /\ stored' = IF file[tb].exists THEN catalog' ELSE stored
  /\ UNCHANGED <<created, file, past>>

(* A mutant: the count is lowered, and its number given out again.         *)
DropIndexLowersCount(tb, c) ==
  /\ HasIndex(tb, c)
  /\ catalog' = [SetIndexNo(tb, c, None) EXCEPT ![tb].indexCount = @ - 1]
  /\ index' = [index EXCEPT ![tb][IndexNo(tb, c)] = NoIndexFile]
  /\ UNCHANGED <<stored, created, file, status, past>>

(* dropIndex leaves indexCount as it is, and the catalog in the buffer.    *)
DropIndex(tb, c) ==
  /\ HasIndex(tb, c)
  /\ catalog' = SetIndexNo(tb, c, None)
  /\ index' = [index EXCEPT ![tb][IndexNo(tb, c)] = NoIndexFile]
  /\ UNCHANGED <<stored, created, file, status, past>>

CatalogStatement(tb) ==
  \/ /\ \/ \E fields \in FieldLists : CreateTable(tb, fields)
        \/ CreateIndexRefused(tb)
        \/ \E c \in Columns : CreateIndex(tb, c) \/ DropIndex(tb, c)
     /\ asked' = NoChange
  \/ /\ DropTable(tb)
     /\ asked' = [statement |-> "DROP TABLE", table |-> tb]

=============================================================================
