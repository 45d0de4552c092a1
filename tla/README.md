# A verification of tonyDB

tonyDB is a small relational database in C++: one process, one thread, one
user.  SQL statements are parsed (`parser/`), executed over tables and indexes
(`qlmanager/`, `systemmanager/`), which are record files (`recordmanager/`) and
B+ trees (`indexing/`), which are pages of files read and written through a
buffer (`filesystem/`).

This directory holds TLA+ modules that model it from the bitmap of free file ids
up to the statements and the end of the program, TLC configurations that check
them on small instances, and proofs, checked by TLAPS, about the bitmap, the page
buffer, record files and their scans, the comparison of values, the B+ tree and
its scans, statements and joins, of every size.

## The system

| Component | Source | State | Operations |
|---|---|---|---|
| File manager | `FileManager.h`, `MyBitMap.h` | files on disk; `fd`, the descriptor under each of `MAX_FILE_NUM` file ids; a bitmap of free ids | `createFile` `openFile` `closeFile` `readPage` `writePage` |
| Page buffer | `BufPageManager.h`, `FindReplace.h`, `MyLinkList.h`, `MyHashMap.h` | `CAP` frames; for each a key (file id, page), a dirty flag; the replacement list; the frame used last | `allocPage` `getPage` `access` `markDirty` `release` `writeBack` `close` |
| Record files | `rm.h`, `rm.cpp` | header (page 0, and a copy in the handle): number of pages, head of the list of pages with free slots; per page: links, count, bitmap, records | `createFile` `destroyFile` `openFile` `closeFile` `forceDisk` `insertRec` `deleteRec` `updateRec` `getRec` |
| Record scans | `rm.h`, `rm.cpp` | page, slot, number of pages when opened, condition | `openScan` `getNextRec` `reset` `closeScan` |
| Index files | `indexing.h`, `indexing.cpp` | header: root, first leaf, free list, pages, entries; per node: parent, leaf links, free-list links, items, children | `CreateIndex` `DestroyIndex` `OpenIndex` `InsertEntry` `DeleteEntry` `ForcePages` |
| Index scans | the same | current node and rank, last value and record id returned | `OpenScan` `GetNextEntry` `CloseScan` |
| Values | `const.cpp`, `indexing.cpp` `comp` | none | comparison by type, nulls first |
| System manager | `sm.h`, `sm.cpp` | two record files: tables and attributes; their copy on disk | `createDb` `dropDb` `openDb` `createTable` `dropTable` `createIndex` `dropIndex` |
| Statements | `ql.cpp`, `parser.y` | none between statements | `Insert` `Delete` `Update` `Select` |
| Program | `entry.cpp`, `globalHolder.h` | the global managers | start, `EXIT` |
| Parser | `parser/` | syntax trees | |

How they interact.  Everything is a call on one stack; there are no threads and
no callbacks.  A statement opens the record file and the index files of its
table, scans one of them, and inserts, deletes and updates in all of them
between the calls of the scan; the handles' destructors write the headers back,
write the whole buffer back and give the file ids back.  All files share the one
buffer and the one table of ids, so closing any handle also saves the catalog.

What is hard, then, is not concurrency:

* Two structures that must agree are changed by different calls: a page's count
  and its bitmap, the free list and the pages it lists, a tree and the links of
  its leaves, a parent's items and its children's entries, the buffer's keys and
  the ids the file manager has given out.  Long legal sequences of calls reach
  states nobody wrote a test for (the tests insert 50,000 ascending numbers and
  delete in the order of insertion).
* A cursor stays open while the file under it changes.
* A resource runs out silently: file ids.
* A statement is several steps over several files, and a step may fail.
* The program ends with what its buffer and its handles hold: `EXIT` returns from
  `main` and destroys nothing.  What is on disk then depends on who last closed a
  handle.
* The code is built with assertions on, so a wrong assumption stops the program.

What makes each component correct:

* *Buffer and file manager*: buffering is invisible, every page reads as it was
  written last; an id means one open file; closing a handle saves everything.
* *Record files*: a map from record ids to records, which only the named record's
  insertion, deletion or update changes; the free list leads to pages with room.
* *Record scans*: every matching record that stays is returned, in order, once.
* *Comparison*: the entries of an index are in an order that its searches may use.
* *Index files*: the entries of the table's records are in the leaves, in order,
  and found from the root; every page is a node or free; operations return.
* *Index scans, statements, catalog*: an index scan returns the records that
  satisfy its condition; after a statement, a table's indexes hold exactly the
  entries of its records; the catalog names the files that exist, also after the
  program has ended and started again; a client sees tables of rows.

`PROJECT.json` lists the hazards at their lines, with the properties that cover
each.

## The modules

| Module | What it is |
|---|---|
| `RecordStore` | abstract: a map of records |
| `RecordManager` | record files; implements `RecordStore` |
| `RecordScan` | extends `RecordManager` with a scan |
| `BitMap` | `MyBitMap`: a set of numbers in two levels of words, as operators |
| `FileManager` | extends `BitMap`: file ids and files, as operators |
| `BufPageManager` | extends `FileManager`: the buffer, as operators |
| `PageStore` | abstract: pages of files, and the steps that change them |
| `PageCache` | extends `BufPageManager`: the sequences of buffer calls that record and index files make; implements `PageStore` |
| `Comparison` | the comparison of values in conditions and in indexes |
| `BTree` | index files |
| `IndexScan` | extends `BTree` and `Comparison` with what scans of an index return |
| `Catalog` | extends `Comparison`: the database, its catalog on disk and in use, the statements that change it, the end of the program |
| `TableStore` | abstract: tables of rows, as a client knows them |
| `Statements` | extends `Catalog`: `INSERT`, `DELETE`, `UPDATE`, `SELECT` on one table; implements `TableStore` |
| `Joins` | `SELECT` on several tables |
| `RecordScan_proofs`, `PageCache_proofs`, `BTreeShape_proofs`, `BTreeSteps_proofs`, `BTree_proofs`, `IndexScan_proofs`, `Statements_proofs`, `Joins_proofs` | theorems and their lemmas |
| `MC_RecordManager`, `MC_RecordScan`, `MC_PageCache`, `MC_IndexScan`, `MC_Statements`, `MC_Joins` | constants and symmetry for TLC |

Since the program is sequential, one call of a component is one action, with
everything the call changes in it; the interleaving that matters is the order of
calls of different callers, which `Next` leaves free.  The layers are modelled
one above the other: `PageCache` shows that pages behave as variables
(`PageStore`, `CallsMatchPages`), and `RecordManager` and `BTree` have their pages as
variables;
`RecordManager` shows that a record file is a map (`RecordStore`,
`CallsMatchStore`), and
`Statements` has its table files as maps and its index files as sets of entries.
`PageCache` shows that closing a handle writes everything (`ClosingWritesAll`),
and `Statements` has `stored` become `catalog` when a handle closes
(`HandlesClosed`).  `BTree` does not show that an index file is a set of entries,
because it is not (see below): what `Statements` says holds while the index files
do their part.

**RecordManager.**  `header` is `RecordHandle::fileHeader`; `saved` is the copy
in page 0 that `forceDisk` and the close write and `openFile` reads; `page[p]`
is data page `p`, where a slot's bitmap bit and its bytes are one value
(`NoRecord` is a clear bit).  `insertRec` is four actions: into a new page, into
a page that keeps room, into a page that it fills and that leaves the free list,
and the assertions that fail.  `deleteRec` is five: from a page that was not
full, in front of the free list, behind a page of it (with the `setNext` and
`setPrev` calls the code makes, on the pages the code makes them on), and its
two bad ends.  The loop that walks the free list is its fixed point `Walk`.
`status` tells an open handle from a closed one and from a process that an
assertion stopped or that never returns.  A call that answers an error before
it changes anything is a stuttering step.

**RecordScan.**  `scan` holds the cursor; `owed` and `passed` are history
variables: what the scan must still return, and what it has returned.  A call of
`getNextRec` is one action, to the next matching record as the file is then.

**BitMap, FileManager, BufPageManager, PageCache.**  A call of the bitmap, the
file manager or the buffer is an operator on its state, because one operation of
an upper layer is a sequence of them.  A word of the bitmap is the set of its
bits; `inner` is the word above, by which `FindLeftOne` finds the least number.
`CloseRecordFile`, for instance, is `~RecordHandle`: get page 0, write the header
into it, mark it, write it back, write every frame back, close the id.  The
replacement list is a sequence of frames, and `access` has the code's shortcut
for the frame used last.  `OpenMissing` is the open that fails, and keeps its id;
`MaxLost` bounds how often.  `IX_Manager::OpenIndex` reads the header and
releases its frame; the destructor allocates one.

**PageStore.**  What the layers above may count on: a page changes when it is
written, when its index is created, and when its file is removed.  The refinement
alone would take a step that brings one page back to an older content for a
write, so `CallsMatchPages` says which call is which step: a read hands out what
the page holds and changes none, neither do `OpenRecordFile`, `OpenIndex`, a failed
open and `ForcePages`; an update or an append writes its own page with what it was
given, a close or `forceDisk` the header, and nothing else.  All of it through the
evictions, releases and write-backs that the call brings about.

**Comparison.**  `Compare` is what `getComparator` returns, which looks at bytes
only; `Comp` is `BTNode::comp`, which subtracts ints (`Wrap` gives the difference
the width of an `int`), compares a float with itself and dates not at all, and
puts nulls first; `CompEntries` adds the record ids.  An `int` is a number from
`-(MaxInt + 1)` to `MaxInt`.

**BTree.**  `tree` is the header in the `IX_IndexHandle` and the nodes; `rows`
are the entries of the table's records.  Entries are numbers, in the order
`BTNode::comp` gives to pairs of value and record id.  The operators have the
names of the functions or of the branches they model: `Split`, `GrowRoot` and
`LinkSibling` are the parts of `solveOverflow`; `BorrowLeft`, `BorrowRight`,
`Merge`, `ShrinkRoot` and `UpdateParents` those of `solveUnderflow`.  Searches
bisect as the code does, so they do what the code does when the items are out of
order.  A free page's old bytes are not kept: nothing reads them before
`createNode` clears them.

**IndexScan.**  No caller changes an index between the calls of a scan, so what
a scan returns is an operator on the tree: the bisection of `findFirstValue`
without record ids, the walk over the leaves' links, and the rule of `findNext`
that an entry counts only if it is greater than the last.  Entries stand for ints
or for floats: an index of floats is in the order of the record ids, and scans of
it are right because they never stop before the last leaf.

**Catalog, Statements.**  A statement is one action.  `catalog` is the two record
files of the system manager as the running program sees them, `stored` as they
are on disk; `file` the table files, which `DROP TABLE` leaves, `index` the index
files under the numbers of `indexCount`.  `CREATE TABLE` and `CREATE INDEX` force
the catalog to disk; `DROP` leaves it in the buffer but removes index files at
once; a statement on records saves it when its handles close; `EXIT` forgets what
was not saved and leaves the program `"idle"`, ready for `CREATE`, `DROP` and
`USE` of a database.  The first `INSERT` makes a table's file.  A cell has its
null bit and the bytes under it, which `UPDATE` to null leaves and an index does
not keep.  A `WHERE` clause is a sequence of conditions, on a value, another
attribute or null.  `UPDATE` works record by record and stops where `DeleteEntry`
or `InsertEntry` fails; `Reached`, `Deletes` and `Inserts` say how far it came.
`Best` is the condition `guessBestCond` takes for an index scan, whose entries
`SelectByIndex` follows and verifies.

Behaviour that C++ leaves open leads to the status `"undefined"`, after which
nothing is claimed: `DELETE` on a table whose `indexCount` is not 0, `INSERT` with
two indexes, `CREATE INDEX`, `UPDATE`, `DELETE` and `SELECT` on a table that has
no file yet, an index scan with `NE_OP`, `UPDATE` and `SELECT` with an index whose
file is missing, and statements before `USE`.  `past` is a history variable of
three things after which less is claimed: an `INSERT` gave fewer values than
attributes (an index and its records disagree then: zeros in the record, nulls in
the index), the program ended before a `DROP` was on disk, `CREATE DATABASE`
emptied a catalog.

**TableStore.**  What of this a client sees: rows, each attribute a value or
null.  `INSERT` adds a row with the values it was given; `DELETE` and `UPDATE` do
the same to every row that the `WHERE` clause must choose, and nothing to one that
it may not (a comparison with a null may come out either way); indexes, refused
statements and restarts change no row.  Whether `DROP TABLE` ends the rows is left
open: `systemmanager.md:83` says that it destroys the table's file, and the code
leaves it.  The refinement says that each step is some step of `TableStore`;
`StatementsMatchStore` says which: a statement is the step of its own values, `WHERE`
and `SET`.  The history variable `asked` has these, and where several clauses choose
the same records the step must be one of each of them.

**Joins.**  A table is the sequence of its rows' join keys in the order of its
scan.  `Merge` is one round of `select_optimize`'s loop, `Product` one of
`hasNextRecordList`'s: judge the rows the scans have come to and move on.
`judged` and `repeated` are history variables.  `Difference` is the `int` that
`calculateDiff` returns, with its width.

## The runs

| Run | Module, configuration | Shows |
|---|---|---|
| `record_file` | `MC_RecordManager`, `RecordFile.cfg` | `TypeOK`, `CountMatchesBitmap`, `LinksInsideFile`, refinement of `RecordStore`, `CallsMatchStore` |
| `record_scan` | `MC_RecordScan`, `RecordScan.cfg` | `ScanTypeOK`, `ScanComplete`, `ReturnsInOrder` |
| `page_cache` | `MC_PageCache`, `PageCache.cfg` | `TypeOK`, `BufferCoherent`, `IdsDistinguishFiles`, `AllocatedPagesNotCached`, refinement of `PageStore`, `CallsMatchPages`, `ClosingWritesAll` |
| `index_file` | `BTree`, `IndexFile.cfg` | `TypeOK`, `PagesAccounted`, `LeafChainMatchesTree`, `Balanced`, `LeavesHoldRows` |
| `index_growing` | `MC_IndexScan`, `IndexGrowing.cfg` | `ItemsComparable`; `RowsFound`, `LeavesInOrder`, `ScansFind`, `FloatScansFind`, `NullScansFind` while entries are only inserted |
| `statements` | `MC_Statements`, `Statements.cfg` | `TypeOK`, `CreatedIsStored`, `IndexFilesNamed`, `IndexesMatchRecords`, `SelectsAgree`, refinement of `TableStore`, `StatementsMatchStore` |
| `joins` | `MC_Joins`, `Joins.cfg` | `TypeOK`, `MergeFindsMatches`, `ProductFindsAll`, `NoTupleTwice`, `Ends` |
| `record_free_list` | `MC_RecordManager`, `RecordFileAssert.cfg` | violated: `FreeListHeadHasRoom` |
| `file_ids` | `MC_PageCache`, `FileIds.cfg` | violated: `IdsDistinguishFiles` when ids run out |
| `index_separators` | `BTree`, `IndexSeparators.cfg` | violated: `ItemsAreLeast` |
| `index_merge_assert` | `BTree`, `IndexMergeAssert.cfg` | violated: `MergesKeepItems` |
| `index_height` | `BTree`, `IndexHeight.cfg` | violated: `OperationsReturn` |

Bounds, and why they are enough.

* Record files: three data pages of two slots.  Two slots tell an empty, a
  half-full and a full page apart; three pages let a page enter the free list
  before, between and after others, which are the branches of `deleteRec`.  Two
  contents tell an updated record from the old one.
* Scans: two pages of two slots, so that a scan moves within a page and from a
  page to the next; `passed` is bounded because a scan never returns to a slot.
* Page cache: a record file of two pages and an index of three share two frames,
  so that every call may evict; four ids in two words of two bits, of which a failed
  open may use up one (`MaxLost`), so that an id is given out again and a word of the
  bitmap runs empty and comes back.  `NextWithinLimit` opens files only while an id
  is free; `NextAtLimit`, in `file_ids`, does not, and failed opens may use up all
  four.
* Index: nodes of three items make trees of three levels with seven entries.
  `MaxNode` bounds the pages: `InsertEntry` is tried while there is a page for a
  split on each level and one for a new root (`RoomToInsert`).  States in which the program has stopped (`status`) are
  final.
* Index scans: ten entries, two to a value, one of a null: leaves where equal
  values meet and trees of two levels, in every order of insertion.  The same
  entries as floats have values in no order of the record ids.  `ItemsComparable`
  takes every pair and triple of entries with ints from -6 to 5 (`MaxInt` is 5).
* Statements: one table (tables share nothing but the catalog, which is saved as a
  whole) of two attributes, one of which may be null, the other a primary key; two
  records and two values, so that an update changes some records and not others;
  two indexes in the table's life, so that a number could be given out twice.
  `MCWhereClauses` has conditions of each kind by themselves, and clauses of up to
  three in which `guessBestCond` has a choice.  `VIEW SeenLater` identifies states
  that differ only in what is never read again: after undefined behaviour, entries of
  index files that no catalog names, and what the last statement was asked to do.
* Joins: two or three tables of up to three rows and three keys, with ints from
  -2 to 1, so that differences wrap around.  Primary keys need not be distinct,
  for the program does not check them; `Mergeable` says when the merge is claimed
  to be right.

Deadlock is not checked because the program really may stop: after an assertion
fails, after undefined behaviour, when a call never returns or when it is done,
no action is enabled.  In the modules whose actions are calls no fairness is
assumed and no liveness property stated: the program does nothing unless it is
called, and whether a call returns is `status`, a matter of safety, because calls
are atomic.  In `Joins` an action is a round of a loop that nothing interrupts,
so weak fairness of `Next` only says that the program runs on; `Ends` says that
the loops end.

## What the runs found

* The free list of a record file may lead to a full page (`record_free_list`):
  `deleteRec` sets the successor of a page that enters the list only if the
  successor exists, so a page that comes last keeps the successor it had long
  ago.  The next insertion fails `assert(count < recordNum)`, or a deletion
  `assert(prevPage != page)`.  No record is lost on the way:
  `LinksInsideFile` and the refinement hold up to that point.
* File ids are not checked to be free, and a failed open keeps the one it took
  (`file_ids`): a number of failed opens, which `INSERT` into a table without a
  file makes, give an open file's id to another file.
* Borrowing from the right sibling leaves a wrong item in the parent
  (`index_separators`), after which entries that are in the leaves are not found:
  `RowsFound` and `LeavesInOrder` hold only while nothing is deleted.
* A new least entry that splits the first leaf leaves a wrong item too, which
  makes a later merge fail an assertion (`index_merge_assert`).
* In a tree of three levels an insertion into the leftmost leaf does not return
  (`index_height`); the loop after a deletion has the same fault.

What the models had to leave out of a property, because it does not hold:

* `UPDATE` and `CREATE INDEX` keep an index and its records together, through
  dropped and created tables and indexes, restarts and nulls; `INSERT` does when
  it gives a value for each attribute.  But `DELETE` with an index, and `INSERT`
  with two, run on memory that was never set (`DeleteUndefined`, `AfterInsert`).
* `systemmanager.md:81-83` says that `DropTable` removes the table's data file by
  `RM_Manager::DestroyFile`.  `dropTable` (`sm.cpp:360-382`) does not: the records
  stay, and are those of the next table of that name, whatever its attributes.
  `TableStore!DropTable` therefore lets the rows stay or go, and `Statements` has
  them stay, as the code does.
* `DROP TABLE` and `DROP INDEX` followed by `EXIT` bring the table or the index
  back without its index files; every later `INSERT` into the table fails
  (`InsertIndexMissing`).
* `CREATE DATABASE` of one that exists answers success and empties its catalog;
  the files stay.
* `SELECT` with `<>` or `IS NOT NULL` on an indexed attribute reads the record of
  page -1 (`CannotStart`), even where another condition could be taken.
* The comparison of an index puts ints that are far apart in a circle
  (`IntsFarApartInCircle` proves it for every `MaxInt` but 0); floats and dates are in the
  order of their record ids, which scans bear and merges do not.
* A merge join finds all matches, but only if primary keys are distinct, which is
  not checked, and differences fit an `int`.

## The proofs

The assumptions of every theorem are those its modules state on their constants.
The proofs lean on no bound of the runs: numbers of frames, ids, pages, slots,
tables, attributes, values and rows are arbitrary.

**`RecordScan_proofs`**, of record files, for every page size (`RecordNum`),
every bound on the pages and every set of contents:

* `RecordFileInvariant`: `IInv` is an invariant;
* `RecordFileTypeOK`, `RecordFileCount`, `RecordFileLinks`: so are `TypeOK`,
  `CountMatchesBitmap` and `LinksInsideFile`;
* `RecordFileRefinement`: the record file implements `RecordStore`;
* `RecordFileCalls`: each call does the abstract operation of its name
  (`CallsMatchStore`).  The refinement alone would let an insertion overwrite a
  live record, which looks like an update of it.

`LinksInsideFile` is not inductive by itself.  A page that enters the list may
keep an old successor, which is inside the file only because every page's
successor always was; a page appended to the file brings the successor
`initPage` gave it; and `openFile` brings back a header from the disk.  So
`IInv` adds that pages past the end are blank (`PagesPastEndBlank`) and that a
closed file's header is the one last in use (`ClosedSaved`).  The proof
abstracts the pages to a `Sound` file: relinking pages (`SetPrev`, `SetNext`) to
pages inside the file keeps it sound and keeps the records; setting, clearing
and overwriting a slot keep counts right and change one record.  Then there is
one step for each action.  The refinement follows the same lemmas: each action
is an abstract operation on one record or a stuttering step.  That the loop of
`deleteRec` only visits pages of the file (`Walk`) follows from its being the
least set closed under successors, without induction.

And of scans, which rest on it: `ScanTypes`, `ScansReturnInOrder` and
`ScansComplete` for whatever is inserted, deleted and updated between the calls.
The strengthening `CursorSplits` says that what a scan owes lies behind its
cursor and what it has returned does not, and that its pages are pages of the
file: the number of pages it copied when it opened stays below the file's, since
files never shrink.  The end of a scan then owes nothing.

**`PageCache_proofs`**, of the bitmap: the map is full at first (`BitMapIsFull`), `setBit` adds or
removes one number and keeps the word above in step (`BitMapSets`), and
`findLeftOne` finds the least number, or answers 0 (`BitMapFindsLeast`), for every
size and number of words that two levels reach.

The buffer uses these: for every number of frames, ids, files and
pages, as long as a file is opened only while an id is free,

* `PageCacheInvariant`: its `IInv` is an invariant;
* `PageCacheTypes`, `BufferStaysCoherent`, `IdsStayDistinct`, `AllocationsAreSafe`:
  so are the run's four invariants;
* `PageCacheImplementsStore`: the buffer implements `PageStore`, and
  `PageCacheCalls`: each call is the step of `PageStore` that it is there for
  (`CallsMatchPages`);
* `ClosingIsDurable`: closing a handle brings every page to disk.

An operation is a sequence of buffer calls, so the argument is made call by call.
`Coherent` is what each call keeps: the replacement list has every frame, no two
frames have one key, a frame's id is that of an open file, and a frame that is not
dirty equals its page.  `Shows(b, f, p)` is what a page reads as between two calls;
a lemma for each call says that it keeps `Shows` (`Flushes`, `GetsPage`, `Releases`,
`ClosesBuffer`, `OpensFile`, ...) or changes it at one page (`ChangesPage`,
`PutsNewPage`, `ForcesPage`).  `release` drops a frame without writing it, so its
lemma asks that the frame be clean: it is, when `OpenIndex` has just fetched it under
an id that no frame had.  Between operations `IInv` adds that handles and the file
manager agree about ids (`Linked`), that open files exist and have a header
(`Sizes`), and that a key names a page below its file's end, and not an index's
header (`KeysInside`): without these two the page that `insertRec` or
`~IX_IndexHandle` allocates might be in the buffer already.

**`Statements_proofs`**, for every set of tables, attributes, values, record ids
and `WHERE` clauses and every bound on indexes: `StatementsTypeOK`,
`StatementsCreatedIsStored`, `StatementsIndexFilesNamed`, `StatementsIndexesMatch`,
`StatementsSelectsAgree`.  The invariants speak of a running program, so the
inductive `StatementsInvariant` restates them of what is on disk while none runs
(`StoredFilesNamed`, `StoredIndexesMatch`); it adds that the numbers of indexes are
below the count and of one attribute each, in the catalog in use and in the stored
one (`Numbered`): a number of the stored catalog may come back, and must not have
been given to another attribute meanwhile.  `DroppedFilesGone` says that an index
that is stored but dropped has no file, so that one that comes back with the
catalog comes back without entries rather than with old ones.  That `UPDATE` never
stops between two records follows from `IndexesMatchRecords`: no call of it fails.

The refinement is `StatementsRefineTableStore`, by the rows a client sees
(`SeenRows`), from the same invariant; `StatementsCalls` proves
`StatementsMatchStore`, by one lemma for each statement (`InsertInserts`,
`DeleteDeletes`, `UpdateUpdates`, `KeepsRowsKeeps`, `DropTableDrops`), on which the
refinement rests too.

**`Joins_proofs`**, for every number and size of tables, every set of keys and
every `MaxInt`: `JoinsInvariant`, `JoinsTypeOK`, `JoinsMerge`,
`JoinsProduct`, `JoinsNoTupleTwice`.  What a join has judged at its end follows from
what it has judged at each moment.  The merge has judged every match of a row it has
left behind (`MergeJudged`): the key of the row that stays is not less than the one
that goes, so what the row that goes could match lies behind as well, or, when the
keys are equal, is the distinct primary key that stays.  The odometer has judged
exactly the tuples below it in the lexical order (`ProductJudged`, `Below`): the next
tuple has nothing between it and the one before.  Neither has judged the tuple it is
at, hence none is judged twice.  The smallest place where two tuples differ comes
from the well-foundedness of the order of the naturals.

**`BTree_proofs`**, over `BTreeShape_proofs` and `BTreeSteps_proofs`, for every
set of entries, every limit of items in a node from three on and every size of
the file: `TypeHolds`, `PagesAccountedHolds`, `LeafChainHolds`, `BalancedHolds`
and `LeavesHoldRowsHolds`, the five invariants of `index_file`, from `IInvHolds`;
and while entries are only inserted, in any order, `RowsFoundHolds` and
`LeavesInOrderHolds`, from `IInvGrowingHolds`.

The invariants are about all nodes below the root, by recursion down the tree,
and an operation changes nodes on the way up.  `IInv` therefore asks for four
things the file does not store and a step can change locally: the set `N` of the
nodes, the level `h` of each, and its neighbours `nx` and `pv` on its level.
`Good` says that they fit the pages: children are one level lower and know their
parents (`Shape`); the last child of a node and the first of its neighbour are
neighbours (`Links`); the leaves' links are the neighbours (`LeafLinks`); the
pages that are no nodes are on the free list, in order, and blank (`FreeList`,
`Blank`).  That the recursive functions of the properties (`NodesOf`, `Height`,
`LeftmostLeaf`, `LastFreeBefore`) give these sets and levels is proved once
(`NodesAre`, `HeightIs`, `ChainIs`, `LastFreeBeforeIs`), by well-founded recursion
on the level (`RecursionExists`).

Each structural change is then one lemma about the children (`PartedShape`,
`JoinedTree`, `SharedTree`, `GrownTree`, `ShrunkTree`), one about the rows, and
one that the code's steps amount to it (`LinkedSplit`, `BorrowLeftKept`,
`MergeKept`, `ShrinkRootKept`).  The entries are followed as places in leaves:
`MovedItemsKept` says that two leaves that keep the row of their items, however
they share it, keep the entries and their number.  A call of `solveOverflow` or
`solveUnderflow` takes a good tree in which one node may have an item too many or
too few (`OverSized`, `UnderSized`) to one in which only its parent may
(`OverflowStep`, `UnderflowStep`), so after as many calls as there are levels none
has.  Separators play no part in this, which is why these theorems hold through
deletions although searches go wrong: `HotIs` needs only that a search ends in
some leaf.  After an operation that never returned or failed an assertion the
tree is still `Good`, but its sizes and count are not claimed.

A growing index is in order too (`OrderedTree`): `R` gives each node its range, the
entries whose search comes to it.  The root's range is everything, a child has the
part of its parent's range that the items on both sides of it leave
(`RangesDown`), a leaf's items are in its range, and the range of a node is below
that of its neighbour.  An inner node's items are in order but for the first, which
searches do not look at and which a new least entry leaves stale; each of the
others is the first item of its child (`Separates`), so that `updateToRoot` changes
none of them (`UpdateToRootOrdered`).  A split cuts a range at the item that goes
first in the new node (`LinkedOrdered`), and a new root has every range in it
(`RaisedOrdered`).  A search comes to the one leaf with the entry in its range
(`HotRange`, `HotOf`), so it finds what a leaf holds (`HeldFound`), and an entry that
it does not find is inserted in its place (`MissingPlace`, `InsertOrdered`): not in
front of the first item of its leaf, unless nothing separates that leaf from the
entry.  The bisections are proved by induction over the places they search
(`LowFound`, `NotBelowFound`).

**`IndexScan_proofs`**, of the comparison: `ComparisonOrdersEntries` says that the
comparison of entries is an order, by value for ints and strings, as long as
differences fit (so `ItemsComparableHolds`); `IntsFarApartInCircle` that it is none
otherwise.

And of scans of a growing index: `ScansFindHolds`, `FloatScansFindHolds` and
`NullScansFindHolds`, for every set of entries and of nulls among them that come
first, any floats, and ints as close as the comparison needs (`CloseAssumption`).
The argument has three parts.

* Where a scan begins.  The entries that comp puts below a condition's value are
  those before some place in the order (`Cuts`): for ints those of lesser values, for
  floats, which comp takes for equal, the nulls alone.  `findFirstValue` goes down
  past an item only if it is below, so all that its leaf's range leaves to the left is
  below too (`FindFirstIs`), and nothing below can satisfy a condition with `=`, `>`
  or `>=` (`BelowFails`).
* Where it goes.  Leaves have disjoint ranges and none but a root is empty, so their
  first items tell them apart (`LeavesInRow`); links that lead to greater first items
  and meet every leaf but the header's first must lead to the next one
  (`RowFollowsOrder`).  Hence the recursion of `LeafEntries` ends, and from each leaf
  on it has the entries of all later leaves, in order (`LeafEntriesAre`,
  `RowOfEntries`).
* What it returns.  Of entries in order `findNext`, which skips what is not greater
  than the one before, leaves out nothing that satisfies (`ReturnedIs`).

Only model-checked: `Ends`, since liveness is beyond the prover, and the five
violations, which are of instances.

## Not modelled

* Values of other types than `INT` in statements, and attributes of different
  lengths: the length of an entry is static in `BTNode` (`indexing.cpp:1005`).
* Key checks, which are switched off (`const.h:20-22`).
* `constructCondition` (`ql.cpp:684-693`) has no `return`; its caller goes on as
  if it had returned 0, which is what the `makefile` gives: it compiles without optimisation.
* Kills between the steps of a statement: `insertRec` writes a new page through
  and leaves the header in memory.  The program ends between two statements here.
* Addresses of frames that a caller holds over later calls of the buffer: with
  60,000 frames no operation fetches enough pages in between.
* More than two levels of words in the bitmap: 128 ids need two.
* A second table of one name, which `createTable` does not refuse; two set clauses
  for one attribute; databases made inside a database.
* `INSERT` with several rows (`parser.y:284-297`) is a sequence of insertions.
* `GetNextEntry`'s search for its place after a deletion, which has no caller.
* In joins: conditions that name the tables in another order than `FROM`, for
  which the merge passes its records the wrong way round; floats.
* A file open twice: a table named twice in `FROM`, or one whose `INSERT` could not
  open an index and returned from the parser with its handles open
  (`parser.y:263-266`).
* The next free page in the headers that the catalog's two handles keep in memory:
  where the catalog's records go, not what they hold.
* The parser, the printing of tables and aggregates are text.  `FileTable.h`,
  `compare.h`, `newType` and `closeType` are not used by the program.
* The layout of records and of nodes in bytes is abstracted to the number of slots
  and items.  A page never written reads as `Absent`: what `read` past the end
  leaves in the frame.  Failures of `read`, `write` and `lseek` on an open file are
  not modelled; the code ignores them.

## The plan

1. Done: record files, scans, bitmap, buffer and file ids, comparison, index files
   and their scans, the database, its catalog and the end of the program,
   statements, the tables they implement, joins; and the proofs above, of which
   those of index files are the last.
2. A kill between the calls of a statement, over `RecordManager`'s `saved` and the
   frames of `PageCache`.
3. What deletions may do to searches and scans, stated as what still holds: which
   entries a search misses once separators are stale.
