---------------------------- MODULE RecordManager ----------------------------
(***************************************************************************)
(* A record file (recordmanager/rm.h, rm.cpp): a header page and data      *)
(* pages of RecordNum slots each.  A page carries its links in the list of *)
(* pages with free slots, a count of used slots and a bitmap; the header,  *)
(* held in memory by the RecordHandle, carries the number of pages and the *)
(* first page with a free slot (the next page to create, if there is       *)
(* none).                                                                  *)
(*                                                                         *)
(* Pages are read and written through the page buffer, which is modelled   *)
(* in BufPageManager; here a page is the content every reader gets.  A     *)
(* slot's bitmap bit and its bytes are one value: NoRecord is a clear bit. *)
(* Calls that return an error before changing anything are stuttering      *)
(* steps, so the actions below are the calls that get past the checks.     *)
(***************************************************************************)
EXTENDS Naturals, FiniteSets

CONSTANTS
  Data,       \* record contents
  NoRecord,   \* content of a slot whose bitmap bit is clear
  RecordNum,  \* FileHeader::recordNum, slots in a page
  MaxPages    \* bound on the data pages a file grows to

ASSUME RecordNumAssumption == RecordNum \in Nat \ {0}
ASSUME MaxPagesAssumption == MaxPages \in Nat \ {0}
ASSUME NoRecordAssumption == NoRecord \notin Data

VARIABLES
  header,  \* RecordHandle::fileHeader
  saved,   \* the copy of the header in page 0 of the file
  page,    \* page[p]: content of data page p
  status   \* of the handle: open, closed, or stopped inside a call

vars == <<header, saved, page, status>>

Slots == 0 .. RecordNum - 1
Pages == 1 .. MaxPages
RIDs  == Pages \X Slots

Header == [pageNum : 1 .. MaxPages + 1, next : 1 .. MaxPages + 1]
Page   == [prev  : 0 .. MaxPages,
           next  : 1 .. MaxPages + 1,
           count : 0 .. RecordNum,
           rec   : [Slots -> Data \cup {NoRecord}]]

TypeOK ==
  /\ header \in Header
  /\ saved \in Header
  /\ page \in [Pages -> Page]
  /\ status \in {"open", "closed", "aborted", "hung"}

Used(pg) == {s \in Slots : pg.rec[s] # NoRecord}

(* A mutant: the successor of a new page skips a page.                     *)
InitPageSkips(p) ==
  [prev |-> 0, next |-> p + 2, count |-> 0, rec |-> [s \in Slots |-> NoRecord]]

(* PageReader::initPage: no records, followed by the page created next.    *)
InitPage(p) ==
  [prev |-> 0, next |-> p + 1, count |-> 0, rec |-> [s \in Slots |-> NoRecord]]

(* PageReader::setPrev, setNext, on page p of the pages f.                 *)
SetPrev(f, p, v) == [f EXCEPT ![p] = [f[p] EXCEPT !.prev = v]]
SetNext(f, p, v) == [f EXCEPT ![p] = [f[p] EXCEPT !.next = v]]

(* RecordManager::createFile leaves a header page and no data page.        *)
InitHeader == [pageNum |-> 1, next |-> 1]

Init ==
  /\ header = InitHeader
  /\ saved = InitHeader
  /\ page = [p \in Pages |-> InitPage(p)]
  /\ status = "open"

(***************************************************************************)
(* Reading                                                                 *)
(***************************************************************************)

(* The header a reader goes by: the handle's, or the one in the file.      *)
CurrentHeader == IF status = "closed" THEN saved ELSE header

(* RecordHandle::getRec: NoRecord stands for its error results.            *)
GetRec(r) ==
  IF r[1] < CurrentHeader.pageNum THEN page[r[1]].rec[r[2]] ELSE NoRecord

(***************************************************************************)
(* Insertion                                                               *)
(***************************************************************************)

(* A mutant: the record is not counted.                                    *)
PutUncounted(pg, s, d) == [pg EXCEPT !.rec = [@ EXCEPT ![s] = d]]

(* Set the bitmap bit, write the record and count it.                      *)
Put(pg, s, d) == [pg EXCEPT !.rec = [@ EXCEPT ![s] = d], !.count = @ + 1]

(* A mutant: the slot is taken from the count, not from the bitmap.        *)
IsSlotAtCount(pg, s) == s = pg.count

(* PageReader::getNext(-1, ..., false, ...): the first free slot.          *)
IsFirstFree(pg, s) ==
  /\ s \notin Used(pg)
  /\ \A t \in 0 .. s - 1 : t \in Used(pg)

(* header.next is the page after the last one: append a page.  The free    *)
(* list head stays on the new page, even when one record fills it.         *)
InsertIntoNewPage(d) ==
  /\ status = "open"
  /\ header.next = header.pageNum
  /\ header.pageNum <= MaxPages
  /\ page' = [page EXCEPT ![header.next] = Put(InitPage(header.next), 0, d)]
  /\ header' = [header EXCEPT !.pageNum = @ + 1]
  /\ UNCHANGED <<saved, status>>

(* header.next is a page of the file with room for more.                   *)
InsertAndKeepPage(d) ==
  /\ status = "open"
  /\ header.next < header.pageNum
  /\ page[header.next].count + 1 < RecordNum
  /\ \E s \in Slots :
       /\ IsFirstFree(page[header.next], s)
       /\ page' = [page EXCEPT ![header.next] = Put(@, s, d)]
  /\ UNCHANGED <<header, saved, status>>

(* The record fills the page, which leaves the free list; its successor    *)
(* becomes the head (and stops the program if it is past the file's end).  *)
InsertAndUnlinkPage(d) ==
  LET p    == header.next
      next == page[p].next
  IN
  /\ status = "open"
  /\ p < header.pageNum
  /\ page[p].count + 1 = RecordNum
  /\ \E s \in Slots :
       /\ IsFirstFree(page[p], s)
       /\ LET filled == [page EXCEPT ![p] = Put(@, s, d)]
          IN  page' = IF next < header.pageNum THEN SetPrev(filled, next, 0)
                      ELSE filled
  /\ IF next <= header.pageNum
     THEN header' = [header EXCEPT !.next = next] /\ status' = status
     ELSE header' = header /\ status' = "aborted"
  /\ UNCHANGED saved

(* assert(free <= maxPage) or assert(count < recordNum) fails.             *)
InsertAborts ==
  /\ status = "open"
  /\ \/ header.next > header.pageNum
     \/ /\ header.next < header.pageNum
        /\ page[header.next].count >= RecordNum
  /\ status' = "aborted"
  /\ UNCHANGED <<header, saved, page>>

InsertRec(d) ==
  \/ InsertIntoNewPage(d)
  \/ InsertAndKeepPage(d)
  \/ InsertAndUnlinkPage(d)
  \/ InsertAborts

(***************************************************************************)
(* Deletion                                                                *)
(***************************************************************************)

(* Clear the bitmap bit and count the record out.                          *)
Take(pg, s) == [pg EXCEPT !.rec = [@ EXCEPT ![s] = NoRecord], !.count = @ - 1]

Taken(p, s) == [page EXCEPT ![p] = Take(@, s)]

(* The pages the loop of deleteRec looks at, from the free list's head to  *)
(* the first page whose successor is past p: the least set that holds the  *)
(* head and the successors of its members that are not past p.             *)
IsWalk(S, p) ==
  /\ header.next \in S
  /\ \A q \in S : page[q].next <= p => page[q].next \in S

Walk(p) == {q \in Pages : \A S \in SUBSET Pages : IsWalk(S, p) => q \in S}

WalkEnds(p) == {q \in Walk(p) : page[q].next > p}

(* The page was not full, so it stays where it is in the free list.        *)
DeleteFromFreePage(p, s) ==
  /\ page[p].count # RecordNum
  /\ page' = Taken(p, s)
  /\ UNCHANGED <<header, status>>

(* assert(prevPage != page): the head of the free list was a full page.    *)
DeleteAborts(p, s) ==
  /\ page[p].count = RecordNum
  /\ header.next = p
  /\ page' = Taken(p, s)
  /\ status' = "aborted"
  /\ UNCHANGED header

(* The page becomes the head.  Its successor is set only if the old head   *)
(* is a page of the file.                                                  *)
DeleteAndLinkFirst(p, s) ==
  LET old == header.next IN
  /\ page[p].count = RecordNum
  /\ old > p
  /\ LET first == SetPrev(Taken(p, s), p, 0)
     IN  page' = IF old # header.pageNum
                 THEN SetPrev(SetNext(first, p, old), old, p)
                 ELSE first
  /\ header' = [header EXCEPT !.next = p]
  /\ UNCHANGED status

(* The page goes behind q, the last page of the list before it.  Its       *)
(* successor is set only if q's was a page of the file; the page whose     *)
(* prev is set then is q again (rm.cpp:221 fetches prevPage, not next).    *)
DeleteAndLinkBehind(p, s, q) ==
  LET next == page[q].next IN
  /\ page[p].count = RecordNum
  /\ header.next < p
  /\ q \in WalkEnds(p)
  /\ LET behind == SetPrev(SetNext(Taken(p, s), q, p), p, q)
     IN  page' = IF next # header.pageNum
                 THEN SetPrev(SetNext(behind, p, next), q, p)
                 ELSE behind
  /\ UNCHANGED <<header, status>>

(* The list runs in a circle: the loop never finds a successor past p.     *)
DeleteHangs(p, s) ==
  /\ page[p].count = RecordNum
  /\ header.next < p
  /\ WalkEnds(p) = {}
  /\ page' = Taken(p, s)
  /\ status' = "hung"
  /\ UNCHANGED header

(* A mutant: the bitmap is not consulted.                                  *)
DeleteRecUnchecked(p, s) ==
  /\ status = "open"
  /\ p < header.pageNum
  /\ \/ DeleteFromFreePage(p, s)
     \/ DeleteAborts(p, s)
     \/ DeleteAndLinkFirst(p, s)
     \/ \E q \in Pages : DeleteAndLinkBehind(p, s, q)
     \/ DeleteHangs(p, s)
  /\ UNCHANGED saved

(* RecordHandle::deleteRec past its checks of the record identifier.       *)
DeleteRec(p, s) ==
  /\ status = "open"
  /\ p < header.pageNum
  /\ s \in Used(page[p])
  /\ \/ DeleteFromFreePage(p, s)
     \/ DeleteAborts(p, s)
     \/ DeleteAndLinkFirst(p, s)
     \/ \E q \in Pages : DeleteAndLinkBehind(p, s, q)
     \/ DeleteHangs(p, s)
  /\ UNCHANGED saved

(***************************************************************************)
(* Update, and the handle's life                                           *)
(***************************************************************************)

Overwrite(pg, s, d) == [pg EXCEPT !.rec = [@ EXCEPT ![s] = d]]

UpdateRec(p, s, d) ==
  /\ status = "open"
  /\ p < header.pageNum
  /\ s \in Used(page[p])
  /\ page' = [page EXCEPT ![p] = Overwrite(@, s, d)]
  /\ UNCHANGED <<header, saved, status>>

(* RecordHandle::forceDisk writes the header into page 0.                  *)
ForceDisk ==
  /\ status = "open"
  /\ saved' = header
  /\ UNCHANGED <<header, page, status>>

(* A mutant: the header is not written.                                    *)
CloseFileKeepsHeader ==
  /\ status = "open"
  /\ status' = "closed"
  /\ UNCHANGED <<header, saved, page>>

(* RecordManager::closeFile, and the destructor ~RecordHandle.             *)
CloseFile ==
  /\ status = "open"
  /\ saved' = header
  /\ status' = "closed"
  /\ UNCHANGED <<header, page>>

OpenFile ==
  /\ status = "closed"
  /\ header' = saved
  /\ status' = "open"
  /\ UNCHANGED <<saved, page>>

Next ==
  \/ \E d \in Data : InsertRec(d)
  \/ \E p \in Pages, s \in Slots :
       \/ DeleteRec(p, s)
       \/ \E d \in Data : UpdateRec(p, s, d)
  \/ ForceDisk
  \/ CloseFile
  \/ OpenFile

Spec == Init /\ [][Next]_vars

(***************************************************************************)
(* Properties                                                              *)
(***************************************************************************)

(* A page's count is the number of bits set in its bitmap, whatever        *)
(* sequence of insertions and deletions led there: insertRec trusts the    *)
(* count to find a free slot, deleteRec to tell that the page was full.    *)
CountMatchesBitmap ==
  \A p \in Pages : page[p].count = Cardinality(Used(page[p]))

(* The links of the free list stay inside the file: the head and every     *)
(* successor name a page of the file or the page created next, so the      *)
(* assertions on next, free and prevPage in insertRec and deleteRec        *)
(* (rm.cpp:128, 160, 198, 211) never fail and no page is read past the end *)
(* of the file, even where the list itself has gone wrong.                 *)
LinksInsideFile ==
  /\ header.next <= header.pageNum
  /\ \A p \in 1 .. header.pageNum - 1 :
       /\ page[p].next <= header.pageNum
       /\ page[p].prev < header.pageNum

(* A page past the end of the file has never been written.                 *)
PagesPastEndBlank ==
  \A p \in Pages : p >= header.pageNum => page[p] = InitPage(p)

(* The record file as the map its callers see.                             *)
Records == [r \in RIDs |-> GetRec(r)]

Store == INSTANCE RecordStore WITH records <- Records

(* Whatever happens to the file is one of the operations on records or     *)
(* leaves them alone: relinking pages, saving, closing and reopening lose  *)
(* nothing.                                                                *)
ImplementsRecordStore == Store!Spec

(* Each call does to the records what its name says: insertRec puts its    *)
(* record where no record was, however the slots came to be free, unless   *)
(* an assertion stops it; deleteRec and updateRec change the record they   *)
(* are given, whatever they do to the lists.                               *)
CallsMatchStore ==
  [][/\ \A d \in Data :
          InsertRec(d) => status' = "aborted" \/ \E r \in RIDs : Store!Insert(r, d)
     /\ \A p \in Pages, s \in Slots :
          /\ DeleteRec(p, s) => Store!Delete(<<p, s>>)
          /\ \A d \in Data : UpdateRec(p, s, d) => Store!Update(<<p, s>>, d)]_vars

(* assert(count < recordNum) in insertRec (rm.cpp:146) and                 *)
(* assert(prevPage != page) in deleteRec (rm.cpp:193) say that the free    *)
(* list leads to pages with room only, so neither ever stops the program.  *)
FreeListHeadHasRoom == status # "aborted"

=============================================================================
