------------------------------ MODULE PageCache ------------------------------
(***************************************************************************)
(* The page buffer and the file manager under the calls that record files  *)
(* (recordmanager/rm.cpp) and index files (indexing/indexing.cpp) make on  *)
(* them.  The program runs one call at a time, so an action is the whole   *)
(* sequence of buffer calls that one operation on a page or a handle       *)
(* makes.  A page's content, headers included, is a value; what the pages  *)
(* of a record file hold is modelled in RecordManager.                     *)
(*                                                                         *)
(* A file has at most one open handle here.  The program opens a file      *)
(* under two ids in two cases only: a table named twice in FROM, which is  *)
(* only read, and after an INSERT that found the file of an index missing  *)
(* (parser.y:263-266), which never closes what it had opened.              *)
(***************************************************************************)
EXTENDS BufPageManager

CONSTANTS
  RecordFiles,  \* the files that are record files; the others are indexes
  MaxPageNum,   \* bound on the pages each file grows to
  MaxLost       \* bound on the ids that failed opens have taken

ASSUME RecordFilesAssumption == RecordFiles \subseteq Files
ASSUME MaxPageNumAssumption ==
  /\ MaxPageNum \in [Files -> Nat]
  /\ \A f \in Files : MaxPageNum[f] >= 2 /\ 0 .. MaxPageNum[f] - 1 \subseteq PageIds

ASSUME MaxLostAssumption == MaxLost \in Nat

VARIABLES
  buf,      \* the buffer and the files
  handle,   \* handle[f]: the id under which f is open
  pageNum   \* pageNum[f]: the count of pages in f's header

vars == <<buf, handle, pageNum>>

IndexFiles == Files \ RecordFiles
NoId == -1
IsOpen(f) == handle[f] # NoId

Init ==
  /\ buf = EmptyBuffer
  /\ handle = [f \in Files |-> NoId]
  /\ pageNum = [f \in Files |-> 0]

TypeOK ==
  /\ buf \in Buffer
  /\ \A i \in Frames : \E k \in 1 .. Cap : buf.order[k] = i
  /\ handle \in [Files -> Ids \cup {NoId}]
  /\ pageNum \in [Files -> Nat]
  /\ \A f \in Files : pageNum[f] <= MaxPageNum[f]

(***************************************************************************)
(* Sequences of buffer calls                                               *)
(***************************************************************************)

(* allocPage, fill the page, markDirty, writeBack.                         *)
PutNewPage(b, id, p, v) ==
  WriteBack(Fill(AllocPage(b, id, p), Victim(b), v), Victim(b))

(* getPage, change the page, markDirty.                                    *)
ChangePage(b, id, p, v) ==
  LET c == GetPage(b, id, p) IN Fill(c, FrameOf(c, id, p), v)

(* getPage, change the page, markDirty, writeBack.                         *)
ForcePage(b, id, p, v) ==
  LET c == ChangePage(b, id, p, v) IN WriteBack(c, FrameOf(c, id, p))

Opened(b, f)  == [b EXCEPT !.io = OpenFile(@, f)]
Created(b, f) == Opened([b EXCEPT !.io = CreateFile(@, f)], f)
Closed(b, id) == [b EXCEPT !.io = CloseFile(@, id)]

(***************************************************************************)
(* Creating, removing, opening and closing files                           *)
(***************************************************************************)

(* RecordManager::createFile.                                              *)
CreateRecordFile(f, v) ==
  LET id == FirstId(buf.io) IN
  /\ f \in RecordFiles
  /\ ~IsOpen(f)
  /\ pageNum' = [pageNum EXCEPT ![f] = 1]
  /\ UNCHANGED handle
  /\ buf' = Closed(PutNewPage(Created(buf, f), id, 0, v), id)

(* IX_Manager::CreateIndex: a header and an empty root.                    *)
CreateIndex(f, v, w) ==
  LET id == FirstId(buf.io) IN
  /\ f \in IndexFiles
  /\ ~IsOpen(f)
  /\ pageNum' = [pageNum EXCEPT ![f] = 2]
  /\ UNCHANGED handle
  /\ buf' = Closed(PutNewPage(PutNewPage(Created(buf, f), id, 0, v), id, 1, w), id)

(* RecordManager::destroyFile, IX_Manager::DestroyIndex.                   *)
Destroy(f) ==
  /\ f \in buf.io.exists
  /\ ~IsOpen(f)
  /\ pageNum' = [pageNum EXCEPT ![f] = 0]
  /\ UNCHANGED handle
  /\ buf' = [buf EXCEPT !.io = RemoveFile(@, f)]

(* RecordManager::openFile: the header is read and stays in the buffer.    *)
OpenRecordFile(f) ==
  LET id == FirstId(buf.io) IN
  /\ f \in RecordFiles \cap buf.io.exists
  /\ ~IsOpen(f)
  /\ handle' = [handle EXCEPT ![f] = id]
  /\ UNCHANGED pageNum
  /\ buf' = GetPage(Opened(buf, f), id, 0)

(* A mutant: the frame is kept.                                            *)
OpenIndexKeepsHeader(f) ==
  LET id == FirstId(buf.io) IN
  /\ f \in IndexFiles \cap buf.io.exists
  /\ ~IsOpen(f)
  /\ handle' = [handle EXCEPT ![f] = id]
  /\ UNCHANGED pageNum
  /\ buf' = GetPage(Opened(buf, f), id, 0)

(* IX_Manager::OpenIndex: the header is read and its frame released.       *)
OpenIndex(f) ==
  LET id == FirstId(buf.io)
      b  == GetPage(Opened(buf, f), id, 0)
  IN
  /\ f \in IndexFiles \cap buf.io.exists
  /\ ~IsOpen(f)
  /\ handle' = [handle EXCEPT ![f] = id]
  /\ UNCHANGED pageNum
  /\ buf' = Release(b, FrameOf(b, id, 0))

LostIds == (Ids \ FreeIds(buf.io)) \ Range(handle)

(* openFile of a file that is not there takes an id for good.              *)
OpenMissing(f) ==
  /\ f \notin buf.io.exists
  /\ UNCHANGED <<handle, pageNum>>
  /\ Cardinality(LostIds) < MaxLost
  /\ buf' = Opened(buf, f)

(* A mutant: the other pages stay in the buffer.                           *)
CloseRecordFileKeepsPages(f, v) ==
  /\ f \in RecordFiles
  /\ IsOpen(f)
  /\ handle' = [handle EXCEPT ![f] = NoId]
  /\ UNCHANGED pageNum
  /\ buf' = Closed(ForcePage(buf, handle[f], 0, v), handle[f])

(* RecordManager::closeFile and ~RecordHandle: writeFH, close, closeFile.  *)
CloseRecordFile(f, v) ==
  /\ f \in RecordFiles
  /\ IsOpen(f)
  /\ handle' = [handle EXCEPT ![f] = NoId]
  /\ UNCHANGED pageNum
  /\ buf' = Closed(CloseBuffer(ForcePage(buf, handle[f], 0, v)), handle[f])

(* ~IX_IndexHandle: writeHeader, ForcePages, closeFile.                    *)
CloseIndex(f, v) ==
  /\ f \in IndexFiles
  /\ IsOpen(f)
  /\ handle' = [handle EXCEPT ![f] = NoId]
  /\ UNCHANGED pageNum
  /\ buf' = Closed(CloseBuffer(PutNewPage(buf, handle[f], 0, v)), handle[f])

(***************************************************************************)
(* Reading and writing pages of an open file                               *)
(***************************************************************************)

(* The pages a handle goes to: an index's own header is not among them.    *)
IsPageOf(f, p) == 0 < p /\ p < pageNum[f]

(* getRec, getNextRec, loadNode.                                           *)
ReadAPage(f, p) ==
  /\ IsOpen(f)
  /\ IsPageOf(f, p)
  /\ UNCHANGED <<handle, pageNum>>
  /\ buf' = GetPage(buf, handle[f], p)

(* updateRec, deleteRec, and the nodes an index operation changes.         *)
UpdatePage(f, p, v) ==
  /\ IsOpen(f)
  /\ IsPageOf(f, p)
  /\ UNCHANGED <<handle, pageNum>>
  /\ buf' = ChangePage(buf, handle[f], p, v)

(* insertRec on a page of the file.                                        *)
UpdatePageThrough(f, p, v) ==
  /\ f \in RecordFiles
  /\ IsOpen(f)
  /\ IsPageOf(f, p)
  /\ UNCHANGED <<handle, pageNum>>
  /\ buf' = ForcePage(buf, handle[f], p, v)

(* insertRec appends a page: allocPage, because it cannot be in the buffer.*)
AppendRecordPage(f, v) ==
  /\ f \in RecordFiles
  /\ IsOpen(f)
  /\ pageNum[f] < MaxPageNum[f]
  /\ pageNum' = [pageNum EXCEPT ![f] = @ + 1]
  /\ UNCHANGED handle
  /\ buf' = PutNewPage(buf, handle[f], pageNum[f], v)

(* createNode takes a page past the end of the file through getPage.       *)
AppendNode(f, v) ==
  /\ f \in IndexFiles
  /\ IsOpen(f)
  /\ pageNum[f] < MaxPageNum[f]
  /\ pageNum' = [pageNum EXCEPT ![f] = @ + 1]
  /\ UNCHANGED handle
  /\ buf' = ChangePage(buf, handle[f], pageNum[f], v)

(* RecordHandle::forceDisk: writeFH, close.                                *)
ForceDisk(f, v) ==
  /\ f \in RecordFiles
  /\ IsOpen(f)
  /\ UNCHANGED <<handle, pageNum>>
  /\ buf' = CloseBuffer(ForcePage(buf, handle[f], 0, v))

(* IX_IndexHandle::ForcePages.                                             *)
ForcePages(f) ==
  /\ f \in IndexFiles
  /\ IsOpen(f)
  /\ UNCHANGED <<handle, pageNum>>
  /\ buf' = CloseBuffer(buf)

(***************************************************************************)
(* The specification                                                       *)
(***************************************************************************)

OpeningCall(f) ==
  \/ \E v \in Content :
       \/ CreateRecordFile(f, v)
       \/ \E w \in Content : CreateIndex(f, v, w)
  \/ OpenRecordFile(f)
  \/ OpenIndex(f)
  \/ OpenMissing(f)

OtherCall(f) ==
  \/ Destroy(f)
  \/ ForcePages(f)
  \/ \E v \in Content :
       \/ CloseRecordFile(f, v)
       \/ CloseIndex(f, v)
       \/ AppendRecordPage(f, v)
       \/ AppendNode(f, v)
       \/ ForceDisk(f, v)
  \/ \E p \in PageIds :
       \/ ReadAPage(f, p)
       \/ \E v \in Content : UpdatePage(f, p, v) \/ UpdatePageThrough(f, p, v)

(* Files are opened while an id is free.                                   *)
NextWithinLimit ==
  \E f \in Files :
    \/ FreeIds(buf.io) # {} /\ OpeningCall(f)
    \/ OtherCall(f)

Spec == Init /\ [][NextWithinLimit]_vars

(* Nothing in the code checks that an id is free.                          *)
NextAtLimit == \E f \in Files : OpeningCall(f) \/ OtherCall(f)

SpecAtLimit == Init /\ [][NextAtLimit]_vars

(***************************************************************************)
(* Properties                                                              *)
(***************************************************************************)

(* BufPageManager.h:49: an id distinguishes the files that are open, so    *)
(* that no two handles read and write one file's pages.                    *)
IdsDistinguishFiles ==
  \A f, g \in Files : f # g /\ IsOpen(f) => handle[f] # handle[g]

(* No two frames hold the same page, a frame holds pages of open files     *)
(* only (an id given out again finds no page of the file that had it       *)
(* before), an unmodified frame equals its page in the file, and a         *)
(* modified one knows which page it goes to.                               *)
BufferCoherent ==
  /\ \A i, j \in Frames :
       buf.key[i] = buf.key[j] /\ buf.key[i] # NoKey => i = j
  /\ \A i \in Frames :
       IF buf.key[i] = NoKey THEN ~buf.dirty[i]
       ELSE LET f == buf.io.fd[buf.key[i][1]] IN
            /\ f \in Files
            /\ handle[f] = buf.key[i][1]
            /\ buf.dirty[i] \/ buf.frame[i] = buf.io.disk[f][buf.key[i][2]]

(* BufPageManager.h:57: a caller of allocPage must be sure that the page   *)
(* is not in the buffer.  The callers are: whoever is about to be given an *)
(* id, the close of an index (its header) and the insertion of a record    *)
(* into a new page.                                                        *)
AllocatedPagesNotCached ==
  /\ \A p \in PageIds, id \in FreeIds(buf.io) : ~IsCached(buf, id, p)
  /\ \A f \in IndexFiles : IsOpen(f) => ~IsCached(buf, handle[f], 0)
  /\ \A f \in RecordFiles : IsOpen(f) => ~IsCached(buf, handle[f], pageNum[f])

(* A page as its readers get it: from the buffer, else from the file.      *)
PageSeen(f, p) ==
  IF IsOpen(f) /\ IsCached(buf, handle[f], p)
  THEN buf.frame[FrameOf(buf, handle[f], p)]
  ELSE buf.io.disk[f][p]

Pages == [f \in Files |-> [p \in PageIds |-> PageSeen(f, p)]]

Store == INSTANCE PageStore WITH pages <- Pages

(* The pages of the files change by nothing but writes, the creation of    *)
(* indexes and the removal of files.                                       *)
ImplementsPageStore == Store!Spec

(* The caller of getPage finds what page p of f reads as in the frame.     *)
Delivered(f, p) ==
  /\ IsCached(buf', handle[f], p)
  /\ buf'.frame[FrameOf(buf', handle[f], p)] = PageSeen(f, p)

(* What the calls that open or create f, and the other calls on f, do to   *)
(* the pages.                                                              *)
OpeningCallMatches(f) ==
  ~IsOpen(f) /\ FreeIds(buf.io) # {} =>
    /\ OpenRecordFile(f) \/ OpenIndex(f) \/ OpenMissing(f) => Store!ChangesNothing
    /\ \A v \in Content :
         /\ CreateRecordFile(f, v) => Store!WritePage(f, 0, v)
         /\ \A w \in Content : CreateIndex(f, v, w) => Store!CreateIndex(f, v, w)

OtherCallMatches(f) ==
  /\ Destroy(f) => Store!RemoveFile(f)
  /\ ForcePages(f) => Store!ChangesNothing
  /\ \A v \in Content :
       /\ CloseRecordFile(f, v) \/ CloseIndex(f, v) \/ ForceDisk(f, v) =>
            Store!WritePage(f, 0, v)
       /\ AppendRecordPage(f, v) \/ AppendNode(f, v) => Store!WritePage(f, pageNum[f], v)
  /\ \A p \in {q \in PageIds : IsOpen(f) /\ IsPageOf(f, q)} :
       /\ ReadAPage(f, p) => Store!ChangesNothing /\ Delivered(f, p)
       /\ \A v \in Content :
            UpdatePage(f, p, v) \/ UpdatePageThrough(f, p, v) => Store!WritePage(f, p, v)

(* Buffering is invisible: each call changes the pages it is there to      *)
(* write, to what it was given, and no other.  Reading hands out what was  *)
(* written last, and the evictions, releases and write-backs that a call   *)
(* brings about, on its own file or on another, change no page; nor do     *)
(* opening a file, under whatever id is free, and forcing pages to disk.   *)
CallsMatchPages ==
  [][\A f \in Files : OpeningCallMatches(f) /\ OtherCallMatches(f)]_vars

(* Closing a handle brings to disk what every page read as, of whatever    *)
(* file, but for the header that the close writes: a program that ends     *)
(* then has lost only headers that are still in handles.  The statements   *)
(* on tables make the catalog durable by this alone (Statements,           *)
(* HandlesClosed).                                                         *)
ClosingWritesAll ==
  [][\A f \in Files : IsOpen(f) /\ handle'[f] = NoId =>
       \A g \in Files, p \in PageIds :
         <<g, p>> # <<f, 0>> => buf'.io.disk[g][p] = PageSeen(g, p)]_vars

=============================================================================
