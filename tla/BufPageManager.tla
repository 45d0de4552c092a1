--------------------------- MODULE BufPageManager ---------------------------
(***************************************************************************)
(* BufPageManager (filesystem/bufmanager/BufPageManager.h) with its        *)
(* replacement list (FindReplace.h, MyLinkList.h) and its hash table       *)
(* (MyHashMap.h): Cap frames that hold copies of file pages, each found by *)
(* the pair of file id and page number.                                    *)
(*                                                                         *)
(* A call is an operator from the buffer before it to the buffer after it. *)
(* The buffer carries the state of the files, which it reads and writes.   *)
(***************************************************************************)
EXTENDS FileManager, Integers

CONSTANTS
  Cap,    \* CAP
  NoKey   \* key of a frame that holds no page: (-1, -1)

ASSUME CapAssumption == Cap \in Nat \ {0}
ASSUME NoKeyAssumption == NoKey \notin Ids \X Nat

Frames == 0 .. Cap - 1

Buffer ==
  [key   : [Frames -> (Ids \X PageIds) \cup {NoKey}],   \* hash
   dirty : [Frames -> BOOLEAN],
   frame : [Frames -> Cell],          \* addr: what the frames hold
   order : [1 .. Cap -> Frames],      \* replace: the next victim first
   last  : Frames \cup {-1},          \* frame accessed last
   io    : FileState]                 \* fileManager

EmptyBuffer ==
  [key   |-> [i \in Frames |-> NoKey],
   dirty |-> [i \in Frames |-> FALSE],
   frame |-> [i \in Frames |-> Absent],
   order |-> [k \in 1 .. Cap |-> k - 1],
   last  |-> -1,
   io    |-> NoFiles]

(***************************************************************************)
(* The replacement list                                                    *)
(***************************************************************************)

Position(order, i) == CHOOSE k \in 1 .. Cap : order[k] = i

(* MyLinkList::insert: take i out, append it.                              *)
MoveToBack(order, i) ==
  [k \in 1 .. Cap |->
     IF k < Position(order, i) THEN order[k]
     ELSE IF k < Cap THEN order[k + 1] ELSE i]

(* A mutant: i is put in front without being taken out.                    *)
PushFront(order, i) == [k \in 1 .. Cap |-> IF k > 1 THEN order[k - 1] ELSE i]

(* MyLinkList::insertFirst: take i out, put it in front.                   *)
MoveToFront(order, i) ==
  [k \in 1 .. Cap |->
     IF k > Position(order, i) THEN order[k]
     ELSE IF k > 1 THEN order[k - 1] ELSE i]

(* The front of the list: find() takes it and puts it at the back.         *)
Victim(b) == b.order[1]

(* access: nothing happens if i was also the frame accessed last, although *)
(* other frames may have been filled and moved behind it since.            *)
Access(b, i) ==
  IF b.last = i THEN b
  ELSE [b EXCEPT !.order = MoveToBack(@, i), !.last = i]

(***************************************************************************)
(* Frames                                                                  *)
(***************************************************************************)

(* MyHashMap::findIndex: the frame that holds a page, if one does.         *)
IsCached(b, id, p) == \E i \in Frames : b.key[i] = <<id, p>>
FrameOf(b, id, p)  == CHOOSE i \in Frames : b.key[i] = <<id, p>>

(* Write a dirty frame to its page.                                        *)
Flush(b, i) ==
  IF b.dirty[i]
  THEN [b EXCEPT !.io = WritePage(@, b.key[i][1], b.key[i][2], b.frame[i]),
                 !.dirty = [@ EXCEPT ![i] = FALSE]]
  ELSE b

(* A mutant: a modified victim is not written to its page.                 *)
FetchPageDropsVictim(b, id, p) ==
  LET i == Victim(b) IN
  [b EXCEPT !.order = MoveToBack(@, i),
            !.dirty = [@ EXCEPT ![i] = FALSE],
            !.key   = [@ EXCEPT ![i] = <<id, p>>],
            !.frame = [@ EXCEPT ![i] = Absent]]

(* fetchPage: take the victim for a page.                                  *)
FetchPage(b, id, p) ==
  LET i == Victim(b) IN
  [Flush(b, i) EXCEPT !.order = MoveToBack(@, i),
                      !.key   = [@ EXCEPT ![i] = <<id, p>>],
                      !.frame = [@ EXCEPT ![i] = Absent]]

(* allocPage(..., ifRead = false): the frame's bytes are unspecified.      *)
AllocPage(b, id, p) == FetchPage(b, id, p)

GetPage(b, id, p) ==
  IF IsCached(b, id, p) THEN Access(b, FrameOf(b, id, p))
  ELSE LET c == FetchPage(b, id, p)
       IN  [c EXCEPT !.frame = [@ EXCEPT ![Victim(b)] = ReadPage(c.io, id, p)]]

MarkDirty(b, i) == Access([b EXCEPT !.dirty = [@ EXCEPT ![i] = TRUE]], i)

(* The caller writes v into the frame and calls markDirty.                 *)
Fill(b, i, v) == MarkDirty([b EXCEPT !.frame = [@ EXCEPT ![i] = v]], i)

(* release: the frame is the next victim, its content is not written.      *)
Release(b, i) ==
  [b EXCEPT !.dirty = [@ EXCEPT ![i] = FALSE],
            !.order = MoveToFront(@, i),
            !.key   = [@ EXCEPT ![i] = NoKey],
            !.frame = [@ EXCEPT ![i] = Absent]]

WriteBack(b, i) == Release(Flush(b, i), i)

(* A mutant: writeBack on frames 0, 1, ... CAP - 2.                        *)
CloseBufferButLast(b) ==
  LET HolderOf(f, p) == {i \in Frames : /\ b.dirty[i] /\ i # Cap - 1
                                        /\ b.key[i][2] = p
                                        /\ b.io.fd[b.key[i][1]] = f}
  IN
  [key   |-> [i \in Frames |-> NoKey],
   dirty |-> [i \in Frames |-> FALSE],
   frame |-> [i \in Frames |-> Absent],
   order |-> [k \in 1 .. Cap |-> Cap - k],
   last  |-> b.last,
   io    |-> [b.io EXCEPT !.disk =
               [f \in Files |-> [p \in PageIds |->
                  IF HolderOf(f, p) = {} THEN b.io.disk[f][p]
                  ELSE b.frame[Max(HolderOf(f, p))]]]]]

(* close: writeBack on frames 0, 1, ... CAP - 1.                           *)
CloseBuffer(b) ==
  LET HolderOf(f, p) == {i \in Frames : /\ b.dirty[i]
                                        /\ b.key[i][2] = p
                                        /\ b.io.fd[b.key[i][1]] = f}
  IN
  [key   |-> [i \in Frames |-> NoKey],
   dirty |-> [i \in Frames |-> FALSE],
   frame |-> [i \in Frames |-> Absent],
   order |-> [k \in 1 .. Cap |-> Cap - k],
   last  |-> b.last,
   io    |-> [b.io EXCEPT !.disk =
               [f \in Files |-> [p \in PageIds |->
                  IF HolderOf(f, p) = {} THEN b.io.disk[f][p]
                  ELSE b.frame[Max(HolderOf(f, p))]]]]]

=============================================================================
