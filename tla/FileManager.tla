----------------------------- MODULE FileManager -----------------------------
(***************************************************************************)
(* FileManager (filesystem/fileio/FileManager.h), which keeps its free     *)
(* file ids in a MyBitMap.  An open file is known to the rest of the       *)
(* system by its id only.                                                  *)
(*                                                                         *)
(* A call is an operator from the state of the files before it to the      *)
(* state after it, so that the sequences of calls the upper layers make    *)
(* can be composed (PageCache).                                            *)
(***************************************************************************)
EXTENDS BitMap

CONSTANTS
  Files,     \* file names
  NoFile,    \* an id that stands for no open file
  PageIds,   \* page numbers of a file
  Content,   \* contents of a page
  Absent     \* of a page never written: its bytes are unspecified

ASSUME NoFileAssumption == NoFile \notin Files
ASSUME PageIdsAssumption == PageIds \subseteq Nat
ASSUME AbsentAssumption == Absent \notin Content

(* MAX_FILE_NUM ids.                                                       *)
Ids  == Numbers
Cell == Content \cup {Absent}

FileState ==
  [exists  : SUBSET Files,
   fm      : BitMaps,                       \* the free ids
   fd      : [Ids -> Files \cup {NoFile}],  \* the file opened under an id
   disk    : [Files -> [PageIds -> Cell]]]

NoFiles ==
  [exists  |-> {},
   fm      |-> AllOnes,
   fd      |-> [id \in Ids |-> NoFile],
   disk    |-> [f \in Files |-> [p \in PageIds |-> Absent]]]

FreeIds(io) == Elements(io.fm)

(* The id that openFile takes: 0 if none is free.                          *)
FirstId(io) == FindLeftOne(io.fm)

(* createFile: fopen(name, "a+") keeps what an existing file holds.        *)
CreateFile(io, f) == [io EXCEPT !.exists = @ \cup {f}]

RemoveFile(io, f) ==
  [io EXCEPT !.exists = @ \ {f},
             !.disk   = [@ EXCEPT ![f] = [p \in PageIds |-> Absent]]]

(* openFile: the id's bit is cleared before open() is tried, and stays     *)
(* cleared when it fails.                                                  *)
OpenFile(io, f) ==
  [io EXCEPT !.fm = SetBit(@, FirstId(io), 0),
             !.fd = IF f \in io.exists THEN [@ EXCEPT ![FirstId(io)] = f]
                    ELSE @]

(* closeFile leaves the closed descriptor in fd[id].  The id is free then, *)
(* and nobody reads or writes through it: NoFile stands for it.            *)
CloseFile(io, id) ==
  [io EXCEPT !.fm = SetBit(@, id, 1), !.fd = [@ EXCEPT ![id] = NoFile]]

(* writePage, readPage: through an id without an open file nothing is      *)
(* written or read, and nobody is told.                                    *)
WritePage(io, id, p, v) ==
  IF io.fd[id] = NoFile THEN io
  ELSE [io EXCEPT !.disk = [@ EXCEPT ![io.fd[id]] = [io.disk[io.fd[id]] EXCEPT ![p] = v]]]

ReadPage(io, id, p) ==
  IF io.fd[id] = NoFile THEN Absent ELSE io.disk[io.fd[id]][p]

=============================================================================
