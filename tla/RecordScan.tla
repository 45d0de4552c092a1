----------------------------- MODULE RecordScan -----------------------------
(***************************************************************************)
(* RecordScan (rm.cpp): a cursor over the records of a file.  openScan     *)
(* copies the number of pages; getNextRec reads the pages as they are at   *)
(* each call, while its caller deletes and updates records between the     *)
(* calls (DELETE, UPDATE and DROP TABLE do).  This module adds a cursor to *)
(* RecordManager and keeps track of the records the scan still owes.       *)
(***************************************************************************)
EXTENDS RecordManager, Integers, Sequences

VARIABLES
  scan,   \* the RecordScan
  owed,   \* history: what a scan must still return
  passed  \* history: what it has returned, in order

scanVars == <<scan, owed, passed>>
allVars  == <<header, saved, page, status, scan, owed, passed>>

(* wanted stands for compOp and value: the contents the comparator accepts *)
(* (all of Data for NO_OP).                                                *)
NoScan == [open |-> FALSE, page |-> -1, slot |-> -1, pageNum |-> 1, wanted |-> {}]

ScanTypeOK ==
  /\ TypeOK
  /\ scan \in [open : BOOLEAN, page : -1 .. MaxPages + 1, slot : {-1} \cup Slots,
               pageNum : 1 .. MaxPages + 1, wanted : SUBSET Data]
  /\ owed \subseteq RIDs
  /\ passed \in Seq(RIDs)

Matching(wanted, pageNum) ==
  {r \in RIDs : r[1] < pageNum /\ GetRec(r) \in wanted}

OpenScan(wanted) ==
  /\ status = "open"
  /\ ~scan.open
  /\ scan' = [open |-> TRUE, page |-> -1, slot |-> -1,
              pageNum |-> header.pageNum, wanted |-> wanted]
  /\ owed' = Matching(wanted, header.pageNum)
  /\ passed' = <<>>
  /\ UNCHANGED vars

(* Back to the start; the number of pages stays as openScan found it.      *)
ResetScan ==
  /\ status = "open"
  /\ scan.open
  /\ scan' = [scan EXCEPT !.page = -1, !.slot = -1]
  /\ owed' = Matching(scan.wanted, scan.pageNum)
  /\ passed' = <<>>
  /\ UNCHANGED vars

CloseScan ==
  /\ scan.open
  /\ scan' = NoScan
  /\ owed' = {}
  /\ passed' = <<>>
  /\ UNCHANGED vars

Precedes(a, b) == a[1] < b[1] \/ (a[1] = b[1] /\ a[2] < b[2])

(* A mutant: the rest of the cursor's page is skipped.                     *)
AheadNextPage == {r \in Matching(scan.wanted, scan.pageNum) : scan.page < r[1]}

(* The matching records behind the cursor's position.                      *)
Ahead == {r \in Matching(scan.wanted, scan.pageNum) : Precedes(<<scan.page, scan.slot>>, r)}

(* A mutant: the slot is not remembered.                                   *)
GetNextRecForgetsSlot(r) ==
  /\ status = "open"
  /\ scan.open
  /\ r \in Ahead
  /\ \A other \in Ahead \ {r} : Precedes(r, other)
  /\ scan' = [scan EXCEPT !.page = r[1]]
  /\ owed' = owed \ {r}
  /\ passed' = Append(passed, r)
  /\ UNCHANGED vars

(* getNextRec stops at the first of them.                                  *)
GetNextRec(r) ==
  /\ status = "open"
  /\ scan.open
  /\ r \in Ahead
  /\ \A other \in Ahead \ {r} : Precedes(r, other)
  /\ scan' = [scan EXCEPT !.page = r[1], !.slot = r[2]]
  /\ owed' = owed \ {r}
  /\ passed' = Append(passed, r)
  /\ UNCHANGED vars

(* A mutant: the cursor ends one page too far.                             *)
GetNextRecEndsPast ==
  /\ status = "open"
  /\ scan.open
  /\ Ahead = {}
  /\ scan' = [scan EXCEPT !.page = scan.pageNum + 1, !.slot = -1]
  /\ UNCHANGED <<owed, passed>>
  /\ UNCHANGED vars

(* getNextRec returns -1: no page at all, or the cursor ran past the last. *)
GetNextRecEnds ==
  /\ status = "open"
  /\ scan.open
  /\ Ahead = {}
  /\ scan' = IF scan.pageNum <= 1 THEN scan
             ELSE [scan EXCEPT !.page = scan.pageNum, !.slot = -1]
  /\ UNCHANGED <<owed, passed>>
  /\ UNCHANGED vars

(* The calls on the record file while the scan is open.  A scan owes a     *)
(* record no longer once it is deleted or updated to a content it does not *)
(* want.                                                                   *)
FileCall ==
  /\ \/ \E d \in Data : InsertRec(d)
     \/ \E p \in Pages, s \in Slots :
          \/ DeleteRec(p, s)
          \/ \E d \in Data : UpdateRec(p, s, d)
  /\ owed' = {r \in owed : page'[r[1]].rec[r[2]] \in scan.wanted}
  /\ UNCHANGED <<scan, passed>>

(* The handle is saved, closed and opened between scans.                   *)
HandleCall ==
  /\ ~scan.open
  /\ ForceDisk \/ CloseFile \/ OpenFile
  /\ UNCHANGED scanVars

ScanInit == Init /\ scan = NoScan /\ owed = {} /\ passed = <<>>

ScanNext ==
  \/ \E wanted \in SUBSET Data : OpenScan(wanted)
  \/ ResetScan
  \/ CloseScan
  \/ \E r \in RIDs : GetNextRec(r)
  \/ GetNextRecEnds
  \/ FileCall
  \/ HandleCall

ScanSpec == ScanInit /\ [][ScanNext]_allVars

(***************************************************************************)
(* Properties                                                              *)
(***************************************************************************)

(* A scan that has ended has returned every record that matched when it    *)
(* started and was neither deleted nor made to stop matching since,        *)
(* whatever was inserted, deleted and updated between its calls.           *)
ScanComplete ==
  scan.open /\ scan.page = scan.pageNum => owed = {}

(* A scan returns records in the order of their identifiers, so none       *)
(* twice: a caller that deletes or updates the record it was just given    *)
(* is not given that one again.                                            *)
ReturnsInOrder ==
  \A i, j \in DOMAIN passed : i < j => Precedes(passed[i], passed[j])

=============================================================================
