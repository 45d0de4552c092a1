----------------------------- MODULE RecordStore -----------------------------
(***************************************************************************)
(* What a record file promises its callers: a map from record identifiers  *)
(* to record contents.  Insertion picks an identifier that is not in use,  *)
(* update and deletion touch one record that is in use, and nothing else   *)
(* ever changes a record: not a page becoming full, not a page returning   *)
(* to the free list, not closing and reopening the file.                   *)
(***************************************************************************)

CONSTANTS
  RIDs,      \* record identifiers: pairs <<page, slot>>
  Data,      \* record contents
  NoRecord   \* what an identifier that is not in use maps to

VARIABLE records

Init == records = [r \in RIDs |-> NoRecord]

Insert(r, d) ==
  /\ records[r] = NoRecord
  /\ records' = [records EXCEPT ![r] = d]

Update(r, d) ==
  /\ records[r] # NoRecord
  /\ records' = [records EXCEPT ![r] = d]

Delete(r) ==
  /\ records[r] # NoRecord
  /\ records' = [records EXCEPT ![r] = NoRecord]

Next ==
  \E r \in RIDs :
    \/ Delete(r)
    \/ \E d \in Data : Insert(r, d) \/ Update(r, d)

Spec == Init /\ [][Next]_records

=============================================================================
