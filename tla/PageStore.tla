------------------------------ MODULE PageStore ------------------------------
(***************************************************************************)
(* What the page buffer and the file manager promise together: pages of    *)
(* files, each holding what was written to it last.  PageCache says which  *)
(* of its calls is which step (CallsMatchPages).                           *)
(***************************************************************************)
EXTENDS Naturals

CONSTANTS Files, PageIds, Content, Absent

VARIABLE pages

Init == pages = [f \in Files |-> [p \in PageIds |-> Absent]]

(* Pages are read, replaced in the buffer or written back from it, or a    *)
(* file is opened.                                                         *)
ChangesNothing == UNCHANGED pages

(* v is written to page p of file f.                                       *)
WritePage(f, p, v) == pages' = [pages EXCEPT ![f][p] = v]

(* A new index file gets its header and its root.                          *)
CreateIndex(f, v, w) == pages' = [pages EXCEPT ![f][0] = v, ![f][1] = w]

(* A file is removed, all of its pages with it.                            *)
RemoveFile(f) == pages' = [pages EXCEPT ![f] = [p \in PageIds |-> Absent]]

Next ==
  \/ ChangesNothing
  \/ \E f \in Files :
       \/ RemoveFile(f)
       \/ \E v \in Content :
            \/ \E p \in PageIds : WritePage(f, p, v)
            \/ \E w \in Content : CreateIndex(f, v, w)

Spec == Init /\ [][Next]_pages

=============================================================================
