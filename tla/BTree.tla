-------------------------------- MODULE BTree --------------------------------
(***************************************************************************)
(* An index file (indexing/indexing.cpp): a B+ tree of entries, each an    *)
(* attribute value with a record id, compared by both.  A node is a page;  *)
(* an inner node holds one item for each child, meant to be the least      *)
(* entry below that child (indexing.h:4).  The leaves are linked in both   *)
(* directions, and the pages that are not nodes are linked in a free list. *)
(*                                                                         *)
(* Entries are numbers, in the order BTNode::comp gives them.  Pages are   *)
(* read and written through the page buffer (PageCache); here a page is    *)
(* the content every reader gets.  What an operation does to the tree is   *)
(* an operator from the tree before it to the tree after it.  prev_free is *)
(* left out: it is written and never read.                                 *)
(***************************************************************************)
EXTENDS Naturals, SequencesExt

CONSTANTS
  Entries,     \* the entries an index may be asked to hold
  EntryLimit,  \* Head_Page::entryLimit, items in a node
  MaxNode      \* bound on the pages of the file

ASSUME EntriesAssumption == Entries \subseteq Nat
ASSUME EntryLimitAssumption == EntryLimit \in Nat /\ EntryLimit >= 3
ASSUME MaxNodeAssumption == MaxNode \in Nat /\ MaxNode >= 4

VARIABLES
  tree,  \* IX_IndexHandle: headPage and the nodes
  rows   \* the entries of the table's records: what the index should hold

vars == <<tree, rows>>

NULL_NODE == 0
Pages == 1 .. MaxNode

EmptyNode ==
  [leaf |-> FALSE, parent |-> NULL_NODE, left |-> NULL_NODE, right |-> NULL_NODE,
   next_free |-> NULL_NODE, items |-> <<>>, childs |-> <<>>]

(* IX_Manager::CreateIndex: an empty leaf as the root.                     *)
EmptyTree ==
  [node     |-> [p \in Pages |->
                   IF p = 1 THEN [EmptyNode EXCEPT !.leaf = TRUE, !.next_free = 2]
                   ELSE EmptyNode],
   root     |-> 1,
   right    |-> 1,     \* headPage.right: the first leaf
   nextFree |-> 2,
   pageNum  |-> 2,
   entryNum |-> 0,
   status   |-> "ok"]

Init == tree = EmptyTree /\ rows = {}

Items(t, v)  == t.node[v].items
Childs(t, v) == t.node[v].childs
Parent(t, v) == t.node[v].parent

(* getParentRank, from 1.                                                  *)
Rank(t, v, p) == CHOOSE r \in DOMAIN Childs(t, p) : Childs(t, p)[r] = v

(* A mutant: the items behind e are not moved up.                          *)
InsertDataOver(n, r, e) ==
  [n EXCEPT !.items = SubSeq(@, 1, r - 1) \o <<e>> \o SubSeq(@, r + 1, Len(@))]

(* BTNode::insertData.                                                     *)
InsertData(n, r, e) == [n EXCEPT !.items = InsertAt(@, r, e)]

SetParents(t, children, p) ==
  [t EXCEPT !.node = [c \in Pages |->
     IF c \in ToSet(children) THEN [t.node[c] EXCEPT !.parent = p] ELSE t.node[c]]]

(***************************************************************************)
(* Searching                                                               *)
(***************************************************************************)

(* BTNode::search in a leaf: the place of the first item that is not below *)
(* e, found by bisection (which answers something else if the items are    *)
(* out of order).  Places are counted from 1, and <<l, r>> are the places  *)
(* still to be searched.                                                   *)
LeafBisection(items, e) ==
  LET first[i \in (1 .. Len(items)) \X (1 .. Len(items))] ==
        LET m == (i[1] + i[2] - 2) \div 2 + 1 IN
        IF i[1] >= i[2] THEN i[1]
        ELSE IF e <= items[m] THEN first[<<i[1], m>>] ELSE first[<<m + 1, i[2]>>]
  IN  first

BisectLeaf(items, e) == LeafBisection(items, e)[<<1, Len(items)>>]

(* A mutant: one place too far.                                            *)
LeafRankPast(items, e) ==
  IF items = <<>> \/ e > items[Len(items)] THEN Len(items) + 1
  ELSE BisectLeaf(items, e) + 1

LeafRank(items, e) ==
  IF items = <<>> THEN 1
  ELSE IF e > items[Len(items)] THEN Len(items) + 1
  ELSE BisectLeaf(items, e)

(* The other bisection: the last place that is low, or the place before    *)
(* those searched.                                                         *)
LowBisection(low) ==
  LET last[i \in (1 .. Len(low) + 1) \X (0 .. Len(low))] ==
        LET m == (i[1] + i[2] - 2) \div 2 + 1 IN
        IF i[1] > i[2] THEN i[1] - 1
        ELSE IF low[m] THEN last[<<m + 1, i[2]>>] ELSE last[<<i[1], m - 1>>]
  IN  last

BisectLow(low, l) == LowBisection(low)[<<l, Len(low)>>]

(* A mutant: an entry equal to the last item goes to the child before.     *)
ChildRankStrict(items, e) ==
  IF Len(items) <= 1 THEN 1
  ELSE IF e > items[Len(items)] THEN Len(items)
  ELSE BisectLow([i \in DOMAIN items |-> items[i] < e], 2)

(* BTNode::search in an inner node: the last child whose item is not past  *)
(* e, the first child when every other item is.                            *)
ChildRank(items, e) ==
  IF Len(items) <= 1 THEN 1
  ELSE IF e >= items[Len(items)] THEN Len(items)
  ELSE BisectLow([i \in DOMAIN items |-> items[i] <= e], 2)

(* The leaf that a way down comes to from each page, where child is the    *)
(* next page of the way.                                                   *)
LeafBelow(t, child) ==
  LET leaf[v \in Pages] == IF Childs(t, v) = <<>> THEN v ELSE leaf[child[v]]
  IN  leaf

(* IX_IndexHandle::search: the leaf it comes to (_hot).                    *)
Hot(t, e) ==
  LeafBelow(t, [v \in Pages |-> Childs(t, v)[ChildRank(Items(t, v), e)]])[t.root]

(* The number of levels from each page down.                               *)
Height(t) ==
  LET height[v \in Pages] ==
        IF Childs(t, v) = <<>> THEN 1 ELSE 1 + height[Childs(t, v)[1]]
  IN  height

Found(t, e) ==
  LET items == Items(t, Hot(t, e))
      r     == LeafRank(items, e)
  IN  r \in DOMAIN items /\ items[r] = e

(***************************************************************************)
(* The free list                                                           *)
(***************************************************************************)

(* A mutant: the page count of the file does not follow.                   *)
CreateNodeUncounted(t, leaf) ==
  [t EXCEPT
     !.node[t.nextFree] = [EmptyNode EXCEPT !.leaf = leaf],
     !.nextFree         = IF @ = t.pageNum THEN @ + 1 ELSE t.node[@].next_free]

(* createNode takes the page t.nextFree (removeLink) and clears it.        *)
CreateNode(t, leaf) ==
  [t EXCEPT
     !.node[t.nextFree] = [EmptyNode EXCEPT !.leaf = leaf],
     !.nextFree         = IF @ = t.pageNum THEN @ + 1 ELSE t.node[@].next_free,
     !.pageNum          = IF t.nextFree = @ THEN @ + 1 ELSE @]

(* addLink: the free pages stay in the order of their numbers.  The loop   *)
(* goes from page to page as long as the next is before p.                 *)
LastFreeBefore(t, p) ==
  LET last[q \in Pages] ==
        IF t.node[q].next_free \in q + 1 .. p - 1 THEN last[t.node[q].next_free] ELSE q
  IN  last[t.nextFree]

AddLink(t, p) ==
  IF p < t.nextFree
  THEN [t EXCEPT !.node[p]  = [EmptyNode EXCEPT !.next_free = t.nextFree],
                 !.nextFree = p]
  ELSE LET q == LastFreeBefore(t, p) IN
       [t EXCEPT !.node = [t.node EXCEPT
          ![p] = [EmptyNode EXCEPT !.next_free = t.node[q].next_free],
          ![q] = [t.node[q] EXCEPT !.next_free = p]]]

(***************************************************************************)
(* Separators                                                              *)
(***************************************************************************)

SetItem(t, p, r, e) ==
  [t EXCEPT !.node[p].items[r] = e]

(* updateToRoot: the parent's item becomes v's first item.  If that is the *)
(* parent's first item the loop goes on to the grandparent, but with       *)
(* node_v unchanged, so it looks for v among the grandparent's children    *)
(* and never finds it.                                                     *)
UpdateToRoot(t, v) ==
  LET p == Parent(t, v) IN
  IF p = NULL_NODE \/ Items(t, v) = <<>> THEN t
  ELSE LET r == Rank(t, v, p)
           u == SetItem(t, p, r, Items(t, v)[1])
       IN  IF r = 1 /\ Parent(t, p) # NULL_NODE THEN [u EXCEPT !.status = "hung"]
           ELSE u

(* updateParent lowers the parent's item if v's first item is below it.    *)
LowersParent(t, v) ==
  LET p == Parent(t, v)
  IN  /\ Items(t, v) # <<>>
      /\ Items(t, v)[1] < Items(t, p)[Rank(t, v, p)]

(* The branch of solveUnderflow for a node with enough items: updateParent *)
(* in a loop that stops unless it changed the parent's first item; then    *)
(* the parent is looked for among its own children.                        *)
UpdateParents(t, v) ==
  LET p == Parent(t, v) IN
  IF p = NULL_NODE \/ ~LowersParent(t, v) THEN t
  ELSE LET u == SetItem(t, p, Rank(t, v, p), Items(t, v)[1])
       IN  IF Rank(t, v, p) = 1 THEN [u EXCEPT !.status = "hung"] ELSE u

(***************************************************************************)
(* Insertion                                                               *)
(***************************************************************************)

(* Half of v's items, and of its children, go to a new node behind it.     *)
Split(t, v) ==
  LET n    == t.node[v]
      u    == t.nextFree
      s    == (EntryLimit + 1) \div 2
      Upper(seq) == SubSeq(seq, s + 1, Len(seq))
      Lower(seq) == IF seq = <<>> THEN <<>> ELSE SubSeq(seq, 1, s)
      c    == CreateNode(t, n.leaf)
      linked == [p \in Pages |->
        CASE p = v -> [n EXCEPT !.items = Lower(@), !.childs = Lower(@),
                                !.right = IF n.leaf THEN u ELSE @]
          [] p = u -> [c.node[u] EXCEPT !.items = Upper(n.items),
                                        !.childs = Upper(n.childs),
                                        !.left = IF n.leaf THEN v ELSE @,
                                        !.right = IF n.leaf THEN n.right ELSE @]
          [] n.leaf /\ p = n.right -> [c.node[p] EXCEPT !.left = u]
          [] OTHER -> c.node[p]]
  IN  SetParents([c EXCEPT !.node = linked], Upper(n.childs), u)

(* The tree grows by a root above v.                                       *)
GrowRoot(t, v) ==
  LET p == t.nextFree
      c == CreateNode(t, FALSE)
  IN  [c EXCEPT !.root = p,
                !.node = [c.node EXCEPT
                  ![p] = [c.node[p] EXCEPT !.items = <<Items(t, v)[1]>>, !.childs = <<v>>],
                  ![v] = [c.node[v] EXCEPT !.parent = p]]]

(* u enters v's parent behind v, with its own first item.                  *)
LinkSibling(t, v, u) ==
  LET p == Parent(t, v)
      r == Rank(t, v, p) + 1
  IN  [t EXCEPT !.node = [t.node EXCEPT
         ![p] = [InsertData(t.node[p], r, Items(t, u)[1]) EXCEPT !.childs = InsertAt(@, r, u)],
         ![u] = [t.node[u] EXCEPT !.parent = p]]]

(* A call of solveOverflow for the node call.at; in the result, at is the  *)
(* node of the call it ends with, or NULL_NODE.                            *)
Overflow(call) ==
  LET t     == call.tree
      v     == call.at
      split == Split(t, v)
      grown == IF Parent(t, v) = NULL_NODE THEN GrowRoot(split, v) ELSE split
  IN  IF v = NULL_NODE THEN call
      ELSE IF Len(Items(t, v)) <= EntryLimit
           THEN [tree |-> UpdateToRoot(t, v), at |-> NULL_NODE]
      ELSE [tree |-> LinkSibling(grown, v, t.nextFree), at |-> Parent(grown, v)]

(* There is at most a call for each level and one for a new root.          *)
Calls(t) == Height(t)[t.root] + 1

SolveOverflow(t, v) ==
  LET call[n \in 0 .. Calls(t)] ==
        IF n = 0 THEN [tree |-> t, at |-> v] ELSE Overflow(call[n - 1])
  IN  call[Calls(t)].tree

(* insert refuses an entry that search finds.                              *)
InsertInto(t, e) ==
  IF Found(t, e) THEN t
  ELSE LET v == Hot(t, e)
           r == LeafRank(Items(t, v), e)
           u == SolveOverflow(
                  [t EXCEPT !.node[v] = InsertData(@, r, e)], v)
       IN  IF u.status = "ok" THEN [u EXCEPT !.entryNum = @ + 1] ELSE u

(***************************************************************************)
(* Deletion                                                                *)
(***************************************************************************)

MinItems == (EntryLimit + 1) \div 2

(* Move the last item and child of ls to the front of v.                   *)
BorrowLeft(t, ls, v) ==
  LET k     == Len(Items(t, ls))
      e     == Items(t, ls)[k]
      leaf  == t.node[v].leaf
      p     == Parent(t, v)
      moved == IF leaf THEN <<>> ELSE <<Childs(t, ls)[k]>>
      u == [t EXCEPT !.node = [t.node EXCEPT
             ![ls] = [t.node[ls] EXCEPT !.items  = RemoveAt(@, k),
                                        !.childs = IF leaf THEN @ ELSE RemoveAt(@, k)],
             ![v]  = [t.node[v] EXCEPT !.items = <<e>> \o @, !.childs = moved \o @]]]
  IN  UpdateToRoot(SetParents(SetItem(u, p, Rank(t, v, p), e), moved, v), v)

(* Move the first item and child of rs to the back of v.  The parent's     *)
(* item for rs stays what it was (case 2 of solveUnderflow sets v's item,  *)
(* and only if v was empty).                                               *)
BorrowRight(t, v, rs) ==
  LET e     == Items(t, rs)[1]
      leaf  == t.node[v].leaf
      moved == IF leaf THEN <<>> ELSE <<Childs(t, rs)[1]>>
      u == [t EXCEPT !.node = [t.node EXCEPT
             ![rs] = [t.node[rs] EXCEPT !.items = Tail(@),
                                        !.childs = IF leaf THEN @ ELSE Tail(@)],
             ![v]  = [t.node[v] EXCEPT !.items = Append(@, e), !.childs = @ \o moved]]]
  IN  UpdateToRoot(SetParents(u, moved, v), v)

(* A mutant: the leaf behind v keeps its link to v.                        *)
RemoveLeafLinkOneWay(t, v) ==
  LET n == t.node[v] IN
  IF ~n.leaf \/ n.left = NULL_NODE THEN t
  ELSE [t EXCEPT !.node[n.left].right = n.right]

(* removeLeafLink.                                                         *)
RemoveLeafLink(t, v) ==
  LET n == t.node[v] IN
  IF ~n.leaf THEN t
  ELSE [t EXCEPT
          !.right = IF n.left = NULL_NODE THEN n.right ELSE @,
          !.node  = [p \in Pages |->
             CASE p = n.left  -> [t.node[p] EXCEPT !.right = n.right]
               [] p = n.right -> [t.node[p] EXCEPT !.left = n.left]
               [] OTHER       -> t.node[p]]]

(* v takes over everything of its right sibling w, whose page becomes      *)
(* free; then assert(updateParent(v, r) < 0).                              *)
Merge(t, v, w) ==
  LET p  == Parent(t, v)
      r  == Rank(t, w, p)
      u1 == [t EXCEPT !.node = [t.node EXCEPT
              ![p] = [t.node[p] EXCEPT !.items = RemoveAt(@, r), !.childs = RemoveAt(@, r)],
              ![v] = [t.node[v] EXCEPT !.items = @ \o Items(t, w),
                                       !.childs = @ \o Childs(t, w)]]]
      u2 == AddLink(RemoveLeafLink(SetParents(u1, Childs(t, w), v), w), w)
  IN  IF LowersParent(u2, v)
      THEN [SetItem(u2, p, Rank(u2, v, p), Items(u2, v)[1]) EXCEPT !.status = "aborted"]
      ELSE u2

(* A mutant: the old root's page is not given back.                        *)
ShrinkRootLosesPage(t, v) ==
  LET c == Childs(t, v)[1] IN
  [t EXCEPT !.root = c, !.node[c].parent = NULL_NODE]

(* A mutant: the new root keeps its parent.                                *)
ShrinkRootKeepsParent(t, v) == AddLink([t EXCEPT !.root = Childs(t, v)[1]], v)

(* The root is left with one child, which becomes the root.                *)
ShrinkRoot(t, v) ==
  LET c == Childs(t, v)[1] IN
  AddLink([t EXCEPT !.root = c, !.node[c].parent = NULL_NODE], v)

(* v's siblings.                                                           *)
LeftSibling(t, v) ==
  LET p == Parent(t, v)  r == Rank(t, v, p) IN
  IF r > 1 THEN Childs(t, p)[r - 1] ELSE NULL_NODE

RightSibling(t, v) ==
  LET p == Parent(t, v)  r == Rank(t, v, p) IN
  IF r < Len(Items(t, p)) THEN Childs(t, p)[r + 1] ELSE NULL_NODE

CanLend(t, s) == s # NULL_NODE /\ Len(Items(t, s)) > MinItems

MergeSibling(t, v) ==
  IF LeftSibling(t, v) # NULL_NODE THEN Merge(t, LeftSibling(t, v), v)
  ELSE Merge(t, v, RightSibling(t, v))

(* A call of solveUnderflow that is not followed by another.               *)
LastUnderflow(t, v) ==
  IF Len(Items(t, v)) >= MinItems THEN UpdateParents(t, v)
  ELSE IF Parent(t, v) = NULL_NODE
       THEN IF Len(Items(t, v)) = 1 /\ ~t.node[v].leaf THEN ShrinkRoot(t, v) ELSE t
  ELSE IF CanLend(t, LeftSibling(t, v)) THEN BorrowLeft(t, LeftSibling(t, v), v)
  ELSE BorrowRight(t, v, RightSibling(t, v))

Merges(t, v) ==
  /\ Len(Items(t, v)) < MinItems
  /\ Parent(t, v) # NULL_NODE
  /\ ~CanLend(t, LeftSibling(t, v))
  /\ ~CanLend(t, RightSibling(t, v))

(* A call of solveUnderflow for the node call.at.                          *)
Underflow(call) ==
  LET t      == call.tree
      v      == call.at
      merged == MergeSibling(t, v)
  IN  IF v = NULL_NODE THEN call
      ELSE IF ~Merges(t, v) THEN [tree |-> LastUnderflow(t, v), at |-> NULL_NODE]
      ELSE [tree |-> merged,
            at |-> IF merged.status = "ok" THEN Parent(t, v) ELSE NULL_NODE]

SolveUnderflow(t, v) ==
  LET call[n \in 0 .. Calls(t)] ==
        IF n = 0 THEN [tree |-> t, at |-> v] ELSE Underflow(call[n - 1])
  IN  call[Calls(t)].tree

(* remove returns false for an entry that search does not find.            *)
RemoveFrom(t, e) ==
  IF ~Found(t, e) THEN t
  ELSE LET v == Hot(t, e)
           u == SolveUnderflow(
                  [t EXCEPT !.node[v].items = RemoveAt(@, LeafRank(@, e))], v)
       IN  IF u.status = "ok" THEN [u EXCEPT !.entryNum = @ - 1] ELSE u

(***************************************************************************)
(* The specification: the table's entries come and go, and the index is    *)
(* told.  Whatever InsertEntry and DeleteEntry answer, the record itself   *)
(* has been inserted or deleted.                                           *)
(***************************************************************************)

(* A split on each level and a new root would fit under the bound MaxNode.  *)
RoomToInsert == tree.pageNum + Height(tree)[tree.root] <= MaxNode

InsertEntry(e) ==
  /\ tree.status = "ok"
  /\ RoomToInsert
  /\ e \in Entries \ rows
  /\ tree' = InsertInto(tree, e)
  /\ rows' = rows \cup {e}

DeleteEntry(e) ==
  /\ tree.status = "ok"
  /\ e \in rows
  /\ tree' = RemoveFrom(tree, e)
  /\ rows' = rows \ {e}

Next == \E e \in Entries : InsertEntry(e) \/ DeleteEntry(e)

Spec == Init /\ [][Next]_vars

(* CREATE INDEX on a filled table, and tables that only grow.              *)
NextGrowing == \E e \in Entries : InsertEntry(e)

SpecGrowing == Init /\ [][NextGrowing]_vars

(***************************************************************************)
(* Properties                                                              *)
(***************************************************************************)

Running == tree.status = "ok"

(* Each page with the pages below it.                                      *)
NodesBelow(t) ==
  LET below[v \in Pages] == {v} \cup UNION {below[c] : c \in ToSet(Childs(t, v))}
  IN  below

NodesOf(t) == NodesBelow(t)[t.root]

LeavesOf(t) == {v \in NodesOf(t) : t.node[v].leaf}

(* The leftmost and the rightmost leaf below each page.                    *)
LeftmostLeaf(t) == LeafBelow(t, [v \in Pages |-> Childs(t, v)[1]])
RightmostLeaf(t) == LeafBelow(t, [v \in Pages |-> Childs(t, v)[Len(Childs(t, v))]])

(* The places of the leaves' items, and the items.                         *)
Slots(t) == {s \in LeavesOf(t) \X (1 .. EntryLimit) : s[2] \in DOMAIN Items(t, s[1])}
Held(t) == {Items(t, s[1])[s[2]] : s \in Slots(t)}

(* Pages that are not nodes, and the first of them behind p.               *)
FreePages == (1 .. tree.pageNum - 1) \ NodesOf(tree)
FreeAfter(p) == Min({q \in FreePages \cup {tree.pageNum} : q > p})

(* The header's fields name pages of the file, or the page created next.   *)
TypeOK ==
  /\ tree.pageNum \in 2 .. MaxNode + 1
  /\ tree.nextFree \in 1 .. tree.pageNum
  /\ tree.root \in 1 .. tree.pageNum - 1
  /\ tree.right \in 1 .. tree.pageNum - 1
  /\ tree.entryNum \in Nat
  /\ tree.status \in {"ok", "hung", "aborted"}
  /\ rows \subseteq Entries
  /\ \A p \in Pages :
       /\ tree.node[p].items \in Seq(Entries)
       /\ tree.node[p].childs \in Seq(1 .. tree.pageNum - 1)
       /\ {tree.node[p].parent, tree.node[p].left, tree.node[p].right}
            \subseteq 0 .. tree.pageNum - 1
       /\ tree.node[p].next_free \in 0 .. tree.pageNum

(* Every page of the file is either a node of the tree or on the free      *)
(* list, which is in order: it leads from each page that is no node to the *)
(* next.  What splits take and merges give back is neither lost nor used   *)
(* twice.                                                                  *)
PagesAccounted ==
  Running =>
    /\ NodesOf(tree) \subseteq 1 .. tree.pageNum - 1
    /\ tree.nextFree = FreeAfter(0)
    /\ \A p \in FreePages : tree.node[p].next_free = FreeAfter(p)

(* The links of the leaves, which a scan follows, and the header's pointer *)
(* to the first of them agree with the tree that searches go down: they    *)
(* start at the leftmost leaf and end at the rightmost, and join the last  *)
(* leaf below a child and the first leaf below the next, both ways.        *)
LeafChainMatchesTree ==
  Running =>
    LET first == LeftmostLeaf(tree)
        last  == RightmostLeaf(tree)
    IN  /\ tree.right = first[tree.root]
        /\ tree.node[first[tree.root]].left = NULL_NODE
        /\ tree.node[last[tree.root]].right = NULL_NODE
        /\ \A v \in NodesOf(tree) : \A i \in 1 .. Len(Childs(tree, v)) - 1 :
             LET a == last[Childs(tree, v)[i]]
                 b == first[Childs(tree, v)[i + 1]]
             IN  tree.node[a].right = b /\ tree.node[b].left = a

(* summary.md:42: all leaves have the same height; every node but the root *)
(* is at least half full, none holds more than a page can, an inner node   *)
(* has an item for each child, and a child knows its parent.               *)
Balanced ==
  Running =>
    LET height == Height(tree) IN
    \A v \in NodesOf(tree) :
      /\ Len(Items(tree, v)) <= EntryLimit
      /\ v # tree.root => Len(Items(tree, v)) >= MinItems
      /\ v = tree.root => Parent(tree, v) = NULL_NODE
      /\ tree.node[v].leaf <=> Childs(tree, v) = <<>>
      /\ ~tree.node[v].leaf =>
           /\ Len(Childs(tree, v)) = Len(Items(tree, v))
           /\ \A i \in DOMAIN Childs(tree, v) :
                /\ Parent(tree, Childs(tree, v)[i]) = v
                /\ height[Childs(tree, v)[i]] = height[Childs(tree, v)[1]]

(* No entry of a record falls out of the leaves, through any splits,       *)
(* borrows and merges, and the header counts what the leaves hold.         *)
LeavesHoldRows ==
  Running => rows \subseteq Held(tree) /\ tree.entryNum = Cardinality(Slots(tree))

(* A search finds the entry of every record.                               *)
RowsFound == Running => \A e \in rows : Found(tree, e)

(* The leaves hold the entries in order, each once: a scan, which goes on  *)
(* from an entry to the greater ones, returns each entry once.             *)
LeavesInOrder ==
  Running => \A v \in LeavesOf(tree) :
    LET items == Items(tree, v)
        next  == tree.node[v].right
    IN  /\ \A i \in 1 .. Len(items) - 1 : items[i] < items[i + 1]
        /\ next # NULL_NODE => \A e \in ToSet(items), f \in ToSet(Items(tree, next)) : e < f

(* indexing.h:4, summary.md:46: an item of an inner node is the least      *)
(* entry below its child.                                                  *)
ItemsAreLeast ==
  Running =>
    \A v \in NodesOf(tree) : \A i \in DOMAIN Childs(tree, v) :
      Items(tree, v)[i] = Items(tree, LeftmostLeaf(tree)[Childs(tree, v)[i]])[1]

(* assert(updateParent(...) < 0) in solveUnderflow (indexing.cpp:456, 480) *)
(* says that a merge never lowers the parent's item.                       *)
MergesKeepItems == tree.status # "aborted"

(* Every operation comes to an end.                                        *)
OperationsReturn == tree.status # "hung"

=============================================================================
