-------------------------- MODULE BTreeSteps_proofs --------------------------
(***************************************************************************)
(* What solveOverflow and solveUnderflow do to an index file: each of      *)
(* their calls leaves a good tree with the same entries, of which one      *)
(* node, a level higher, may have an item too many or too few, and while   *)
(* entries are only inserted also the order of the entries.                *)
(***************************************************************************)
EXTENDS BTreeShape_proofs

(* The list is the same when its links are.                                *)
LEMMA FreeListKept ==
  ASSUME NEW t, NEW t2, NEW N, FreeList(t, N),
         t2.pageNum = t.pageNum, t2.nextFree = t.nextFree,
         \A x \in Pages \ N : NextFree(t2, x) = NextFree(t, x)
  PROVE  FreeList(t2, N)
<1>1. Unused(t2, N) = Unused(t, N) BY DEF Unused
<1>2. Unused(t, N) \subseteq Pages \ N BY MaxNodeAssumption DEF Unused, FreeList, Pages
<1> QED BY <1>1, <1>2 DEF FreeList

(* ts is t with the upper half of v in the page u, not yet a child.        *)
SplitOf(t, ts, N, v, u) ==
  /\ ts \in Trees
  /\ ts.root = t.root /\ ts.right = t.right
  /\ FreeList(ts, N \cup {u}) /\ Blank(ts, N \cup {u})
  /\ Halved(t, ts, v, u)
  /\ Inserted(t, ts, v, u)
  /\ \A x \in Pages \ {u} :
       (\A j \in Staying(t, v) + 1 .. Kids(t, v) : Kid(t, v, j) # x) => Parent(ts, x) = Parent(t, x)
  /\ \A x \in Pages \ {u, v} :
       Items(ts, x) = Items(t, x) /\ Childs(ts, x) = Childs(t, x) /\ Leaf(ts, x) = Leaf(t, x)

(* The nodes and the levels with a page u beside or above v.               *)
WithPage(N, u) == N \cup {u}

LevelWith(h, u, v) == [h EXCEPT ![u] = h[v]]

LevelAbove(h, q, v) == [h EXCEPT ![q] = h[v] + 1]

(* v and u side by side below p.                                           *)
Linking(t, ts, N, h, nx, pv, v, u, p, r, t2) ==
  /\ Frame(t, N, h, nx, pv) /\ SplitOf(t, ts, N, v, u)
  /\ v \in N /\ u \in Pages \ N /\ p \in N
  /\ Size(t, v) = EntryLimit + 1 /\ LeafSize(t, u) = 0
  /\ p = Parent(t, v) /\ r \in 1 .. Kids(t, p) /\ Kid(t, p, r) = v /\ r = Rank(t, v, p)
  /\ t2 = LinkSibling(ts, v, u)

(* What the split does to the children and the items.                      *)
SplitMade(t, t2, N, v, u, p, r) ==
  /\ Parted(t, t2, v, u, p, r, Staying(t, v))
  /\ Size(t2, v) = MinItems /\ Size(t2, u) = EntryLimit + 1 - MinItems
  /\ \A i \in 1 .. MinItems : Item(t2, v, i) = Item(t, v, i)
  /\ \A i \in 1 .. EntryLimit + 1 - MinItems : Item(t2, u, i) = Item(t, v, MinItems + i)
  /\ \A i \in 1 .. Kids(t, p) + 1 :
       Item(t2, p, i) = IF i <= r THEN Item(t, p, i)
                        ELSE IF i = r + 1 THEN Item(t, v, MinItems + 1) ELSE Item(t, p, i - 1)
  /\ \A x \in N \ {v, p} : Size(t2, x) = Size(t, x) /\ \A i : Item(t2, x, i) = Item(t, x, i)

(* A split and the link to the parent leave a good tree with the same      *)
(* entries.                                                                *)
LEMMA LinkedSplit ==
  ASSUME NEW t, NEW ts, NEW N, NEW h, NEW nx, NEW pv, NEW v, NEW u, NEW p, NEW r, NEW t2,
         Linking(t, ts, N, h, nx, pv, v, u, p, r, t2)
  PROVE  /\ Good(t2, WithPage(N, u), LevelWith(h, u, v), NextWith(nx, v, u), PrevWith(nx, pv, v, u))
         /\ t2.root = t.root /\ t2.pageNum = ts.pageNum /\ t2.entryNum = ts.entryNum /\ t2.status = ts.status
         /\ MovedItems(t, t2, v, u)
         /\ Size(t2, v) = MinItems /\ Size(t2, u) = EntryLimit + 1 - MinItems /\ Size(t2, p) = Size(t, p) + 1
         /\ \A x \in N \ {v, p} : Size(t2, x) = Size(t, x)
         /\ \A x \in N : Leaf(t2, x) = Leaf(t, x)
         /\ h[p] = h[v] + 1
         /\ SplitMade(t, t2, N, v, u, p, r)
<1>0. /\ Frame(t, N, h, nx, pv) /\ SplitOf(t, ts, N, v, u)
      /\ v \in N /\ u \in Pages \ N /\ p \in N
      /\ Size(t, v) = EntryLimit + 1 /\ LeafSize(t, u) = 0
      /\ p = Parent(t, v) /\ r \in 1 .. Kids(t, p) /\ Kid(t, p, r) = v /\ r = Rank(t, v, p)
      /\ t2 = LinkSibling(ts, v, u)
  BY DEF Linking
<1> USE <1>0
<1>f. Shape(t, N, h) /\ Links(t, N, h, nx, pv) /\ LeafLinks(t, N, nx, pv) /\ Matched(t, N) BY DEF Frame
<1>s. /\ N \subseteq Pages /\ 0 \notin Pages
      /\ \A x \in Pages : Kids(t, x) \in Nat
      /\ \A x \in N : \A i \in 1 .. Kids(t, x) : Kid(t, x, i) \in N /\ Parent(t, Kid(t, x, i)) = x
      /\ h \in [Pages -> Nat]
      /\ \A x \in N : \A i \in 1 .. Kids(t, x) : h[x] = h[Kid(t, x, i)] + 1
  BY <1>f, ShapeFacts
<1>o. /\ ts \in Trees
      /\ ts.root = t.root /\ ts.right = t.right
      /\ FreeList(ts, N \cup {u}) /\ Blank(ts, N \cup {u})
      /\ \A x \in Pages \ {u} :
           (\A j \in Staying(t, v) + 1 .. Kids(t, v) : Kid(t, v, j) # x) => Parent(ts, x) = Parent(t, x)
      /\ \A x \in Pages \ {u, v} :
           Items(ts, x) = Items(t, x) /\ Childs(ts, x) = Childs(t, x) /\ Leaf(ts, x) = Leaf(t, x)
  BY DEF SplitOf
<1>h. /\ Kids(ts, v) = Staying(t, v)
      /\ \A i \in 1 .. Staying(t, v) : Kid(ts, v, i) = Kid(t, v, i)
      /\ Kids(ts, u) = Kids(t, v) - Staying(t, v)
      /\ \A i \in 1 .. Kids(t, v) - Staying(t, v) : Kid(ts, u, i) = Kid(t, v, Staying(t, v) + i)
      /\ \A j \in Staying(t, v) + 1 .. Kids(t, v) : Parent(ts, Kid(t, v, j)) = u
      /\ Size(ts, v) = MinItems
      /\ \A i \in 1 .. MinItems : Item(ts, v, i) = Item(t, v, i)
      /\ Size(ts, u) = Size(t, v) - MinItems
      /\ \A i \in 1 .. Size(t, v) - MinItems : Item(ts, u, i) = Item(t, v, MinItems + i)
      /\ Leaf(ts, v) = Leaf(t, v)
      /\ Leaf(ts, u) = Leaf(t, v)
  BY DEF SplitOf, Halved
<1>i. /\ Leaf(t, v) => Right(ts, v) = u /\ Left(ts, u) = v /\ Right(ts, u) = Right(t, v)
      /\ ~Leaf(t, v) => Right(ts, v) = Right(t, v) /\ Left(ts, u) = 0 /\ Right(ts, u) = 0
      /\ Left(ts, v) = Left(t, v)
      /\ \A x \in Pages \ {v, u} :
           /\ Right(ts, x) = Right(t, x)
           /\ Left(ts, x) = IF Leaf(t, v) /\ x = Right(t, v) THEN u ELSE Left(t, x)
  BY DEF SplitOf, Inserted
<1>m. MinItems \in Nat /\ MinItems >= 2 /\ EntryLimit \in Nat /\ MinItems < EntryLimit
  BY MinItemsIs, EntryLimitAssumption
<1>l. \A x \in N : /\ Leaf(t, x) <=> Kids(t, x) = 0
                   /\ ~Leaf(t, x) => Size(t, x) = Kids(t, x)
  BY <1>f DEF Matched
<1>y. Staying(t, v) = (IF Kids(t, v) = 0 THEN 0 ELSE MinItems) BY DEF Staying
<1>p. h[p] = h[v] + 1 BY <1>s
<1>v. v \in Pages /\ u \in Pages /\ p \in Pages /\ v # u /\ p # u /\ p # v /\ h[v] \in Nat BY <1>s, <1>p
<1>k. Kids(t, p) \in Nat /\ Kids(t, p) # 0 /\ ~Leaf(t, p) /\ Size(t, p) = Kids(t, p) /\ Kids(t, v) \in Nat
      /\ ~Leaf(ts, p)
  BY <1>s, <1>v, <1>l, <1>o
<1> HIDE DEF Kids, Kid, Size, Item, Leaf, Left, Right, Parent, Staying
\* The parent before the step.
<1>1. Parent(ts, v) = p
  <2>1. ASSUME NEW j \in Staying(t, v) + 1 .. Kids(t, v) PROVE Kid(t, v, j) # v
    <3>1. j \in 1 .. Kids(t, v) BY <1>y, <1>k, <1>m
    <3>2. h[v] = h[Kid(t, v, j)] + 1 BY <3>1, <1>s
    <3> QED BY <3>2, <1>v
  <2> QED BY <2>1, <1>o, <1>v
<1>2. Kids(ts, p) = Kids(t, p) /\ Size(ts, p) = Size(t, p) /\ Childs(ts, p) = Childs(t, p)
      /\ \A i : Kid(ts, p, i) = Kid(t, p, i) /\ Item(ts, p, i) = Item(t, p, i)
  BY <1>o, <1>v DEF Kids, Size, Kid, Item
<1>3. r = Rank(ts, v, p) BY <1>2 DEF Rank
<1>4. Size(ts, u) >= 1 BY <1>h, <1>m
<1>5. /\ t2 \in Trees /\ SameHead(ts, t2) /\ t2.status = ts.status
      /\ Linked(ts, t2, v, u, p, r)
      /\ \A x \in Pages : KeepsLinks(ts, t2, x) /\ Parent(t2, x) = IF x = u THEN p ELSE Parent(ts, x)
      /\ \A x \in Pages \ {p} : KeepsLists(ts, t2, x)
      /\ \A x \in Pages \ {p, u} : t2.node[x] = ts.node[x]
  <2>1. CanLink(ts, v, u, p, r) BY <1>1, <1>2, <1>3, <1>4, <1>k, <1>v, <1>o DEF CanLink
  <2> QED BY <2>1, LinkSiblingIs
<1>6. Parent(t2, u) = p BY <1>5, <1>v
<1>7. \A x \in Pages : /\ Leaf(t2, x) = Leaf(ts, x) /\ Left(t2, x) = Left(ts, x)
                       /\ Right(t2, x) = Right(ts, x) /\ NextFree(t2, x) = NextFree(ts, x)
                       /\ x # u => Parent(t2, x) = Parent(ts, x)
                       /\ x # p => Items(t2, x) = Items(ts, x) /\ Childs(t2, x) = Childs(ts, x)
  BY <1>5 DEF KeepsLinks, KeepsLists
<1>8. \A x \in Pages \ {p} : /\ Size(t2, x) = Size(ts, x) /\ Kids(t2, x) = Kids(ts, x)
                             /\ \A i : Kid(t2, x, i) = Kid(ts, x, i) /\ Item(t2, x, i) = Item(ts, x, i)
  BY <1>7 DEF Size, Kids, Kid, Item
<1>9. \A x \in Pages \ {u, v} : /\ Size(ts, x) = Size(t, x) /\ Kids(ts, x) = Kids(t, x)
                                /\ \A i : Kid(ts, x, i) = Kid(t, x, i) /\ Item(ts, x, i) = Item(t, x, i)
  BY <1>o DEF Size, Kids, Kid, Item
<1>e. /\ Kids(t2, p) = Kids(t, p) + 1
      /\ \A i \in 1 .. r : Kid(t2, p, i) = Kid(t, p, i)
      /\ Kid(t2, p, r + 1) = u
      /\ \A i \in r + 2 .. Kids(t, p) + 1 : Kid(t2, p, i) = Kid(t, p, i - 1)
      /\ Size(t2, p) = Size(t, p) + 1
  BY <1>5, <1>2 DEF Linked
<1>hd. t2.root = t.root /\ t2.right = t.right /\ t2.pageNum = ts.pageNum /\ t2.nextFree = ts.nextFree
       /\ t2.entryNum = ts.entryNum
  BY <1>5, <1>o DEF SameHead
<1>10. Parted(t, t2, v, u, p, r, Staying(t, v))
  <2>1. Kids(t2, v) = Staying(t, v) /\ \A i \in 1 .. Staying(t, v) : Kid(t2, v, i) = Kid(t, v, i)
    BY <1>8, <1>h, <1>v
  <2>2. /\ Kids(t2, u) = Kids(t, v) - Staying(t, v)
        /\ \A i \in 1 .. Kids(t, v) - Staying(t, v) : Kid(t2, u, i) = Kid(t, v, Staying(t, v) + i)
    BY <1>8, <1>h, <1>v
  <2>3. \A x \in Pages \ {v, u, p} : Kids(t2, x) = Kids(t, x) /\ \A i \in 1 .. Kids(t, x) : Kid(t2, x, i) = Kid(t, x, i)
    BY <1>8, <1>9
  <2>4. \A j \in Staying(t, v) + 1 .. Kids(t, v) : Parent(t2, Kid(t, v, j)) = u
    <3>1. ASSUME NEW j \in Staying(t, v) + 1 .. Kids(t, v) PROVE Parent(t2, Kid(t, v, j)) = u
      <4>1. j \in 1 .. Kids(t, v) BY <1>y, <1>k, <1>m
      <4>2. Kid(t, v, j) \in Pages /\ Kid(t, v, j) # u BY <4>1, <1>s
      <4> QED BY <4>2, <1>7, <1>h
    <3> QED BY <3>1
  <2>5. \A x \in Pages \ {u} :
       (\A j \in Staying(t, v) + 1 .. Kids(t, v) : Kid(t, v, j) # x) => Parent(t2, x) = Parent(t, x)
    BY <1>7, <1>o
  <2> QED BY <2>1, <2>2, <2>3, <2>4, <2>5, <1>e, <1>6, <1>hd DEF Parted
<1>11. PartedItems(t, t2, v, u, p)
  <2>1. Inserted(t, t2, v, u) BY <1>i, <1>7, <1>v DEF Inserted
  <2>2. Leaf(t2, v) = Leaf(t, v) /\ Leaf(t2, u) = Leaf(t, v) BY <1>7, <1>h, <1>v
  <2>3. Size(t2, v) = MinItems /\ Size(t2, u) = Size(t, v) - MinItems BY <1>8, <1>h, <1>v
  <2>4. \A x \in Pages \ {v, u} : Leaf(t2, x) = Leaf(t, x) BY <1>7, <1>o
  <2>5. \A x \in Pages \ {v, u, p} : Size(t2, x) = Size(t, x) BY <1>8, <1>9
  <2> QED BY <2>1, <2>2, <2>3, <2>4, <2>5, <1>e, <1>hd DEF PartedItems
<1>12. Kids(t, v) # 0 => Kids(t, v) > MinItems BY <1>l, <1>m
<1>13. Frame(t2, N \cup {u}, [h EXCEPT ![u] = h[v]], NextWith(nx, v, u), PrevWith(nx, pv, v, u))
  BY <1>10, <1>11, <1>12, PartedFrame
<1>14. FreeList(t2, N \cup {u}) BY <1>o, <1>hd, <1>7, FreeListKept
<1>15. Blank(t2, N \cup {u})
  <2>1. \A x \in Pages \ (N \cup {u}) : t2.node[x] = ts.node[x] BY <1>5
  <2> QED BY <2>1, <1>o, <1>7, <1>hd DEF Blank
<1>16. Good(t2, N \cup {u}, [h EXCEPT ![u] = h[v]], NextWith(nx, v, u), PrevWith(nx, pv, v, u))
  BY <1>13, <1>14, <1>15, <1>5 DEF Good, Frame
<1>20. Size(t2, v) = MinItems /\ Size(t2, u) = EntryLimit + 1 - MinItems BY <1>8, <1>h, <1>v, <1>m
<1>17. MovedItems(t, t2, v, u)
  <2>1. ASSUME NEW x \in Pages \ {v, u}
        PROVE  /\ LeafSize(t2, x) = LeafSize(t, x)
               /\ \A i \in 1 .. LeafSize(t, x) : Item(t2, x, i) = Item(t, x, i)
    <3>1. CASE x = p
      <4>1. LeafSize(t2, x) = 0 /\ LeafSize(t, x) = 0 BY <3>1, <1>k, <1>7, <1>v DEF LeafSize
      <4>2. 1 .. LeafSize(t, x) = {} BY <4>1
      <4> QED BY <4>1, <4>2
    <3>2. CASE x # p
      <4>1. Leaf(t2, x) = Leaf(t, x) BY <1>7, <1>o
      <4> QED BY <3>2, <4>1, <1>8, <1>9 DEF LeafSize
    <3> QED BY <3>1, <3>2
  <2>2. CASE Leaf(t, v)
    <3>1. LeafSize(t, v) = EntryLimit + 1 /\ LeafSize(t2, v) = MinItems BY <2>2, <1>8, <1>h, <1>7, <1>v DEF LeafSize
    <3>5. Leaf(t2, u) /\ Size(t2, u) = EntryLimit + 1 - MinItems BY <2>2, <1>20, <1>h, <1>7, <1>v
    <3>2. LeafSize(t2, u) = EntryLimit + 1 - MinItems BY <3>5 DEF LeafSize
    <3>3. LeafSize(t2, v) + LeafSize(t2, u) = LeafSize(t, v) + LeafSize(t, u) BY <3>1, <3>2, <1>m
    <3>4. ASSUME NEW i \in 1 .. LeafSize(t, v) + LeafSize(t, u) PROVE Row(t2, v, u, i) = Row(t, v, u, i)
      <4>1. i \in 1 .. EntryLimit + 1 BY <3>1, <1>m
      <4>2. Row(t, v, u, i) = Item(t, v, i) BY <4>1, <3>1, <1>m DEF Row
      <4>3. CASE i <= MinItems
        <5>1. i \in 1 .. MinItems BY <4>3, <4>1, <1>m
        <5>2. Row(t2, v, u, i) = Item(t2, v, i) BY <4>3, <3>1 DEF Row
        <5> QED BY <5>1, <5>2, <4>2, <1>8, <1>h, <1>v
      <4>4. CASE ~(i <= MinItems)
        <5>1. i - MinItems \in 1 .. Size(t, v) - MinItems /\ MinItems + (i - MinItems) = i BY <4>4, <4>1, <1>m
        <5>2. Row(t2, v, u, i) = Item(t2, u, i - MinItems) BY <4>4, <3>1 DEF Row
        <5>3. Item(t2, u, i - MinItems) = Item(ts, u, i - MinItems) BY <1>8, <1>v
        <5>4. Item(ts, u, i - MinItems) = Item(t, v, MinItems + (i - MinItems)) BY <5>1, <1>h
        <5> QED BY <5>1, <5>2, <5>3, <5>4, <4>2
      <4> QED BY <4>3, <4>4
    <3> QED BY <2>1, <3>3, <3>4, <1>v DEF MovedItems
  <2>3. CASE ~Leaf(t, v)
    <3>1. LeafSize(t, v) = 0 /\ LeafSize(t2, v) = 0 /\ LeafSize(t2, u) = 0 BY <2>3, <1>h, <1>7, <1>v DEF LeafSize
    <3>2. 1 .. LeafSize(t, v) + LeafSize(t, u) = {} BY <3>1
    <3> QED BY <2>1, <3>1, <3>2, <1>v DEF MovedItems
  <2> QED BY <2>2, <2>3
<1>21. t2.status = ts.status BY <1>5
<1>18. \A x \in N \ {v, p} : Size(t2, x) = Size(t, x) BY <1>8, <1>9, <1>s
<1>19. \A x \in N : Leaf(t2, x) = Leaf(t, x) BY <1>7, <1>o, <1>h, <1>s
<1>22. Good(t2, WithPage(N, u), LevelWith(h, u, v), NextWith(nx, v, u), PrevWith(nx, pv, v, u))
  BY <1>16 DEF WithPage, LevelWith
<1>23. SplitMade(t, t2, N, v, u, p, r)
  <2>1. \A i \in 1 .. MinItems : Item(t2, v, i) = Item(t, v, i) BY <1>8, <1>h, <1>v
  <2>2. \A i \in 1 .. EntryLimit + 1 - MinItems : Item(t2, u, i) = Item(t, v, MinItems + i)
    <3>1. \A i : Item(t2, u, i) = Item(ts, u, i) BY <1>8, <1>v
    <3>2. \A i \in 1 .. Size(t, v) - MinItems : Item(ts, u, i) = Item(t, v, MinItems + i) BY <1>h
    <3>3. Size(t, v) = EntryLimit + 1 OBVIOUS
    <3>4. ASSUME NEW i \in 1 .. EntryLimit + 1 - MinItems PROVE Item(ts, u, i) = Item(t, v, MinItems + i)
      <4>1. i \in 1 .. Size(t, v) - MinItems
        <5>1. i \in 1 .. EntryLimit + 1 - MinItems OBVIOUS
        <5> QED BY ONLY <5>1, <3>3, <1>m
      <4> QED BY ONLY <4>1, <3>2
    <3> QED BY <3>1, <3>4
  <2>3. Item(ts, u, 1) = Item(t, v, MinItems + 1)
    <3>1. 1 \in 1 .. Size(t, v) - MinItems BY <1>m
    <3> QED BY <3>1, <1>h
  <2>4. \A i \in 1 .. Size(ts, p) + 1 :
          Item(t2, p, i) = IF i <= r THEN Item(ts, p, i)
                           ELSE IF i = r + 1 THEN Item(ts, u, 1) ELSE Item(ts, p, i - 1)
    BY <1>5 DEF Linked
  <2>5. \A i \in 1 .. Kids(t, p) + 1 :
          Item(t2, p, i) = IF i <= r THEN Item(t, p, i)
                           ELSE IF i = r + 1 THEN Item(t, v, MinItems + 1) ELSE Item(t, p, i - 1)
    <3>1. Size(ts, p) = Kids(t, p) BY <1>2, <1>k
    <3>2. \A i : Item(ts, p, i) = Item(t, p, i) BY <1>2
    <3> QED BY <2>3, <2>4, <3>1, <3>2
  <2>6. \A x \in N \ {v, p} : \A i : Item(t2, x, i) = Item(t, x, i) BY <1>8, <1>9, <1>s
  <2> QED BY <2>1, <2>2, <2>5, <2>6, <1>10, <1>18, <1>20 DEF SplitMade
<1> QED BY <1>22, <1>17, <1>18, <1>19, <1>20, <1>23, <1>e, <1>hd, <1>21, <1>p

(* The sizes of the nodes, while v may have an item too many.              *)
OverSized(t, N, v) ==
  /\ \A x \in N : Size(t, x) <= IF x = v THEN EntryLimit + 1 ELSE EntryLimit
  /\ \A x \in N \ {t.root} : Size(t, x) >= MinItems
  /\ ~Leaf(t, t.root) => Size(t, t.root) >= 2

(* A page that is no node has nothing.                                     *)
LEMMA BlankIs ==
  ASSUME NEW t \in Trees, NEW N, Blank(t, N), NEW x \in Pages \ N
  PROVE  /\ ~Leaf(t, x) /\ Kids(t, x) = 0 /\ Size(t, x) = 0 /\ Parent(t, x) = 0
         /\ Left(t, x) = 0 /\ Right(t, x) = 0 /\ LeafSize(t, x) = 0
<1>1. t.node[x] = [EmptyNode EXCEPT !.next_free = NextFree(t, x)] BY DEF Blank
<1>2. /\ ~Leaf(t, x) /\ Kids(t, x) = 0 /\ Size(t, x) = 0 /\ Parent(t, x) = 0
      /\ Left(t, x) = 0 /\ Right(t, x) = 0
  BY <1>1, EmptyNodeIs
<1> QED BY <1>2 DEF LeafSize

(* A split below the root.                                                 *)
LEMMA SplitBelow ==
  ASSUME NEW t, NEW N, NEW h, NEW nx, NEW pv, Good(t, N, h, nx, pv),
         NEW v \in N, Size(t, v) = EntryLimit + 1, t.pageNum <= MaxNode
  PROVE  LET ts == Split(t, v)
             u  == t.nextFree
         IN
         /\ u \in Pages \ N /\ LeafSize(t, u) = 0
         /\ SplitOf(t, ts, N, v, u)
         /\ Parent(ts, v) = Parent(t, v)
         /\ t.pageNum <= ts.pageNum /\ ts.pageNum <= t.pageNum + 1
         /\ ts.entryNum = t.entryNum /\ ts.status = t.status
<1>0. LET t2 == Split(t, v)
           u  == t.nextFree
       IN
       /\ t2 \in Trees
       /\ u \in Pages \ N /\ u # Right(t, v)
       /\ FreeList(t2, N \cup {u})
       /\ t.pageNum <= t2.pageNum /\ t2.pageNum <= t.pageNum + 1
       /\ t2.root = t.root /\ t2.right = t.right
       /\ t2.entryNum = t.entryNum /\ t2.status = t.status
       /\ Halved(t, t2, v, u)
       /\ Inserted(t, t2, v, u)
       /\ Parent(t2, u) = 0
       /\ NextFree(t2, u) = 0
       /\ \A x \in Pages \ {u} :
            /\ (\A j \in Staying(t, v) + 1 .. Kids(t, v) : Kid(t, v, j) # x) => Parent(t2, x) = Parent(t, x)
            /\ NextFree(t2, x) = NextFree(t, x)
       /\ \A x \in Pages \ {u, v} :
            /\ Items(t2, x) = Items(t, x) /\ Childs(t2, x) = Childs(t, x) /\ Leaf(t2, x) = Leaf(t, x)
       /\ \A x \in Pages \ (N \cup {u}) : t2.node[x] = t.node[x]
  BY SplitIs, Zenon
<1> DEFINE ts == Split(t, v)
           u  == t.nextFree
<1>g. t \in Trees /\ Shape(t, N, h) /\ Blank(t, N) BY DEF Good
<1>s. /\ N \subseteq Pages
      /\ \A x \in N : \A i \in 1 .. Kids(t, x) : Kid(t, x, i) \in N /\ Parent(t, Kid(t, x, i)) = x
      /\ \A x \in N : \A i \in 1 .. Kids(t, x) : h[x] = h[Kid(t, x, i)] + 1
      /\ h \in [Pages -> Nat] /\ Kids(t, v) \in Nat
  BY <1>g, ShapeFacts
<1>1. /\ ts \in Trees
      /\ u \in Pages \ N
      /\ FreeList(ts, N \cup {u})
      /\ t.pageNum <= ts.pageNum /\ ts.pageNum <= t.pageNum + 1
      /\ ts.root = t.root /\ ts.right = t.right
      /\ ts.entryNum = t.entryNum /\ ts.status = t.status
      /\ Halved(t, ts, v, u)
      /\ Inserted(t, ts, v, u)
      /\ NextFree(ts, u) = 0
      /\ \A x \in Pages \ {u} :
           /\ (\A j \in Staying(t, v) + 1 .. Kids(t, v) : Kid(t, v, j) # x) => Parent(ts, x) = Parent(t, x)
           /\ NextFree(ts, x) = NextFree(t, x)
      /\ \A x \in Pages \ {u, v} :
           /\ Items(ts, x) = Items(t, x) /\ Childs(ts, x) = Childs(t, x) /\ Leaf(ts, x) = Leaf(t, x)
      /\ \A x \in Pages \ (N \cup {u}) : ts.node[x] = t.node[x]
  BY <1>0
<1> HIDE DEF ts, u
<1>2. Blank(ts, N \cup {u})
  <2>a. ts \in Trees BY <1>1
  <2>1. t.pageNum \in Nat /\ ts.pageNum \in Nat BY <1>g, <2>a DEF Trees
  <2>2. \A x \in Pages : NextFree(t, x) <= t.pageNum /\ NextFree(t, x) \in Nat
    <3>1. \A x \in Pages : NextFree(t, x) \in Nat BY <1>g DEF Trees, TreeNodes, NextFree
    <3> QED BY <3>1, <1>g DEF Blank
  <2>3. \A x \in Pages : NextFree(ts, x) <= ts.pageNum
    <3>1. SUFFICES ASSUME NEW x \in Pages PROVE NextFree(ts, x) <= ts.pageNum OBVIOUS
    <3>2. CASE x = u BY <3>2, <1>1, <2>1
    <3>3. CASE x # u
      <4>1. NextFree(ts, x) = NextFree(t, x) BY <3>3, <1>1
      <4>2. NextFree(t, x) <= t.pageNum /\ NextFree(t, x) \in Nat BY <2>2
      <4>3. t.pageNum <= ts.pageNum BY <1>1
      <4> QED BY <4>1, <4>2, <4>3, <2>1
    <3> QED BY <3>2, <3>3
  <2>4. ASSUME NEW x \in Pages \ (N \cup {u})
        PROVE ts.node[x] = [EmptyNode EXCEPT !.next_free = NextFree(ts, x)]
    <3>1. ts.node[x] = t.node[x] /\ NextFree(ts, x) = NextFree(t, x) BY <1>1
    <3>2. t.node[x] = [EmptyNode EXCEPT !.next_free = NextFree(t, x)] BY <1>g DEF Blank
    <3> QED BY <3>1, <3>2
  <2> QED BY <2>3, <2>4 DEF Blank
<1>3. LeafSize(t, u) = 0 BY <1>g, <1>1, BlankIs
<1>4. SplitOf(t, ts, N, v, u) BY <1>1, <1>2 DEF SplitOf
<1>5. Parent(ts, v) = Parent(t, v)
  <2>1. \A j \in 1 .. Kids(t, v) : Kid(t, v, j) # v
    <3>1. SUFFICES ASSUME NEW j \in 1 .. Kids(t, v), Kid(t, v, j) = v PROVE FALSE OBVIOUS
    <3>2. h[v] = h[Kid(t, v, j)] + 1 BY <1>s
    <3>3. h[v] \in Nat BY <1>s
    <3> QED BY <3>1, <3>2, <3>3
  <2>2. Staying(t, v) \in Nat BY MinItemsIs DEF Staying
  <2>3. \A j \in Staying(t, v) + 1 .. Kids(t, v) : Kid(t, v, j) # v BY <2>1, <2>2, <1>s
  <2>4. v # u /\ v \in Pages BY <1>1, <1>s
  <2> QED BY <2>3, <2>4, <1>1
<1> QED BY <1>1, <1>3, <1>4, <1>5 DEF ts, u

(* The tree t with a root q above v, while v keeps its items.              *)
Raised(t, q, v, n) ==
  [t EXCEPT !.root = q, !.node = [t.node EXCEPT ![q] = n, ![v] = [t.node[v] EXCEPT !.parent = q]]]

(* What raising the root changes.                                          *)
LEMMA RaisedIs ==
  ASSUME NEW t \in Trees, NEW q \in Pages, NEW v \in Pages, q # v, NEW n \in TreeNodes
  PROVE  LET tb == Raised(t, q, v, n) IN
         /\ tb \in Trees /\ tb.root = q /\ tb.right = t.right
         /\ tb.pageNum = t.pageNum /\ tb.entryNum = t.entryNum /\ tb.status = t.status
         /\ tb.node[q] = n
         /\ tb.node[v] = [t.node[v] EXCEPT !.parent = q]
         /\ \A x \in Pages \ {q, v} : tb.node[x] = t.node[x]
<1>1. t.node \in [Pages -> TreeNodes] /\ t.node[v] \in TreeNodes BY DEF Trees
<1>3. q \in Nat BY DEF Pages
<1>2. [t.node[v] EXCEPT !.parent = q] \in TreeNodes BY <1>1, <1>3 DEF TreeNodes
<1> DEFINE nv == [t.node[v] EXCEPT !.parent = q]
           nodes == [t.node EXCEPT ![q] = n, ![v] = nv]
           tb == Raised(t, q, v, n)
<1>4. tb = [t EXCEPT !.root = q, !.node = nodes] BY DEF Raised
<1>5. nv \in TreeNodes BY <1>2
<1> HIDE DEF nv
<1>6. /\ nodes \in [Pages -> TreeNodes] /\ nodes[q] = n /\ nodes[v] = nv
      /\ \A x \in Pages \ {q, v} : nodes[x] = t.node[x]
  BY <1>1, <1>5
<1> HIDE DEF nodes, tb
<1>7. /\ tb \in Trees /\ tb.root = q /\ tb.right = t.right /\ tb.node = nodes
      /\ tb.pageNum = t.pageNum /\ tb.entryNum = t.entryNum /\ tb.status = t.status
  BY <1>4, <1>6, <1>3 DEF Trees
<1> QED BY <1>7, <1>6 DEF tb, nv

(* A root above v.                                                         *)
RootAbove(tb, q, v) ==
  /\ Size(tb, q) = 1 /\ Kids(tb, q) = 1 /\ Kid(tb, q, 1) = v
  /\ Parent(tb, q) = 0 /\ ~Leaf(tb, q) /\ Left(tb, q) = 0 /\ Right(tb, q) = 0

(* With a root above the old one, still a tree with the same entries.      *)
LEMMA RaisedFrame ==
  ASSUME NEW t, NEW N, NEW h, NEW nx, NEW pv, Good(t, N, h, nx, pv), NEW v \in N, t.root = v,
         NEW q \in Pages \ N, NEW tb \in Trees, tb.root = q, tb.right = t.right, RootAbove(tb, q, v),
         tb.node[v] = [t.node[v] EXCEPT !.parent = q],
         \A x \in Pages \ {q, v} : tb.node[x] = t.node[x]
  PROVE  /\ Frame(tb, WithPage(N, q), LevelAbove(h, q, v), GrownNext(nx, q), GrownNext(pv, q))
         /\ SameEntries(t, tb)
         /\ Rank(tb, v, q) = 1 /\ Parent(tb, v) = q
         /\ \A x \in Pages \ {q} : Size(tb, x) = Size(t, x) /\ Leaf(tb, x) = Leaf(t, x)
<1>g. /\ t \in Trees /\ Shape(t, N, h) /\ Links(t, N, h, nx, pv) /\ LeafLinks(t, N, nx, pv)
      /\ Matched(t, N) /\ Blank(t, N)
  BY DEF Good
<1>s. /\ N \subseteq Pages /\ 0 \notin Pages
      /\ \A x \in N : h[x] >= 1 /\ (Kids(t, x) = 0 => h[x] = 1)
      /\ h \in [Pages -> Nat] /\ Kids(t, v) \in Nat
  BY <1>g, ShapeFacts
<1>v. v \in Pages /\ v # q /\ q \in Pages BY <1>s
<1>q. /\ Size(tb, q) = 1 /\ Kids(tb, q) = 1 /\ Kid(tb, q, 1) = v
      /\ Parent(tb, q) = 0 /\ ~Leaf(tb, q) /\ Left(tb, q) = 0 /\ Right(tb, q) = 0
  BY DEF RootAbove
<1>1. /\ Childs(tb, v) = Childs(t, v) /\ Items(tb, v) = Items(t, v) /\ Leaf(tb, v) = Leaf(t, v)
      /\ Left(tb, v) = Left(t, v) /\ Right(tb, v) = Right(t, v) /\ Parent(tb, v) = q
  <2>1. t.node[v] \in TreeNodes BY <1>g, <1>v DEF Trees
  <2> QED BY <2>1 DEF TreeNodes, Childs, Items, Leaf, Left, Right, Parent
<1>2. \A x \in Pages \ {q, v} :
      /\ Childs(tb, x) = Childs(t, x) /\ Items(tb, x) = Items(t, x) /\ Leaf(tb, x) = Leaf(t, x)
      /\ Left(tb, x) = Left(t, x) /\ Right(tb, x) = Right(t, x) /\ Parent(tb, x) = Parent(t, x)
  BY DEF Childs, Items, Leaf, Left, Right, Parent
<1>3. \A x \in Pages \ {q} :
      /\ Childs(tb, x) = Childs(t, x) /\ Items(tb, x) = Items(t, x) /\ Leaf(tb, x) = Leaf(t, x)
      /\ Left(tb, x) = Left(t, x) /\ Right(tb, x) = Right(t, x)
  BY <1>1, <1>2
<1>4. \A x \in Pages \ {q} :
      /\ Kids(tb, x) = Kids(t, x) /\ \A i \in 1 .. Kids(t, x) : Kid(tb, x, i) = Kid(t, x, i)
      /\ Size(tb, x) = Size(t, x) /\ \A i \in 1 .. Size(t, x) : Item(tb, x, i) = Item(t, x, i)
  BY <1>3 DEF Kids, Kid, Size, Item
<1>5. Grown(t, tb, q, v) BY <1>4, <1>q, <1>1, <1>2 DEF Grown
<1> DEFINE N2 == N \cup {q}
           h2 == [h EXCEPT ![q] = h[v] + 1]
           n2 == GrownNext(nx, q)
           p2 == GrownNext(pv, q)
<1>6. Shape(tb, N2, h2) /\ Links(tb, N2, h2, n2, p2)
  <2>1. v = t.root OBVIOUS
  <2> QED BY <1>g, <1>5, <2>1, GrownTree
<1>7. \A x \in Pages \ {q} : n2[x] = nx[x] /\ p2[x] = pv[x] BY DEF GrownNext
<1>8. Matched(tb, N2)
  <2>1. ASSUME NEW x \in N2
        PROVE  /\ Leaf(tb, x) <=> Kids(tb, x) = 0
               /\ ~Leaf(tb, x) => Size(tb, x) = Kids(tb, x) /\ Left(tb, x) = 0 /\ Right(tb, x) = 0
    <3>1. CASE x = q BY <3>1, <1>q
    <3>2. CASE x # q
      <4>1. x \in N /\ x \in Pages \ {q} BY <3>2, <1>s
      <4>2. /\ Leaf(t, x) <=> Kids(t, x) = 0
            /\ ~Leaf(t, x) => Size(t, x) = Kids(t, x) /\ Left(t, x) = 0 /\ Right(t, x) = 0
        BY <4>1, <1>g DEF Matched
      <4> QED BY <4>1, <4>2, <1>3, <1>4
    <3> QED BY <3>1, <3>2
  <2> QED BY <2>1 DEF Matched
<1>9. LeafLinks(tb, N2, n2, p2)
  <2>3. ASSUME NEW x \in N2, Kids(tb, x) = 0
        PROVE  Right(tb, x) = n2[x] /\ Left(tb, x) = p2[x] /\ (p2[x] = 0 => tb.right = x)
    <3>1. x # q BY <2>3, <1>q
    <3>2. x \in N /\ x \in Pages \ {q} BY <3>1, <1>s
    <3>3. Kids(t, x) = 0 BY <3>2, <1>4, <2>3
    <3>4. Left(tb, x) = Left(t, x) /\ Right(tb, x) = Right(t, x) BY <3>2, <1>3
    <3>5. Right(t, x) = nx[x] /\ Left(t, x) = pv[x] /\ (pv[x] = 0 => t.right = x)
      BY <3>2, <3>3, <1>g DEF LeafLinks
    <3> QED BY <3>2, <3>4, <3>5, <1>7
  <2> QED BY <2>3 DEF LeafLinks
<1>10. Frame(tb, N2, h2, n2, p2) BY <1>6, <1>8, <1>9 DEF Frame
<1>11. SameEntries(t, tb)
  <2>1. ~Leaf(t, q) BY <1>g, <1>v, BlankIs
  <2>2. LeafSize(t, q) = 0 /\ LeafSize(tb, q) = 0 BY <2>1, <1>q DEF LeafSize
  <2>3. \A x \in Pages \ {q} : /\ LeafSize(tb, x) = LeafSize(t, x)
                               /\ \A i \in 1 .. LeafSize(t, x) : Item(tb, x, i) = Item(t, x, i)
    <3>1. SUFFICES ASSUME NEW x \in Pages \ {q}
                   PROVE /\ LeafSize(tb, x) = LeafSize(t, x)
                         /\ \A i \in 1 .. LeafSize(t, x) : Item(tb, x, i) = Item(t, x, i)
      OBVIOUS
    <3>2. CASE Leaf(t, x)
      <4>1. LeafSize(tb, x) = Size(t, x) /\ LeafSize(t, x) = Size(t, x) BY <3>2, <1>3, <1>4 DEF LeafSize
      <4> QED BY <4>1, <1>4
    <3>3. CASE ~Leaf(t, x)
      <4>1. LeafSize(tb, x) = 0 /\ LeafSize(t, x) = 0 BY <3>3, <1>3 DEF LeafSize
      <4> QED BY <4>1
    <3> QED BY <3>2, <3>3
  <2>4. \A x \in Pages : LeafSize(tb, x) = LeafSize(t, x)
                         /\ \A i \in 1 .. LeafSize(t, x) : Item(tb, x, i) = Item(t, x, i)
    BY <2>2, <2>3
  <2> QED BY <2>4, LeavesKept
<1>12. Rank(tb, v, q) = 1
  <2>1. q \in N2 /\ 1 \in 1 .. Kids(tb, q) /\ v = Kid(tb, q, 1) BY <1>q
  <2> HIDE DEF N2, h2
  <2> QED BY <2>1, <1>6, RankOf
<1>13. Frame(tb, WithPage(N, q), LevelAbove(h, q, v), GrownNext(nx, q), GrownNext(pv, q))
  BY <1>10 DEF WithPage, LevelAbove
<1> QED BY <1>13, <1>11, <1>12, <1>1, <1>3, <1>4

(* A split of the root v: u is the page of its upper half, q that of the   *)
(* new root.                                                               *)
LEMMA SplitRoot ==
  ASSUME NEW t, NEW N, NEW h, NEW nx, NEW pv, Good(t, N, h, nx, pv),
         NEW v \in N, t.root = v, Size(t, v) = EntryLimit + 1, t.pageNum + 1 <= MaxNode
  PROVE  LET t1 == Split(t, v)
             u  == t.nextFree
             q  == t1.nextFree
             ts == GrowRoot(t1, v)
             tb == Raised(t, q, v, ts.node[q])
             N2 == WithPage(N, q)
         IN
         /\ q \in Pages \ N /\ u \in Pages \ N2
         /\ tb \in Trees /\ tb.root = q
         /\ Frame(tb, N2, LevelAbove(h, q, v), GrownNext(nx, q), GrownNext(pv, q))
         /\ SplitOf(tb, ts, N2, v, u)
         /\ LeafSize(tb, u) = 0
         /\ SameEntries(t, tb)
         /\ Rank(tb, v, q) = 1 /\ Parent(tb, v) = q /\ Parent(ts, v) = q
         /\ RootAbove(tb, q, v)
         /\ \A x \in Pages \ {q} : Size(tb, x) = Size(t, x) /\ Leaf(tb, x) = Leaf(t, x)
         /\ t.pageNum <= ts.pageNum /\ ts.pageNum <= t.pageNum + 2
         /\ ts.entryNum = t.entryNum /\ ts.status = t.status
<1>p. t.pageNum \in Nat /\ t.pageNum <= MaxNode
  <2>1. t \in Trees BY DEF Good
  <2>2. t.pageNum \in Nat BY <2>1 DEF Trees
  <2> QED BY <2>2, MaxNodeAssumption
<1>0. LET t2 == Split(t, v)
               u  == t.nextFree
           IN
           /\ t2 \in Trees
           /\ u \in Pages \ N /\ u # Right(t, v)
           /\ FreeList(t2, N \cup {u})
           /\ t.pageNum <= t2.pageNum /\ t2.pageNum <= t.pageNum + 1
           /\ t2.root = t.root /\ t2.right = t.right
           /\ t2.entryNum = t.entryNum /\ t2.status = t.status
           /\ Halved(t, t2, v, u)
           /\ Inserted(t, t2, v, u)
           /\ Parent(t2, u) = 0
           /\ NextFree(t2, u) = 0
           /\ \A x \in Pages \ {u} :
                /\ (\A j \in Staying(t, v) + 1 .. Kids(t, v) : Kid(t, v, j) # x) => Parent(t2, x) = Parent(t, x)
                /\ NextFree(t2, x) = NextFree(t, x)
           /\ \A x \in Pages \ {u, v} :
                /\ Items(t2, x) = Items(t, x) /\ Childs(t2, x) = Childs(t, x) /\ Leaf(t2, x) = Leaf(t, x)
           /\ \A x \in Pages \ (N \cup {u}) : t2.node[x] = t.node[x]
  BY <1>p, SplitIs, Zenon
<1> DEFINE t1 == Split(t, v)
           u  == t.nextFree
<1>1. /\ t1 \in Trees
      /\ u \in Pages \ N /\ u # Right(t, v)
      /\ FreeList(t1, N \cup {u})
      /\ t.pageNum <= t1.pageNum /\ t1.pageNum <= t.pageNum + 1
      /\ t1.root = t.root /\ t1.right = t.right
      /\ t1.entryNum = t.entryNum /\ t1.status = t.status
      /\ Halved(t, t1, v, u)
      /\ Inserted(t, t1, v, u)
      /\ Parent(t1, u) = 0
      /\ NextFree(t1, u) = 0
      /\ \A x \in Pages \ {u} :
           /\ (\A j \in Staying(t, v) + 1 .. Kids(t, v) : Kid(t, v, j) # x) => Parent(t1, x) = Parent(t, x)
           /\ NextFree(t1, x) = NextFree(t, x)
      /\ \A x \in Pages \ {u, v} :
           /\ Items(t1, x) = Items(t, x) /\ Childs(t1, x) = Childs(t, x) /\ Leaf(t1, x) = Leaf(t, x)
      /\ \A x \in Pages \ (N \cup {u}) : t1.node[x] = t.node[x]
  BY <1>0
<1> HIDE DEF t1, u
<1>g. /\ t \in Trees /\ Shape(t, N, h) /\ Links(t, N, h, nx, pv) /\ LeafLinks(t, N, nx, pv)
      /\ Blank(t, N)
  BY DEF Good
<1>s. /\ N \subseteq Pages /\ 0 \notin Pages
      /\ \A x \in N : \A i \in 1 .. Kids(t, x) : Kid(t, x, i) \in N
      /\ \A x \in N : \A i \in 1 .. Kids(t, x) : h[x] = h[Kid(t, x, i)] + 1
      /\ h \in [Pages -> Nat] /\ Kids(t, v) \in Nat
  BY <1>g, ShapeFacts
<1>m. MinItems \in Nat /\ MinItems >= 2 /\ EntryLimit \in Nat BY MinItemsIs, EntryLimitAssumption
<1>2. /\ t1 \in Trees /\ FreeList(t1, N \cup {u}) /\ t1.pageNum <= MaxNode
      /\ v \in (N \cup {u}) \cap Pages /\ Size(t1, v) >= 1
  <2>1. t1.pageNum \in Nat BY <1>1 DEF Trees
  <2>2. t1.pageNum <= MaxNode BY <2>1, <1>1, <1>p, MaxNodeAssumption
  <2>3. Size(t1, v) = MinItems BY <1>1 DEF Halved
  <2> QED BY <2>2, <2>3, <1>1, <1>m, <1>s
<1>3. LET t2 == GrowRoot(t1, v)
          q  == t1.nextFree
      IN  /\ t2 \in Trees
          /\ q \in Pages \ (N \cup {u})
          /\ FreeList(t2, (N \cup {u}) \cup {q})
          /\ t1.pageNum <= t2.pageNum /\ t2.pageNum <= t1.pageNum + 1
          /\ t2.root = q /\ t2.right = t1.right
          /\ t2.entryNum = t1.entryNum /\ t2.status = t1.status
          /\ Size(t2, q) = 1 /\ Kids(t2, q) = 1 /\ Kid(t2, q, 1) = v /\ Childs(t2, q) = <<v>>
          /\ Parent(t2, q) = 0 /\ ~Leaf(t2, q) /\ Left(t2, q) = 0 /\ Right(t2, q) = 0 /\ NextFree(t2, q) = 0
          /\ t2.node[v] = [t1.node[v] EXCEPT !.parent = q]
          /\ \A x \in Pages \ {q, v} : t2.node[x] = t1.node[x]
  BY <1>2, GrowRootIs
<1> DEFINE q  == t1.nextFree
           ts == GrowRoot(t1, v)
           n  == ts.node[q]
           tb == Raised(t, q, v, n)
           N2 == WithPage(N, q)
<1>4. /\ ts \in Trees
      /\ q \in Pages \ (N \cup {u})
      /\ FreeList(ts, (N \cup {u}) \cup {q})
      /\ t1.pageNum <= ts.pageNum /\ ts.pageNum <= t1.pageNum + 1
      /\ ts.root = q /\ ts.right = t1.right
      /\ ts.entryNum = t1.entryNum /\ ts.status = t1.status
      /\ Size(ts, q) = 1 /\ Kids(ts, q) = 1 /\ Kid(ts, q, 1) = v
      /\ Parent(ts, q) = 0 /\ ~Leaf(ts, q) /\ Left(ts, q) = 0 /\ Right(ts, q) = 0 /\ NextFree(ts, q) = 0
      /\ ts.node[v] = [t1.node[v] EXCEPT !.parent = q]
      /\ \A x \in Pages \ {q, v} : ts.node[x] = t1.node[x]
  BY <1>3
<1> HIDE DEF ts, q
<1>v. v \in Pages /\ u \in Pages /\ q \in Pages /\ v # q /\ q # v /\ u # q /\ u # v BY <1>1, <1>4, <1>s
<1>5. n \in TreeNodes BY <1>4, <1>v DEF Trees
<1> HIDE DEF n
<1>6. LET b == Raised(t, q, v, n) IN
      /\ b \in Trees /\ b.root = q /\ b.right = t.right
      /\ b.pageNum = t.pageNum /\ b.entryNum = t.entryNum /\ b.status = t.status
      /\ b.node[q] = n
      /\ b.node[v] = [t.node[v] EXCEPT !.parent = q]
      /\ \A x \in Pages \ {q, v} : b.node[x] = t.node[x]
  BY <1>g, <1>v, <1>5, RaisedIs
<1>7. /\ tb \in Trees /\ tb.root = q /\ tb.right = t.right
      /\ tb.node[q] = n
      /\ tb.node[v] = [t.node[v] EXCEPT !.parent = q]
      /\ \A x \in Pages \ {q, v} : tb.node[x] = t.node[x]
  BY <1>6
<1> HIDE DEF tb
<1>8. RootAbove(tb, q, v)
  <2>1. tb.node[q] = ts.node[q] BY <1>7 DEF n
  <2> QED BY <2>1, <1>4 DEF RootAbove, Size, Kids, Kid, Parent, Leaf, Left, Right, Items, Childs
<1>9. /\ Frame(tb, N2, LevelAbove(h, q, v), GrownNext(nx, q), GrownNext(pv, q))
      /\ SameEntries(t, tb)
      /\ Rank(tb, v, q) = 1 /\ Parent(tb, v) = q
      /\ \A x \in Pages \ {q} : Size(tb, x) = Size(t, x) /\ Leaf(tb, x) = Leaf(t, x)
  <2>1. q \in Pages \ N BY <1>4
  <2> QED BY <2>1, <1>7, <1>8, RaisedFrame
<1>10. LeafSize(tb, u) = 0
  <2>1. ~Leaf(t, u) BY <1>g, <1>1, BlankIs
  <2> QED BY <2>1, <1>9, <1>v DEF LeafSize
\* tb and ts against t and t1.
<1>11. /\ Items(tb, v) = Items(t, v) /\ Childs(tb, v) = Childs(t, v) /\ Leaf(tb, v) = Leaf(t, v)
       /\ Left(tb, v) = Left(t, v) /\ Right(tb, v) = Right(t, v)
  <2>1. t.node[v] \in TreeNodes BY <1>g, <1>v DEF Trees
  <2> QED BY <2>1, <1>7 DEF TreeNodes, Childs, Items, Leaf, Left, Right
<1>12. /\ Items(ts, v) = Items(t1, v) /\ Childs(ts, v) = Childs(t1, v) /\ Leaf(ts, v) = Leaf(t1, v)
       /\ Left(ts, v) = Left(t1, v) /\ Right(ts, v) = Right(t1, v) /\ Parent(ts, v) = q
       /\ NextFree(ts, v) = NextFree(t1, v)
  <2>1. t1.node[v] \in TreeNodes BY <1>1, <1>v DEF Trees
  <2> QED BY <2>1, <1>4 DEF TreeNodes, Childs, Items, Leaf, Left, Right, Parent, NextFree
<1>13. \A x \in Pages \ {q, v} :
       /\ Items(tb, x) = Items(t, x) /\ Childs(tb, x) = Childs(t, x) /\ Leaf(tb, x) = Leaf(t, x)
       /\ Left(tb, x) = Left(t, x) /\ Right(tb, x) = Right(t, x) /\ Parent(tb, x) = Parent(t, x)
  BY <1>7 DEF Childs, Items, Leaf, Left, Right, Parent
<1>14. \A x \in Pages \ {q, v} :
       /\ Items(ts, x) = Items(t1, x) /\ Childs(ts, x) = Childs(t1, x) /\ Leaf(ts, x) = Leaf(t1, x)
       /\ Left(ts, x) = Left(t1, x) /\ Right(ts, x) = Right(t1, x) /\ Parent(ts, x) = Parent(t1, x)
       /\ NextFree(ts, x) = NextFree(t1, x)
  BY <1>4 DEF Childs, Items, Leaf, Left, Right, Parent, NextFree
<1>15. /\ Kids(tb, v) = Kids(t, v) /\ \A i \in 1 .. Kids(t, v) : Kid(tb, v, i) = Kid(t, v, i)
       /\ Size(tb, v) = Size(t, v) /\ \A i \in 1 .. Size(t, v) : Item(tb, v, i) = Item(t, v, i)
       /\ Staying(tb, v) = Staying(t, v)
  BY <1>11 DEF Kids, Kid, Size, Item, Staying
<1>16. \A i \in Nat : /\ Kid(tb, v, i) = Kid(t, v, i) /\ Item(tb, v, i) = Item(t, v, i)
                      /\ Kid(ts, v, i) = Kid(t1, v, i) /\ Item(ts, v, i) = Item(t1, v, i)
                      /\ Kid(ts, u, i) = Kid(t1, u, i) /\ Item(ts, u, i) = Item(t1, u, i)
  BY <1>11, <1>12, <1>14, <1>v DEF Kid, Item
<1>17. /\ Kids(ts, v) = Kids(t1, v) /\ Size(ts, v) = Size(t1, v)
       /\ Kids(ts, u) = Kids(t1, u) /\ Size(ts, u) = Size(t1, u)
  BY <1>12, <1>14, <1>v DEF Kids, Size
<1>y. /\ Staying(t, v) \in Nat /\ Size(t, v) \in Nat
      /\ \A j \in Staying(t, v) + 1 .. Kids(t, v) : Kid(t, v, j) \in N /\ Kid(t, v, j) # v
  <2>1. Staying(t, v) \in Nat BY <1>m DEF Staying
  <2>2. ASSUME NEW j \in Staying(t, v) + 1 .. Kids(t, v) PROVE Kid(t, v, j) \in N /\ Kid(t, v, j) # v
    <3>1. j \in 1 .. Kids(t, v) BY <2>1, <1>s
    <3>2. Kid(t, v, j) \in N /\ h[v] = h[Kid(t, v, j)] + 1 BY <3>1, <1>s
    <3>3. h[v] \in Nat BY <1>s
    <3> QED BY <3>2, <3>3
  <2>3. Size(t, v) \in Nat BY <1>g, <1>v, TreeTypes
  <2> QED BY <2>1, <2>2, <2>3
<1>18. Halved(tb, ts, v, u)
  <2>1. /\ Kids(t1, v) = Staying(t, v)
        /\ \A i \in 1 .. Staying(t, v) : Kid(t1, v, i) = Kid(t, v, i)
        /\ Kids(t1, u) = Kids(t, v) - Staying(t, v)
        /\ \A i \in 1 .. Kids(t, v) - Staying(t, v) : Kid(t1, u, i) = Kid(t, v, Staying(t, v) + i)
        /\ \A j \in Staying(t, v) + 1 .. Kids(t, v) : Parent(t1, Kid(t, v, j)) = u
        /\ Size(t1, v) = MinItems
        /\ \A i \in 1 .. MinItems : Item(t1, v, i) = Item(t, v, i)
        /\ Size(t1, u) = Size(t, v) - MinItems
        /\ \A i \in 1 .. Size(t, v) - MinItems : Item(t1, u, i) = Item(t, v, MinItems + i)
        /\ Leaf(t1, v) = Leaf(t, v)
        /\ Leaf(t1, u) = Leaf(t, v)
    BY <1>1 DEF Halved
  <2>2. /\ Kids(ts, v) = Staying(tb, v)
        /\ Kids(ts, u) = Kids(tb, v) - Staying(tb, v)
        /\ Size(ts, v) = MinItems
        /\ Size(ts, u) = Size(tb, v) - MinItems
        /\ Leaf(ts, v) = Leaf(tb, v)
        /\ Leaf(ts, u) = Leaf(tb, v)
    BY <2>1, <1>15, <1>17, <1>11, <1>12, <1>14, <1>v
  <2>3. \A i \in 1 .. Staying(tb, v) : Kid(ts, v, i) = Kid(tb, v, i)
    BY <2>1, <1>15, <1>16, <1>y
  <2>4. ASSUME NEW i \in 1 .. Kids(tb, v) - Staying(tb, v) PROVE Kid(ts, u, i) = Kid(tb, v, Staying(tb, v) + i)
    <3>1. i \in 1 .. Kids(t, v) - Staying(t, v) BY <1>15
    <3>2. i \in Nat /\ Staying(t, v) + i \in Nat BY <3>1, <1>y
    <3>3. Kid(ts, u, i) = Kid(t1, u, i) BY <3>2, <1>16
    <3>4. Kid(t1, u, i) = Kid(t, v, Staying(t, v) + i) BY <3>1, <2>1
    <3>5. Kid(tb, v, Staying(t, v) + i) = Kid(t, v, Staying(t, v) + i) BY <3>2, <1>16
    <3> QED BY <3>3, <3>4, <3>5, <1>15
  <2>5. ASSUME NEW j \in Staying(tb, v) + 1 .. Kids(tb, v) PROVE Parent(ts, Kid(tb, v, j)) = u
    <3>1. j \in Staying(t, v) + 1 .. Kids(t, v) /\ j \in Nat BY <1>15, <1>y
    <3>2. Kid(tb, v, j) = Kid(t, v, j) BY <3>1, <1>16
    <3>3. Kid(t, v, j) \in Pages \ {q, v} BY <3>1, <1>y, <1>4, <1>s
    <3>4. Parent(ts, Kid(t, v, j)) = Parent(t1, Kid(t, v, j)) BY <3>3, <1>14
    <3>5. Parent(t1, Kid(t, v, j)) = u BY <3>1, <2>1
    <3> QED BY <3>2, <3>4, <3>5
  <2>6. \A i \in 1 .. MinItems : Item(ts, v, i) = Item(tb, v, i) BY <2>1, <1>16, <1>m
  <2>7. ASSUME NEW i \in 1 .. Size(tb, v) - MinItems PROVE Item(ts, u, i) = Item(tb, v, MinItems + i)
    <3>1. i \in 1 .. Size(t, v) - MinItems BY <1>15
    <3>2. i \in Nat /\ MinItems + i \in Nat BY <3>1, <1>y, <1>m
    <3>3. Item(ts, u, i) = Item(t1, u, i) BY <3>2, <1>16
    <3>4. Item(t1, u, i) = Item(t, v, MinItems + i) BY <3>1, <2>1
    <3>5. Item(tb, v, MinItems + i) = Item(t, v, MinItems + i) BY <3>2, <1>16
    <3> QED BY <3>3, <3>4, <3>5
  <2> QED BY <2>2, <2>3, <2>4, <2>5, <2>6, <2>7 DEF Halved
<1>19. Inserted(tb, ts, v, u)
  <2>1. /\ Leaf(t, v) => Right(t1, v) = u /\ Left(t1, u) = v /\ Right(t1, u) = Right(t, v)
        /\ ~Leaf(t, v) => Right(t1, v) = Right(t, v) /\ Left(t1, u) = 0 /\ Right(t1, u) = 0
        /\ Left(t1, v) = Left(t, v)
        /\ \A x \in Pages \ {v, u} :
             /\ Right(t1, x) = Right(t, x)
             /\ Left(t1, x) = IF Leaf(t, v) /\ x = Right(t, v) THEN u ELSE Left(t, x)
    BY <1>1 DEF Inserted
  <2>2. Left(ts, u) = Left(t1, u) /\ Right(ts, u) = Right(t1, u) BY <1>14, <1>v
  <2>3. Right(tb, q) = 0 /\ Left(tb, q) = 0 BY <1>8 DEF RootAbove
  <2>4. Leaf(t, v) => q # Right(t, v)
    <3>1. SUFFICES ASSUME Leaf(t, v) PROVE q # Right(t, v) OBVIOUS
    <3>2. Kids(t, v) = 0
      <4>1. Matched(t, N) BY DEF Good
      <4> QED BY <4>1, <3>1 DEF Matched
    <3>3. Right(t, v) = nx[v] BY <3>2, <1>g DEF LeafLinks
    <3>4. nx[v] \in N \cup {0} BY <1>g, LinkFacts
    <3> QED BY <3>3, <3>4, <1>4, <1>s
  <2>5. ASSUME NEW x \in Pages \ {v, u}
        PROVE  /\ Right(ts, x) = Right(tb, x)
               /\ Left(ts, x) = IF Leaf(tb, v) /\ x = Right(tb, v) THEN u ELSE Left(tb, x)
    <3>1. CASE x = q
      <4>1. Right(ts, x) = 0 /\ Left(ts, x) = 0 BY <3>1, <1>4
      <4>2. ~(Leaf(tb, v) /\ x = Right(tb, v)) BY <3>1, <2>4, <1>11
      <4> QED BY <4>1, <4>2, <2>3, <3>1
    <3>2. CASE x # q
      <4>1. x \in Pages \ {q, v} BY <3>2
      <4> QED BY <4>1, <2>1, <2>5, <1>13, <1>14, <1>11
    <3> QED BY <3>1, <3>2
  <2> QED BY <2>1, <2>2, <2>5, <1>11, <1>12 DEF Inserted
<1>20. Blank(ts, N2 \cup {u})
  <2>a. ts \in Trees /\ t1 \in Trees BY <1>1, <1>4
  <2>1. t.pageNum \in Nat /\ ts.pageNum \in Nat /\ t1.pageNum \in Nat BY <1>p, <2>a DEF Trees
  <2>b. t.pageNum <= ts.pageNum BY <2>1, <1>1, <1>4
  <2>2. \A x \in Pages : NextFree(t, x) <= t.pageNum /\ NextFree(t, x) \in Nat
    <3>1. \A x \in Pages : NextFree(t, x) \in Nat BY <1>g DEF Trees, TreeNodes, NextFree
    <3> QED BY <3>1, <1>g DEF Blank
  <2>3. \A x \in Pages : NextFree(ts, x) <= ts.pageNum
    <3>1. SUFFICES ASSUME NEW x \in Pages PROVE NextFree(ts, x) <= ts.pageNum OBVIOUS
    <3>2. CASE x = q BY <3>2, <1>4, <2>1
    <3>3. CASE x # q
      <4>1. NextFree(ts, x) = NextFree(t1, x) BY <3>3, <1>12, <1>14
      <4>2. CASE x = u BY <4>1, <4>2, <1>1, <2>1
      <4>3. CASE x # u
        <5>1. NextFree(t1, x) = NextFree(t, x) BY <4>3, <1>1
        <5>2. NextFree(t, x) <= t.pageNum /\ NextFree(t, x) \in Nat BY <2>2
        <5> QED BY <5>1, <5>2, <4>1, <2>b, <2>1
      <4> QED BY <4>2, <4>3
    <3> QED BY <3>2, <3>3
  <2>4. ASSUME NEW x \in Pages \ (N2 \cup {u})
        PROVE ts.node[x] = [EmptyNode EXCEPT !.next_free = NextFree(ts, x)]
    <3>1. x \in Pages \ {q, v} /\ x \in Pages \ (N \cup {u}) BY DEF WithPage
    <3>2. ts.node[x] = t1.node[x] /\ t1.node[x] = t.node[x] BY <3>1, <1>4, <1>1
    <3>3. NextFree(ts, x) = NextFree(t, x) BY <3>2 DEF NextFree
    <3>4. t.node[x] = [EmptyNode EXCEPT !.next_free = NextFree(t, x)] BY <3>1, <1>g DEF Blank
    <3> QED BY <3>2, <3>3, <3>4
  <2> QED BY <2>3, <2>4 DEF Blank
<1>21. SplitOf(tb, ts, N2, v, u)
  <2>1. (N \cup {u}) \cup {q} = N2 \cup {u} BY DEF WithPage
  <2>2. FreeList(ts, N2 \cup {u}) BY <2>1, <1>4
  <2>3. ASSUME NEW x \in Pages \ {u},
               \A j \in Staying(tb, v) + 1 .. Kids(tb, v) : Kid(tb, v, j) # x
        PROVE  Parent(ts, x) = Parent(tb, x)
    <3>1. CASE x = q BY <3>1, <1>4, <1>8 DEF RootAbove
    <3>2. CASE x = v BY <3>2, <1>12, <1>9
    <3>3. CASE x # q /\ x # v
      <4>1. \A j \in Staying(t, v) + 1 .. Kids(t, v) : Kid(t, v, j) # x
        <5>1. SUFFICES ASSUME NEW j \in Staying(t, v) + 1 .. Kids(t, v) PROVE Kid(t, v, j) # x OBVIOUS
        <5>2. j \in Staying(tb, v) + 1 .. Kids(tb, v) /\ j \in Nat BY <1>15, <1>y
        <5>3. Kid(tb, v, j) = Kid(t, v, j) BY <5>2, <1>16
        <5> QED BY <5>2, <5>3, <2>3
      <4>2. Parent(t1, x) = Parent(t, x) BY <4>1, <1>1
      <4> QED BY <4>2, <3>3, <1>13, <1>14
    <3> QED BY <3>1, <3>2, <3>3
  <2>4. ASSUME NEW x \in Pages \ {u, v}
        PROVE  Items(ts, x) = Items(tb, x) /\ Childs(ts, x) = Childs(tb, x) /\ Leaf(ts, x) = Leaf(tb, x)
    <3>1. CASE x = q
      <4>1. tb.node[q] = ts.node[q] BY <1>7 DEF n
      <4> QED BY <3>1, <4>1 DEF Items, Childs, Leaf
    <3>2. CASE x # q
      <4>1. x \in Pages \ {q, v} /\ x \in Pages \ {u, v} BY <3>2
      <4> QED BY <4>1, <1>1, <1>13, <1>14
    <3> QED BY <3>1, <3>2
  <2>5. ts \in Trees /\ ts.root = tb.root /\ ts.right = tb.right BY <1>1, <1>4, <1>7
  <2> QED BY <2>2, <2>3, <2>4, <2>5, <1>18, <1>19, <1>20 DEF SplitOf
<1>22. t.pageNum <= ts.pageNum /\ ts.pageNum <= t.pageNum + 2
  <2>a. ts \in Trees /\ t1 \in Trees BY <1>1, <1>4
  <2>1. t.pageNum \in Nat /\ ts.pageNum \in Nat /\ t1.pageNum \in Nat BY <1>p, <2>a DEF Trees
  <2> QED BY <2>1, <1>1, <1>4
<1>23. ts.entryNum = t.entryNum /\ ts.status = t.status BY <1>1, <1>4
<1>24. q \in Pages \ N /\ u \in Pages \ N2 BY <1>1, <1>4, <1>v DEF WithPage
<1>25. /\ q \in Pages \ N /\ u \in Pages \ N2
       /\ tb \in Trees /\ tb.root = q
       /\ Frame(tb, N2, LevelAbove(h, q, v), GrownNext(nx, q), GrownNext(pv, q))
       /\ SplitOf(tb, ts, N2, v, u)
       /\ LeafSize(tb, u) = 0
       /\ SameEntries(t, tb)
       /\ Rank(tb, v, q) = 1 /\ Parent(tb, v) = q /\ Parent(ts, v) = q
       /\ RootAbove(tb, q, v)
       /\ \A x \in Pages \ {q} : Size(tb, x) = Size(t, x) /\ Leaf(tb, x) = Leaf(t, x)
       /\ t.pageNum <= ts.pageNum /\ ts.pageNum <= t.pageNum + 2
       /\ ts.entryNum = t.entryNum /\ ts.status = t.status
  BY <1>24, <1>7, <1>9, <1>21, <1>10, <1>12, <1>8, <1>22, <1>23
<1> QED BY <1>25, Zenon DEF tb, ts, q, n, t1, u, N2

(* A search for x that comes to v goes on to its child i.                  *)
Passes(t, v, i, x) ==
  (i > 1 => Item(t, v, i) <= x) /\ (i < Kids(t, v) => x < Item(t, v, i + 1))

RangesAre(t, R) == R \in [Pages -> SUBSET Nat] /\ R[t.root] = Nat

RangesDown(t, N, R) ==
  \A v \in N : \A i \in 1 .. Kids(t, v) : \A x \in Nat :
    x \in R[Kid(t, v, i)] <=> x \in R[v] /\ Passes(t, v, i, x)

(* The items of an inner node, but for the first, are in order, and each   *)
(* is the first item of its child.                                         *)
Separates(t, N, R) ==
  \A v \in N : \A i \in 2 .. Kids(t, v) :
    /\ Item(t, v, i) \in R[v]
    /\ Item(t, Kid(t, v, i), 1) = Item(t, v, i)
    /\ \A j \in 2 .. Kids(t, v) : i < j => Item(t, v, i) < Item(t, v, j)

LeavesSorted(t, N, R) ==
  \A v \in N : Kids(t, v) = 0 => \A i \in 1 .. Size(t, v) :
    /\ Item(t, v, i) \in R[v]
    /\ \A j \in 1 .. Size(t, v) : i < j => Item(t, v, i) < Item(t, v, j)

(* The ranges of a level are in the order of its nodes.                    *)
RangesInRow(N, nx, R) ==
  \A v \in N : nx[v] # 0 => \A x \in R[v], y \in R[nx[v]] : x < y

Ordered(t, N, nx, R) ==
  /\ RangesAre(t, R)
  /\ RangesDown(t, N, R)
  /\ Separates(t, N, R)
  /\ LeavesSorted(t, N, R)
  /\ RangesInRow(N, nx, R)

OrderedTree(t, N, nx) == \E R : Ordered(t, N, nx, R)

(* What the parts of a split have to do with each other: s is the item     *)
(* that goes first in the new node.                                        *)
LEMMA SplitSeparator ==
  ASSUME NEW t, NEW ts, NEW N, NEW h, NEW nx, NEW pv, NEW v, NEW u, NEW p, NEW r, NEW t2,
         Linking(t, ts, N, h, nx, pv, v, u, p, r, t2), NEW R, Ordered(t, N, nx, R),
         NEW s, s = Item(t, v, MinItems + 1)
  PROVE  /\ s \in R[v] /\ s \in Nat /\ s \in R[p]
         /\ r > 1 => Item(t, p, r) \in Nat /\ Item(t, p, r) < s
         /\ r < Kids(t, p) => Item(t, p, r + 1) \in Nat /\ s < Item(t, p, r + 1)
         /\ Kids(t, v) # 0 => Kids(t, v) = EntryLimit + 1
<1>0. /\ Frame(t, N, h, nx, pv)
      /\ v \in N /\ u \in Pages \ N /\ p \in N
      /\ Size(t, v) = EntryLimit + 1
      /\ p = Parent(t, v) /\ r \in 1 .. Kids(t, p) /\ Kid(t, p, r) = v
  BY DEF Linking
<1>f. Shape(t, N, h) /\ Matched(t, N) BY <1>0 DEF Frame
<1>s. /\ N \subseteq Pages
      /\ \A x \in Pages : Kids(t, x) \in Nat
  BY <1>f, ShapeFacts
<1>m. MinItems \in Nat /\ MinItems >= 2 /\ EntryLimit \in Nat /\ MinItems < EntryLimit
  BY MinItemsIs, EntryLimitAssumption
<1>k. Kids(t, v) # 0 => Kids(t, v) = EntryLimit + 1
  <2>1. /\ Leaf(t, v) <=> Kids(t, v) = 0
        /\ ~Leaf(t, v) => Size(t, v) = Kids(t, v)
    BY <1>0, <1>f DEF Matched
  <2> QED BY <2>1, <1>0
<1>r. /\ R \in [Pages -> SUBSET Nat]
      /\ RangesDown(t, N, R) /\ Separates(t, N, R) /\ LeavesSorted(t, N, R)
  BY DEF Ordered, RangesAre
<1>q. \A i \in 2 .. Kids(t, v) :
        /\ Item(t, v, i) \in R[v]
        /\ \A j \in 2 .. Kids(t, v) : i < j => Item(t, v, i) < Item(t, v, j)
  BY <1>r, <1>0 DEF Separates
<1>l. Kids(t, v) = 0 => \A i \in 1 .. Size(t, v) :
        /\ Item(t, v, i) \in R[v]
        /\ \A j \in 1 .. Size(t, v) : i < j => Item(t, v, i) < Item(t, v, j)
  BY <1>r, <1>0 DEF LeavesSorted
<1>1. R[v] \subseteq Nat /\ R[p] \subseteq Nat BY <1>r, <1>0, <1>s
<1>2. s \in R[v]
  <2>1. CASE Kids(t, v) = 0
    <3>1. MinItems + 1 \in 1 .. Size(t, v) BY <1>0, <1>m
    <3> QED BY <2>1, <3>1, <1>l
  <2>2. CASE Kids(t, v) # 0
    <3>1. MinItems + 1 \in 2 .. Kids(t, v) BY <2>2, <1>k, <1>m
    <3> QED BY <3>1, <1>q
  <2> QED BY <2>1, <2>2
<1>3. \A x \in Nat : x \in R[v] <=> x \in R[p] /\ Passes(t, p, r, x) BY <1>0, <1>r DEF RangesDown
<1>4. s \in Nat /\ s \in R[p] /\ Passes(t, p, r, s) BY <1>1, <1>2, <1>3
<1>5. \A i \in 2 .. Kids(t, p) : Item(t, p, i) \in Nat BY <1>r, <1>0, <1>1 DEF Separates
<1>p. r \in Nat /\ r >= 1 /\ r <= Kids(t, p) /\ Kids(t, p) \in Nat BY <1>0, <1>s
<1>6. r > 1 => Item(t, p, r) \in Nat /\ Item(t, p, r) < s
  <2> SUFFICES ASSUME r > 1 PROVE Item(t, p, r) \in Nat /\ Item(t, p, r) < s OBVIOUS
  <2>0. r \in 2 .. Kids(t, p) BY <1>p
  <2>1. Item(t, p, r) \in Nat BY <2>0, <1>5
  <2>2. CASE Kids(t, v) = 0
    <3>1. 1 \in 1 .. Size(t, v) /\ MinItems + 1 \in 1 .. Size(t, v) /\ 1 < MinItems + 1 BY <1>0, <1>m
    <3>2. Item(t, v, 1) < s BY <2>2, <3>1, <1>l
    <3>3. Item(t, v, 1) = Item(t, p, r) BY <2>0, <1>r, <1>0 DEF Separates
    <3> QED BY <2>1, <3>2, <3>3
  <2>3. CASE Kids(t, v) # 0
    <3>1. 2 \in 2 .. Kids(t, v) /\ MinItems + 1 \in 2 .. Kids(t, v) /\ 2 < MinItems + 1 BY <2>3, <1>k, <1>m
    <3>2. Item(t, v, 2) < s /\ Item(t, v, 2) \in R[v] BY <3>1, <1>q
    <3>3. Item(t, v, 2) \in Nat /\ Passes(t, p, r, Item(t, v, 2)) BY <3>2, <1>1, <1>3
    <3>4. Item(t, p, r) <= Item(t, v, 2) BY <3>3 DEF Passes
    <3> QED BY <2>1, <3>2, <3>3, <3>4, <1>4
  <2> QED BY <2>2, <2>3
<1>7. r < Kids(t, p) => Item(t, p, r + 1) \in Nat /\ s < Item(t, p, r + 1)
  <2> SUFFICES ASSUME r < Kids(t, p) PROVE Item(t, p, r + 1) \in Nat /\ s < Item(t, p, r + 1) OBVIOUS
  <2>0. r + 1 \in 2 .. Kids(t, p) BY <1>p
  <2> QED BY <2>0, <1>5, <1>4 DEF Passes
<1> QED BY <1>2, <1>4, <1>6, <1>7, <1>k

(* The ranges after a split: s tells those of v and u apart.               *)
RangesWith(R, v, u, s) ==
  [x \in Pages |-> IF x = v THEN {y \in R[v] : y < s} ELSE IF x = u THEN {y \in R[v] : s <= y} ELSE R[x]]

(* A split, with what the order makes of it.                               *)
SplitInOrder(t, t2, N, nx, v, u, p, r, R, s) ==
  /\ N \subseteq Pages /\ v \in N /\ p \in N /\ u \in Pages \ N /\ p # v /\ v # t.root
  /\ r \in 1 .. Kids(t, p)
  /\ \A x \in Pages : Kids(t, x) \in Nat
  /\ \A x \in N : \A i \in 1 .. Kids(t, x) :
       Kid(t, x, i) \in N /\ (Kid(t, x, i) = v <=> x = p /\ i = r)
  /\ Kids(t, v) # 0 => Kids(t, v) = EntryLimit + 1
  /\ Size(t, v) = EntryLimit + 1
  /\ Ordered(t, N, nx, R)
  /\ SplitMade(t, t2, N, v, u, p, r)
  /\ s = Item(t, v, MinItems + 1)
  /\ s \in R[v] /\ s \in Nat /\ s \in R[p]
  /\ r > 1 => Item(t, p, r) \in Nat /\ Item(t, p, r) < s
  /\ r < Kids(t, p) => Item(t, p, r + 1) \in Nat /\ s < Item(t, p, r + 1)

(* A split is one of a tree in order.                                      *)
LEMMA SplitComesInOrder ==
  ASSUME NEW t, NEW ts, NEW N, NEW h, NEW nx, NEW pv, NEW v, NEW u, NEW p, NEW r, NEW t2,
         Linking(t, ts, N, h, nx, pv, v, u, p, r, t2), NEW R, Ordered(t, N, nx, R),
         NEW s, s = Item(t, v, MinItems + 1)
  PROVE  SplitInOrder(t, t2, N, nx, v, u, p, r, R, s)
<1>0. /\ Frame(t, N, h, nx, pv)
      /\ v \in N /\ u \in Pages \ N /\ p \in N
      /\ Size(t, v) = EntryLimit + 1
      /\ p = Parent(t, v) /\ r \in 1 .. Kids(t, p) /\ Kid(t, p, r) = v
  BY DEF Linking
<1>f. Shape(t, N, h) BY <1>0 DEF Frame
<1>s. /\ N \subseteq Pages /\ Parent(t, t.root) = 0 /\ 0 \notin Pages
      /\ \A x \in Pages : Kids(t, x) \in Nat
      /\ \A x \in N : \A i \in 1 .. Kids(t, x) : Kid(t, x, i) \in N /\ Parent(t, Kid(t, x, i)) = x
      /\ \A x \in N : \A i, j \in 1 .. Kids(t, x) : Kid(t, x, i) = Kid(t, x, j) => i = j
      /\ h \in [Pages -> Nat]
      /\ \A x \in N : \A i \in 1 .. Kids(t, x) : h[x] = h[Kid(t, x, i)] + 1
  BY <1>f, ShapeFacts
<1>1. SplitMade(t, t2, N, v, u, p, r) BY LinkedSplit
<1>2. /\ s \in R[v] /\ s \in Nat /\ s \in R[p]
      /\ r > 1 => Item(t, p, r) \in Nat /\ Item(t, p, r) < s
      /\ r < Kids(t, p) => Item(t, p, r + 1) \in Nat /\ s < Item(t, p, r + 1)
      /\ Kids(t, v) # 0 => Kids(t, v) = EntryLimit + 1
  BY SplitSeparator
<1>3. p # v
  <2>1. h[p] = h[v] + 1 /\ h[v] \in Nat BY <1>0, <1>s
  <2> QED BY <2>1
<1>4. v # t.root BY <1>0, <1>s
<1>5. \A x \in N : \A i \in 1 .. Kids(t, x) : Kid(t, x, i) = v <=> x = p /\ i = r
  BY <1>0, <1>s
<1> QED BY <1>0, <1>s, <1>1, <1>2, <1>3, <1>4, <1>5 DEF SplitInOrder

(* The facts about the kids and the items, node by node.                   *)
LEMMA SplitInOrderFacts ==
  ASSUME NEW t, NEW t2, NEW N, NEW nx, NEW v, NEW u, NEW p, NEW r, NEW R, NEW s,
         SplitInOrder(t, t2, N, nx, v, u, p, r, R, s)
  PROVE  /\ MinItems \in Nat /\ MinItems >= 2 /\ EntryLimit \in Nat /\ MinItems < EntryLimit
         /\ r \in Nat /\ r >= 1 /\ r <= Kids(t, p)
         /\ t2.root = t.root
         /\ Kids(t, v) = 0 => Kids(t2, v) = 0 /\ Kids(t2, u) = 0
         /\ Kids(t, v) # 0 =>
              /\ Kids(t, v) = EntryLimit + 1 /\ Kids(t2, v) = MinItems /\ Kids(t2, u) = EntryLimit + 1 - MinItems
              /\ \A i \in 1 .. MinItems : Kid(t2, v, i) = Kid(t, v, i)
              /\ \A i \in 1 .. EntryLimit + 1 - MinItems : Kid(t2, u, i) = Kid(t, v, MinItems + i)
         /\ Kids(t2, p) = Kids(t, p) + 1
         /\ \A i \in 1 .. r : Kid(t2, p, i) = Kid(t, p, i)
         /\ Kid(t2, p, r + 1) = u
         /\ \A i \in r + 2 .. Kids(t, p) + 1 : Kid(t2, p, i) = Kid(t, p, i - 1)
         /\ \A x \in N \ {v, p} :
              /\ Kids(t2, x) = Kids(t, x) /\ Size(t2, x) = Size(t, x)
              /\ \A i \in 1 .. Kids(t, x) : Kid(t2, x, i) = Kid(t, x, i)
              /\ \A i : Item(t2, x, i) = Item(t, x, i)
         /\ Size(t2, v) = MinItems /\ Size(t2, u) = EntryLimit + 1 - MinItems
         /\ \A i \in 1 .. MinItems : Item(t2, v, i) = Item(t, v, i)
         /\ \A i \in 1 .. EntryLimit + 1 - MinItems : Item(t2, u, i) = Item(t, v, MinItems + i)
         /\ \A i \in 1 .. r : Item(t2, p, i) = Item(t, p, i)
         /\ Item(t2, p, r + 1) = s
         /\ \A i \in r + 2 .. Kids(t, p) + 1 : Item(t2, p, i) = Item(t, p, i - 1)
<1>0. /\ N \subseteq Pages /\ v \in N /\ p \in N /\ u \in Pages \ N /\ p # v
      /\ r \in 1 .. Kids(t, p)
      /\ \A x \in Pages : Kids(t, x) \in Nat
      /\ Kids(t, v) # 0 => Kids(t, v) = EntryLimit + 1
      /\ SplitMade(t, t2, N, v, u, p, r)
      /\ s = Item(t, v, MinItems + 1)
  BY DEF SplitInOrder
<1>m. MinItems \in Nat /\ MinItems >= 2 /\ EntryLimit \in Nat /\ MinItems < EntryLimit
  BY MinItemsIs, EntryLimitAssumption
<1>r. r \in Nat /\ r >= 1 /\ r <= Kids(t, p) /\ Kids(t, p) \in Nat BY <1>0
<1>p. Parted(t, t2, v, u, p, r, Staying(t, v)) BY <1>0 DEF SplitMade
<1>i. /\ Size(t2, v) = MinItems /\ Size(t2, u) = EntryLimit + 1 - MinItems
      /\ \A i \in 1 .. MinItems : Item(t2, v, i) = Item(t, v, i)
      /\ \A i \in 1 .. EntryLimit + 1 - MinItems : Item(t2, u, i) = Item(t, v, MinItems + i)
      /\ \A i \in 1 .. Kids(t, p) + 1 :
           Item(t2, p, i) = IF i <= r THEN Item(t, p, i)
                            ELSE IF i = r + 1 THEN Item(t, v, MinItems + 1) ELSE Item(t, p, i - 1)
      /\ \A x \in N \ {v, p} : Size(t2, x) = Size(t, x) /\ \A i : Item(t2, x, i) = Item(t, x, i)
  BY <1>0 DEF SplitMade
<1>k. /\ t2.root = t.root
      /\ Kids(t2, v) = Staying(t, v)
      /\ \A i \in 1 .. Staying(t, v) : Kid(t2, v, i) = Kid(t, v, i)
      /\ Kids(t2, u) = Kids(t, v) - Staying(t, v)
      /\ \A i \in 1 .. Kids(t, v) - Staying(t, v) : Kid(t2, u, i) = Kid(t, v, Staying(t, v) + i)
      /\ Kids(t2, p) = Kids(t, p) + 1
      /\ \A i \in 1 .. r : Kid(t2, p, i) = Kid(t, p, i)
      /\ Kid(t2, p, r + 1) = u
      /\ \A i \in r + 2 .. Kids(t, p) + 1 : Kid(t2, p, i) = Kid(t, p, i - 1)
      /\ \A x \in Pages \ {v, u, p} : Kids(t2, x) = Kids(t, x)
      /\ \A x \in Pages \ {v, u, p} : \A i \in 1 .. Kids(t, x) : Kid(t2, x, i) = Kid(t, x, i)
  BY <1>p DEF Parted
<1>1. Kids(t, v) = 0 => Kids(t2, v) = 0 /\ Kids(t2, u) = 0 BY <1>k DEF Staying
<1>2. ASSUME Kids(t, v) # 0
      PROVE  /\ Kids(t, v) = EntryLimit + 1 /\ Kids(t2, v) = MinItems /\ Kids(t2, u) = EntryLimit + 1 - MinItems
             /\ \A i \in 1 .. MinItems : Kid(t2, v, i) = Kid(t, v, i)
             /\ \A i \in 1 .. EntryLimit + 1 - MinItems : Kid(t2, u, i) = Kid(t, v, MinItems + i)
  <2>1. Staying(t, v) = MinItems /\ Kids(t, v) = EntryLimit + 1 BY <1>2, <1>0 DEF Staying
  <2>2. /\ Kids(t2, v) = MinItems
        /\ \A i \in 1 .. MinItems : Kid(t2, v, i) = Kid(t, v, i)
        /\ Kids(t2, u) = Kids(t, v) - MinItems
        /\ \A i \in 1 .. Kids(t, v) - MinItems : Kid(t2, u, i) = Kid(t, v, MinItems + i)
    BY <2>1, <1>k
  <2> QED BY ONLY <2>1, <2>2, <1>m
<1>3. \A x \in N \ {v, p} : x \in Pages \ {v, u, p} BY <1>0
<1>4. /\ \A i \in 1 .. r : Item(t2, p, i) = Item(t, p, i)
      /\ Item(t2, p, r + 1) = s
      /\ \A i \in r + 2 .. Kids(t, p) + 1 : Item(t2, p, i) = Item(t, p, i - 1)
  <2>1. ASSUME NEW i \in 1 .. r PROVE Item(t2, p, i) = Item(t, p, i)
    <3>1. i \in 1 .. Kids(t, p) + 1 /\ i <= r BY <1>r
    <3> QED BY <3>1, <1>i
  <2>2. Item(t2, p, r + 1) = s
    <3>1. r + 1 \in 1 .. Kids(t, p) + 1 /\ ~(r + 1 <= r) BY <1>r
    <3> QED BY <3>1, <1>i, <1>0
  <2>3. ASSUME NEW i \in r + 2 .. Kids(t, p) + 1 PROVE Item(t2, p, i) = Item(t, p, i - 1)
    <3>1. i \in 1 .. Kids(t, p) + 1 /\ ~(i <= r) /\ i # r + 1 BY <1>r
    <3> QED BY <3>1, <1>i
  <2> QED BY <2>1, <2>2, <2>3
<1> QED BY <1>m, <1>r, <1>i, <1>k, <1>1, <1>2, <1>3, <1>4

(* The ranges after a split.                                               *)
LEMMA SplitRangesDown ==
  ASSUME NEW t, NEW t2, NEW N, NEW nx, NEW v, NEW u, NEW p, NEW r, NEW R, NEW s,
         SplitInOrder(t, t2, N, nx, v, u, p, r, R, s),
         NEW R2, R2 = RangesWith(R, v, u, s)
  PROVE  RangesDown(t2, WithPage(N, u), R2)
<1>0. /\ N \subseteq Pages /\ v \in N /\ p \in N /\ u \in Pages \ N /\ p # v
      /\ \A x \in Pages : Kids(t, x) \in Nat
      /\ \A x \in N : \A i \in 1 .. Kids(t, x) :
           Kid(t, x, i) \in N /\ (Kid(t, x, i) = v <=> x = p /\ i = r)
      /\ s \in R[v] /\ s \in Nat /\ s \in R[p] /\ s = Item(t, v, MinItems + 1)
      /\ r > 1 => Item(t, p, r) \in Nat /\ Item(t, p, r) < s
      /\ r < Kids(t, p) => Item(t, p, r + 1) \in Nat /\ s < Item(t, p, r + 1)
      /\ Ordered(t, N, nx, R)
  BY DEF SplitInOrder
<1>f. /\ MinItems \in Nat /\ MinItems >= 2 /\ EntryLimit \in Nat /\ MinItems < EntryLimit
      /\ r \in Nat /\ r >= 1 /\ r <= Kids(t, p)
  BY SplitInOrderFacts
<1>v. Kids(t, v) = 0 => Kids(t2, v) = 0 /\ Kids(t2, u) = 0 BY SplitInOrderFacts
<1>w. Kids(t, v) # 0 =>
        /\ Kids(t, v) = EntryLimit + 1 /\ Kids(t2, v) = MinItems /\ Kids(t2, u) = EntryLimit + 1 - MinItems
        /\ \A i \in 1 .. MinItems : Kid(t2, v, i) = Kid(t, v, i)
        /\ \A i \in 1 .. EntryLimit + 1 - MinItems : Kid(t2, u, i) = Kid(t, v, MinItems + i)
  BY SplitInOrderFacts
<1>p. /\ Kids(t2, p) = Kids(t, p) + 1
      /\ \A i \in 1 .. r : Kid(t2, p, i) = Kid(t, p, i)
      /\ Kid(t2, p, r + 1) = u
      /\ \A i \in r + 2 .. Kids(t, p) + 1 : Kid(t2, p, i) = Kid(t, p, i - 1)
      /\ \A i \in 1 .. r : Item(t2, p, i) = Item(t, p, i)
      /\ Item(t2, p, r + 1) = s
      /\ \A i \in r + 2 .. Kids(t, p) + 1 : Item(t2, p, i) = Item(t, p, i - 1)
  BY SplitInOrderFacts
<1>o. \A x \in N \ {v, p} :
        /\ Kids(t2, x) = Kids(t, x)
        /\ \A i \in 1 .. Kids(t, x) : Kid(t2, x, i) = Kid(t, x, i)
        /\ \A i : Item(t2, x, i) = Item(t, x, i)
  BY SplitInOrderFacts
<1>i. /\ \A i \in 1 .. MinItems : Item(t2, v, i) = Item(t, v, i)
      /\ \A i \in 1 .. EntryLimit + 1 - MinItems : Item(t2, u, i) = Item(t, v, MinItems + i)
  BY SplitInOrderFacts
<1>r. /\ R \in [Pages -> SUBSET Nat] /\ RangesDown(t, N, R) /\ Separates(t, N, R)
  BY <1>0 DEF Ordered, RangesAre
<1>d. \A x \in N : \A i \in 1 .. Kids(t, x) : \A y \in Nat :
        y \in R[Kid(t, x, i)] <=> y \in R[x] /\ Passes(t, x, i, y)
  BY <1>r DEF RangesDown
<1>q. \A i \in 2 .. Kids(t, v) :
        /\ Item(t, v, i) \in Nat
        /\ \A j \in 2 .. Kids(t, v) : i < j => Item(t, v, i) < Item(t, v, j)
  <2>1. R[v] \subseteq Nat BY <1>r, <1>0
  <2> QED BY <2>1, <1>r, <1>0 DEF Separates
<1>a. R2[v] = {y \in R[v] : y < s} /\ R2[u] = {y \in R[v] : s <= y} /\ \A x \in N \ {v} : R2[x] = R[x]
  BY <1>0 DEF RangesWith
<1> SUFFICES ASSUME NEW x \in N \cup {u}, NEW i \in 1 .. Kids(t2, x), NEW y \in Nat
             PROVE  y \in R2[Kid(t2, x, i)] <=> y \in R2[x] /\ Passes(t2, x, i, y)
  BY DEF RangesDown, WithPage
<1>1. CASE x = v
  <2>1. Kids(t, v) # 0
    <3>1. Kids(t, v) = 0 => 1 .. Kids(t2, v) = {} BY <1>v
    <3> QED BY <3>1, <1>1
  <2>2. Kids(t, v) = EntryLimit + 1 /\ i \in 1 .. MinItems /\ Kid(t2, v, i) = Kid(t, v, i) /\ Kids(t2, v) = MinItems
    BY <2>1, <1>w, <1>1
  <2>3. i \in 1 .. Kids(t, v) /\ i < Kids(t, v) BY <2>2, <1>f
  <2>4. Kid(t, v, i) \in N \ {v} BY <2>3, <1>0
  <2>5. y \in R2[Kid(t2, v, i)] <=> y \in R[v] /\ Passes(t, v, i, y)
    <3>1. R2[Kid(t2, v, i)] = R[Kid(t, v, i)] BY <2>2, <2>4, <1>a
    <3>2. v \in N BY <1>0
    <3> QED BY <3>1, <3>2, <2>3, <1>d
  <2>6. y < s /\ Passes(t2, v, i, y) <=> Passes(t, v, i, y)
    <3>1. Item(t2, v, i) = Item(t, v, i) BY <2>2, <1>i
    <3>2. CASE i < MinItems
      <4>1. i + 1 \in 1 .. MinItems /\ i + 1 \in 2 .. Kids(t, v) /\ MinItems + 1 \in 2 .. Kids(t, v) /\ i + 1 < MinItems + 1
        BY <3>2, <2>2, <1>f
      <4>2. Item(t2, v, i + 1) = Item(t, v, i + 1) BY <4>1, <1>i
      <4>3. Item(t, v, i + 1) \in Nat /\ Item(t, v, i + 1) < s BY <4>1, <1>q, <1>0
      <4> QED BY <3>1, <3>2, <4>2, <4>3, <2>2, <2>3, <1>0 DEF Passes
    <3>3. CASE ~(i < MinItems)
      <4>1. i = MinItems BY <3>3, <2>2, <1>f
      <4> QED BY <3>1, <4>1, <2>2, <2>3, <1>0, <1>f DEF Passes
    <3> QED BY <3>2, <3>3
  <2> QED BY <2>5, <2>6, <1>1, <1>a
<1>2. CASE x = u
  <2>1. Kids(t, v) # 0
    <3>1. Kids(t, v) = 0 => 1 .. Kids(t2, u) = {} BY <1>v
    <3> QED BY <3>1, <1>2
  <2>2. Kids(t, v) = EntryLimit + 1 /\ i \in 1 .. EntryLimit + 1 - MinItems /\ Kid(t2, u, i) = Kid(t, v, MinItems + i)
        /\ Kids(t2, u) = EntryLimit + 1 - MinItems
    BY <2>1, <1>w, <1>2
  <2>3. MinItems + i \in 2 .. Kids(t, v) /\ MinItems + i > 1 BY <2>2, <1>f
  <2>3a. MinItems + i \in 1 .. Kids(t, v) BY <2>2, <1>f
  <2>4. Kid(t, v, MinItems + i) \in N \ {v} BY <2>3a, <1>0
  <2>5. y \in R2[Kid(t2, u, i)] <=> y \in R[v] /\ Passes(t, v, MinItems + i, y)
    BY <2>2, <2>3a, <2>4, <1>a, <1>d, <1>0
  <2>6. s <= y /\ Passes(t2, u, i, y) <=> Passes(t, v, MinItems + i, y)
    <3>1. Item(t2, u, i) = Item(t, v, MinItems + i) /\ Item(t, v, MinItems + i) \in Nat BY <2>2, <2>3, <1>i, <1>q
    <3>2. i < Kids(t2, u) <=> MinItems + i < Kids(t, v) BY <2>2, <1>f
    <3>3. i < Kids(t2, u) => Item(t2, u, i + 1) = Item(t, v, MinItems + i + 1)
      <4> SUFFICES ASSUME i < Kids(t2, u) PROVE Item(t2, u, i + 1) = Item(t, v, MinItems + i + 1) OBVIOUS
      <4>1. i + 1 \in 1 .. EntryLimit + 1 - MinItems /\ MinItems + (i + 1) = MinItems + i + 1 BY <2>2, <1>f
      <4>2. Item(t2, u, i + 1) = Item(t, v, MinItems + (i + 1)) BY <4>1, <1>i
      <4> QED BY <4>1, <4>2
    <3>4. CASE i = 1
      <4>1. Item(t, v, MinItems + i) = s BY <3>4, <1>0
      <4> QED BY <3>2, <3>3, <3>4, <4>1, <2>3 DEF Passes
    <3>5. CASE i # 1
      <4>1. i > 1 /\ MinItems + 1 \in 2 .. Kids(t, v) /\ MinItems + 1 < MinItems + i BY <3>5, <2>2, <1>f
      <4>2. s < Item(t, v, MinItems + i) BY <4>1, <2>3, <1>q, <1>0
      <4> QED BY <3>1, <3>2, <3>3, <4>1, <4>2, <2>3, <1>0 DEF Passes
    <3> QED BY <3>4, <3>5
  <2> QED BY <2>5, <2>6, <1>2, <1>a
<1>3. CASE x = p
  <2>0. i \in 1 .. Kids(t, p) + 1 /\ Kids(t, p) \in Nat BY <1>3, <1>p, <1>0
  <2>a. R2[p] = R[p] BY <1>a, <1>0
  <2>1. CASE i < r
    <3>1. i \in 1 .. r /\ i + 1 \in 1 .. r /\ i \in 1 .. Kids(t, p) /\ i < Kids(t, p) /\ i < Kids(t2, p) /\ i # r
      BY <2>1, <2>0, <1>f, <1>p
    <3>2. Kid(t2, p, i) = Kid(t, p, i) /\ Item(t2, p, i) = Item(t, p, i) /\ Item(t2, p, i + 1) = Item(t, p, i + 1)
      BY <3>1, <1>p
    <3>3. Kid(t, p, i) \in N \ {v} BY <3>1, <1>0
    <3>4. Passes(t2, p, i, y) <=> Passes(t, p, i, y) BY <3>1, <3>2 DEF Passes
    <3> QED BY <3>1, <3>2, <3>3, <3>4, <1>3, <2>a, <1>a, <1>d, <1>0
  <2>2. CASE i = r
    <3>1. i \in 1 .. r /\ i \in 1 .. Kids(t, p) /\ i < Kids(t2, p) BY <2>2, <2>0, <1>f, <1>p
    <3>2. Kid(t2, p, i) = v /\ Kid(t, p, i) = v /\ Item(t2, p, i) = Item(t, p, i) /\ Item(t2, p, i + 1) = s
      BY <2>2, <3>1, <1>p, <1>0
    <3>3. y \in R[v] <=> y \in R[p] /\ Passes(t, p, r, y) BY <3>1, <3>2, <2>2, <1>d, <1>0
    <3>4. Passes(t2, p, i, y) <=> (r > 1 => Item(t, p, r) <= y) /\ y < s BY <2>2, <3>1, <3>2 DEF Passes
    <3>5. y < s => (Passes(t, p, r, y) <=> (r > 1 => Item(t, p, r) <= y)) BY <1>0 DEF Passes
    <3> QED BY <3>2, <3>3, <3>4, <3>5, <1>3, <2>a, <1>a
  <2>3. CASE i = r + 1
    <3>1. Kid(t2, p, i) = u /\ Item(t2, p, i) = s /\ i > 1 BY <2>3, <1>p, <1>f
    <3>2. r \in 1 .. Kids(t, p) /\ Kid(t, p, r) = v BY <1>f, <1>0
    <3>3. y \in R[v] <=> y \in R[p] /\ Passes(t, p, r, y) BY <3>2, <1>d, <1>0
    <3>4. i < Kids(t2, p) <=> r < Kids(t, p) BY <2>3, <2>0, <1>p, <1>f
    <3>5. r < Kids(t, p) => Item(t2, p, i + 1) = Item(t, p, r + 1)
      <4> SUFFICES ASSUME r < Kids(t, p) PROVE Item(t2, p, i + 1) = Item(t, p, r + 1) OBVIOUS
      <4>1. i + 1 \in r + 2 .. Kids(t, p) + 1 /\ i + 1 - 1 = r + 1 BY <2>3, <2>0, <1>f
      <4> QED BY <4>1, <1>p
    <3>6. Passes(t2, p, i, y) <=> s <= y /\ (r < Kids(t, p) => y < Item(t, p, r + 1))
      BY <3>1, <3>4, <3>5 DEF Passes
    <3>7. s <= y => (Passes(t, p, r, y) <=> (r < Kids(t, p) => y < Item(t, p, r + 1))) BY <1>0 DEF Passes
    <3> QED BY <3>1, <3>3, <3>6, <3>7, <1>3, <2>a, <1>a
  <2>4. CASE i > r + 1
    <3>1. i \in r + 2 .. Kids(t, p) + 1 /\ i - 1 \in 1 .. Kids(t, p) /\ i > 1 /\ i - 1 > 1 /\ i - 1 # r
      BY <2>4, <2>0, <1>f
    <3>2. Kid(t2, p, i) = Kid(t, p, i - 1) /\ Item(t2, p, i) = Item(t, p, i - 1) BY <3>1, <1>p
    <3>3. Kid(t, p, i - 1) \in N \ {v} BY <3>1, <1>0
    <3>4. i < Kids(t2, p) <=> i - 1 < Kids(t, p) BY <2>0, <1>p
    <3>5. i - 1 < Kids(t, p) => Item(t2, p, i + 1) = Item(t, p, i - 1 + 1)
      <4> SUFFICES ASSUME i - 1 < Kids(t, p) PROVE Item(t2, p, i + 1) = Item(t, p, i - 1 + 1) OBVIOUS
      <4>1. i + 1 \in r + 2 .. Kids(t, p) + 1 /\ i + 1 - 1 = i - 1 + 1 BY <2>4, <2>0, <1>f
      <4>2. Item(t2, p, i + 1) = Item(t, p, i + 1 - 1) BY <4>1, <1>p
      <4> QED BY <4>1, <4>2
    <3>6. Passes(t2, p, i, y) <=> Passes(t, p, i - 1, y) BY <3>1, <3>2, <3>4, <3>5 DEF Passes
    <3>7. R2[Kid(t2, p, i)] = R[Kid(t, p, i - 1)] BY <3>2, <3>3, <1>a
    <3>8. y \in R[Kid(t, p, i - 1)] <=> y \in R[p] /\ Passes(t, p, i - 1, y) BY <3>1, <1>d, <1>0
    <3> QED BY <3>6, <3>7, <3>8, <1>3, <2>a
  <2> QED BY <2>0, <2>1, <2>2, <2>3, <2>4, <1>f
<1>4. CASE x \in N \ {v, p}
  <2>1. /\ Kids(t2, x) = Kids(t, x) /\ i \in 1 .. Kids(t, x) /\ Kid(t2, x, i) = Kid(t, x, i)
        /\ \A j : Item(t2, x, j) = Item(t, x, j)
    BY <1>4, <1>o
  <2>2. Kid(t, x, i) \in N \ {v} BY <2>1, <1>4, <1>0
  <2>3. Passes(t2, x, i, y) <=> Passes(t, x, i, y) BY <2>1 DEF Passes
  <2> QED BY <2>1, <2>2, <2>3, <1>4, <1>a, <1>d
<1> QED BY <1>1, <1>2, <1>3, <1>4

(* The items of inner nodes after a split.                                 *)
LEMMA SplitSeparates ==
  ASSUME NEW t, NEW t2, NEW N, NEW nx, NEW v, NEW u, NEW p, NEW r, NEW R, NEW s,
         SplitInOrder(t, t2, N, nx, v, u, p, r, R, s),
         NEW R2, R2 = RangesWith(R, v, u, s)
  PROVE  Separates(t2, WithPage(N, u), R2)
<1>0. /\ N \subseteq Pages /\ v \in N /\ p \in N /\ u \in Pages \ N /\ p # v
      /\ \A x \in Pages : Kids(t, x) \in Nat
      /\ \A x \in N : \A i \in 1 .. Kids(t, x) : Kid(t, x, i) \in N
      /\ s \in R[v] /\ s \in Nat /\ s \in R[p] /\ s = Item(t, v, MinItems + 1)
      /\ r > 1 => Item(t, p, r) \in Nat /\ Item(t, p, r) < s
      /\ r < Kids(t, p) => Item(t, p, r + 1) \in Nat /\ s < Item(t, p, r + 1)
      /\ Ordered(t, N, nx, R)
  BY DEF SplitInOrder
<1>f. /\ MinItems \in Nat /\ MinItems >= 2 /\ EntryLimit \in Nat /\ MinItems < EntryLimit
      /\ r \in Nat /\ r >= 1 /\ r <= Kids(t, p)
  BY SplitInOrderFacts
<1>v. Kids(t, v) = 0 => Kids(t2, v) = 0 /\ Kids(t2, u) = 0 BY SplitInOrderFacts
<1>w. Kids(t, v) # 0 =>
        /\ Kids(t, v) = EntryLimit + 1 /\ Kids(t2, v) = MinItems /\ Kids(t2, u) = EntryLimit + 1 - MinItems
        /\ \A i \in 1 .. MinItems : Kid(t2, v, i) = Kid(t, v, i)
        /\ \A i \in 1 .. EntryLimit + 1 - MinItems : Kid(t2, u, i) = Kid(t, v, MinItems + i)
  BY SplitInOrderFacts
<1>p. /\ Kids(t2, p) = Kids(t, p) + 1
      /\ \A i \in 1 .. r : Kid(t2, p, i) = Kid(t, p, i)
      /\ Kid(t2, p, r + 1) = u
      /\ \A i \in r + 2 .. Kids(t, p) + 1 : Kid(t2, p, i) = Kid(t, p, i - 1)
      /\ \A i \in 1 .. r : Item(t2, p, i) = Item(t, p, i)
      /\ Item(t2, p, r + 1) = s
      /\ \A i \in r + 2 .. Kids(t, p) + 1 : Item(t2, p, i) = Item(t, p, i - 1)
  BY SplitInOrderFacts
<1>o. \A x \in N \ {v, p} :
        /\ Kids(t2, x) = Kids(t, x)
        /\ \A i \in 1 .. Kids(t, x) : Kid(t2, x, i) = Kid(t, x, i)
        /\ \A i : Item(t2, x, i) = Item(t, x, i)
  BY SplitInOrderFacts
<1>i. /\ \A i \in 1 .. MinItems : Item(t2, v, i) = Item(t, v, i)
      /\ \A i \in 1 .. EntryLimit + 1 - MinItems : Item(t2, u, i) = Item(t, v, MinItems + i)
  BY SplitInOrderFacts
<1>r. R \in [Pages -> SUBSET Nat] /\ Separates(t, N, R) BY <1>0 DEF Ordered, RangesAre
<1>q. \A x \in N : \A i \in 2 .. Kids(t, x) :
        /\ Item(t, x, i) \in R[x]
        /\ Item(t, Kid(t, x, i), 1) = Item(t, x, i)
        /\ \A j \in 2 .. Kids(t, x) : i < j => Item(t, x, i) < Item(t, x, j)
  BY <1>r DEF Separates
<1>n. \A x \in N : \A i \in 2 .. Kids(t, x) : Item(t, x, i) \in Nat
  <2>1. \A x \in N : R[x] \subseteq Nat BY <1>r, <1>0
  <2> QED BY <2>1, <1>q
<1>a. R2[v] = {y \in R[v] : y < s} /\ R2[u] = {y \in R[v] : s <= y} /\ \A x \in N \ {v} : R2[x] = R[x]
  BY <1>0 DEF RangesWith
\* The first items stay.
<1>1. Item(t2, u, 1) = s
  <2>1. 1 \in 1 .. EntryLimit + 1 - MinItems BY <1>f
  <2> QED BY <2>1, <1>i, <1>0
<1>2. \A x \in N : Item(t2, x, 1) = Item(t, x, 1)
  <2>1. 1 \in 1 .. MinItems /\ 1 \in 1 .. r BY <1>f
  <2>2. Item(t2, v, 1) = Item(t, v, 1) BY <2>1, <1>i
  <2>3. Item(t2, p, 1) = Item(t, p, 1) BY <2>1, <1>p
  <2> QED BY <2>2, <2>3, <1>o
<1> SUFFICES ASSUME NEW x \in N \cup {u}, NEW i \in 2 .. Kids(t2, x)
             PROVE  /\ Item(t2, x, i) \in R2[x]
                    /\ Item(t2, Kid(t2, x, i), 1) = Item(t2, x, i)
                    /\ \A j \in 2 .. Kids(t2, x) : i < j => Item(t2, x, i) < Item(t2, x, j)
  BY DEF Separates, WithPage
<1>3. CASE x = v
  <2>1. Kids(t, v) # 0
    <3>1. Kids(t, v) = 0 => 2 .. Kids(t2, v) = {} BY <1>v
    <3> QED BY <3>1, <1>3
  <2>2. Kids(t, v) = EntryLimit + 1 /\ Kids(t2, v) = MinItems BY <2>1, <1>w
  <2>3. \A j \in 2 .. MinItems : j \in 1 .. MinItems /\ j \in 2 .. Kids(t, v) /\ j \in 1 .. Kids(t, v) /\ j < MinItems + 1
    BY <2>2, <1>f
  <2>4. MinItems + 1 \in 2 .. Kids(t, v) BY <2>2, <1>f
  <2>5. \A j \in 2 .. MinItems : Item(t2, v, j) = Item(t, v, j) /\ Kid(t2, v, j) = Kid(t, v, j) /\ Item(t, v, j) < s
    BY <2>1, <2>3, <2>4, <1>i, <1>w, <1>q, <1>0
  <2>6. i \in 2 .. MinItems BY <2>2, <1>3
  <2>7. Item(t2, v, i) \in R2[v] BY <2>5, <2>6, <2>3, <1>q, <1>a, <1>0
  <2>8. Item(t2, Kid(t2, v, i), 1) = Item(t2, v, i)
    <3>1. Kid(t, v, i) \in N BY <2>6, <2>3, <1>0
    <3>2. Item(t, Kid(t, v, i), 1) = Item(t, v, i) BY <2>6, <2>3, <1>q, <1>0
    <3> QED BY <3>1, <3>2, <2>5, <2>6, <1>2
  <2>9. \A j \in 2 .. MinItems : i < j => Item(t2, v, i) < Item(t2, v, j) BY <2>5, <2>6, <2>3, <1>q, <1>0
  <2> QED BY <2>2, <2>7, <2>8, <2>9, <1>3
<1>4. CASE x = u
  <2>1. Kids(t, v) # 0
    <3>1. Kids(t, v) = 0 => 2 .. Kids(t2, u) = {} BY <1>v
    <3> QED BY <3>1, <1>4
  <2>2. Kids(t, v) = EntryLimit + 1 /\ Kids(t2, u) = EntryLimit + 1 - MinItems BY <2>1, <1>w
  <2>3. \A j \in 2 .. EntryLimit + 1 - MinItems :
          /\ j \in 1 .. EntryLimit + 1 - MinItems /\ MinItems + j \in 2 .. Kids(t, v)
          /\ MinItems + j \in 1 .. Kids(t, v) /\ MinItems + 1 < MinItems + j
    BY <2>2, <1>f
  <2>4. MinItems + 1 \in 2 .. Kids(t, v) BY <2>2, <1>f
  <2>5. \A j \in 2 .. EntryLimit + 1 - MinItems :
          /\ Item(t2, u, j) = Item(t, v, MinItems + j) /\ Kid(t2, u, j) = Kid(t, v, MinItems + j)
          /\ s < Item(t, v, MinItems + j)
    BY <2>1, <2>3, <2>4, <1>i, <1>w, <1>q, <1>0
  <2>6. i \in 2 .. EntryLimit + 1 - MinItems BY <2>2, <1>4
  <2>7. Item(t2, u, i) \in R2[u]
    <3>1. Item(t, v, MinItems + i) \in R[v] /\ Item(t, v, MinItems + i) \in Nat BY <2>6, <2>3, <1>q, <1>n, <1>0
    <3> QED BY <3>1, <2>5, <2>6, <1>a, <1>0
  <2>8. Item(t2, Kid(t2, u, i), 1) = Item(t2, u, i)
    <3>1. Kid(t, v, MinItems + i) \in N BY <2>6, <2>3, <1>0
    <3>2. Item(t, Kid(t, v, MinItems + i), 1) = Item(t, v, MinItems + i) BY <2>6, <2>3, <1>q, <1>0
    <3> QED BY <3>1, <3>2, <2>5, <2>6, <1>2
  <2>9. ASSUME NEW j \in 2 .. EntryLimit + 1 - MinItems, i < j PROVE Item(t2, u, i) < Item(t2, u, j)
    <3>1. MinItems + i < MinItems + j BY <2>6, <2>9, <1>f
    <3> QED BY <3>1, <2>5, <2>6, <2>3, <1>q, <1>0
  <2> QED BY <2>2, <2>7, <2>8, <2>9, <1>4
<1>5. CASE x = p
  <2>0. i \in 2 .. Kids(t, p) + 1 /\ Kids(t, p) \in Nat BY <1>5, <1>p, <1>0
  <2>a. R2[p] = R[p] BY <1>a, <1>0
  <2>1. \A j \in 2 .. r : j \in 1 .. r /\ j \in 2 .. Kids(t, p) /\ j \in 1 .. Kids(t, p) BY <1>f, <2>0
  <2>2. \A j \in r + 2 .. Kids(t, p) + 1 : j - 1 \in 2 .. Kids(t, p) /\ j - 1 \in 1 .. Kids(t, p) BY <1>f, <2>0
  <2>3. \A j \in 2 .. r : Item(t2, p, j) = Item(t, p, j) /\ Item(t, p, j) < s
    <3> SUFFICES ASSUME NEW j \in 2 .. r PROVE Item(t2, p, j) = Item(t, p, j) /\ Item(t, p, j) < s OBVIOUS
    <3>1. r \in 2 .. Kids(t, p) /\ r > 1 BY <1>f, <2>0
    <3>2. j = r \/ j < r BY <1>f
    <3>3. j < r => Item(t, p, j) < Item(t, p, r) BY <3>1, <2>1, <1>q, <1>0
    <3>4. Item(t, p, j) \in Nat BY <2>1, <1>n, <1>0
    <3> QED BY <3>1, <3>2, <3>3, <3>4, <2>1, <1>p, <1>0
  <2>4. \A j \in r + 2 .. Kids(t, p) + 1 : Item(t2, p, j) = Item(t, p, j - 1) /\ s < Item(t, p, j - 1)
    <3> SUFFICES ASSUME NEW j \in r + 2 .. Kids(t, p) + 1
                 PROVE Item(t2, p, j) = Item(t, p, j - 1) /\ s < Item(t, p, j - 1) OBVIOUS
    <3>1. r + 1 \in 2 .. Kids(t, p) /\ r < Kids(t, p) BY <1>f, <2>0
    <3>2. j - 1 = r + 1 \/ r + 1 < j - 1 BY <1>f
    <3>3. r + 1 < j - 1 => Item(t, p, r + 1) < Item(t, p, j - 1) BY <3>1, <2>2, <1>q, <1>0
    <3>4. Item(t, p, j - 1) \in Nat BY <2>2, <1>n, <1>0
    <3> QED BY <3>1, <3>2, <3>3, <3>4, <1>p, <1>0
  <2>5. \A j \in 2 .. Kids(t, p) + 1 : j \in 2 .. r \/ j = r + 1 \/ j \in r + 2 .. Kids(t, p) + 1 BY <1>f, <2>0
  <2>6. Item(t2, p, r + 1) = s BY <1>p
  <2>7. Item(t2, p, i) \in R2[p]
    <3>1. CASE i \in 2 .. r BY <3>1, <2>a, <2>1, <2>3, <1>q, <1>0
    <3>2. CASE i = r + 1 BY <3>2, <2>a, <2>6, <1>0
    <3>3. CASE i \in r + 2 .. Kids(t, p) + 1 BY <3>3, <2>a, <2>2, <2>4, <1>q, <1>0
    <3> QED BY <3>1, <3>2, <3>3, <2>0, <2>5
  <2>8. Item(t2, Kid(t2, p, i), 1) = Item(t2, p, i)
    <3>1. CASE i \in 2 .. r
      <4>1. Kid(t2, p, i) = Kid(t, p, i) /\ Kid(t, p, i) \in N /\ Item(t, Kid(t, p, i), 1) = Item(t, p, i)
        BY <3>1, <2>1, <1>p, <1>q, <1>0
      <4> QED BY <4>1, <3>1, <2>3, <1>2
    <3>2. CASE i = r + 1 BY <3>2, <2>6, <1>1, <1>p
    <3>3. CASE i \in r + 2 .. Kids(t, p) + 1
      <4>1. Kid(t2, p, i) = Kid(t, p, i - 1) /\ Kid(t, p, i - 1) \in N
            /\ Item(t, Kid(t, p, i - 1), 1) = Item(t, p, i - 1)
        BY <3>3, <2>2, <1>p, <1>q, <1>0
      <4> QED BY <4>1, <3>3, <2>4, <1>2
    <3> QED BY <3>1, <3>2, <3>3, <2>0, <2>5
  <2>9. ASSUME NEW j \in 2 .. Kids(t, p) + 1, i < j PROVE Item(t2, p, i) < Item(t2, p, j)
    <3>1. CASE i \in 2 .. r /\ j \in 2 .. r BY <3>1, <2>9, <2>1, <2>3, <1>q, <1>0
    <3>2. CASE i \in 2 .. r /\ j = r + 1 BY <3>2, <2>3, <2>6
    <3>3. CASE i \in 2 .. r /\ j \in r + 2 .. Kids(t, p) + 1
      <4>1. i \in 2 .. Kids(t, p) /\ j - 1 \in 2 .. Kids(t, p) /\ i < j - 1 BY <3>3, <2>1, <2>2, <1>f
      <4> QED BY <4>1, <3>3, <2>3, <2>4, <1>q, <1>0
    <3>4. CASE i = r + 1 /\ j \in r + 2 .. Kids(t, p) + 1 BY <3>4, <2>4, <2>6
    <3>5. CASE i \in r + 2 .. Kids(t, p) + 1 /\ j \in r + 2 .. Kids(t, p) + 1
      <4>1. i - 1 < j - 1 BY <3>5, <2>9, <1>f
      <4> QED BY <4>1, <3>5, <2>2, <2>4, <1>q, <1>0
    <3>6. i \in 2 .. r \/ i = r + 1 \/ i \in r + 2 .. Kids(t, p) + 1 BY <2>0, <2>5
    <3>7. j \in 2 .. r \/ j = r + 1 \/ j \in r + 2 .. Kids(t, p) + 1 BY <2>5
    <3>8. i = r + 1 => j \in r + 2 .. Kids(t, p) + 1 BY <2>9, <1>f, <2>0
    <3>9. i \in r + 2 .. Kids(t, p) + 1 => j \in r + 2 .. Kids(t, p) + 1 BY <2>9, <1>f, <2>0
    <3> QED BY <3>1, <3>2, <3>3, <3>4, <3>5, <3>6, <3>7, <3>8, <3>9
  <2> QED BY <2>7, <2>8, <2>9, <1>5, <1>p
<1>6. CASE x \in N \ {v, p}
  <2>1. /\ Kids(t2, x) = Kids(t, x) /\ i \in 2 .. Kids(t, x) /\ \A j : Item(t2, x, j) = Item(t, x, j)
        /\ \A j \in 1 .. Kids(t, x) : Kid(t2, x, j) = Kid(t, x, j)
    BY <1>6, <1>o
  <2>2. i \in 1 .. Kids(t, x) BY <2>1, <1>0
  <2>3. Kid(t, x, i) \in N BY <2>2, <1>6, <1>0
  <2>4. Item(t, Kid(t, x, i), 1) = Item(t, x, i) BY <2>1, <1>6, <1>q
  <2>5. Item(t2, Kid(t2, x, i), 1) = Item(t2, x, i) BY <2>1, <2>2, <2>3, <2>4, <1>2
  <2> QED BY <2>1, <2>5, <1>6, <1>q, <1>a
<1> QED BY <1>3, <1>4, <1>5, <1>6

(* The items of leaves after a split.                                      *)
LEMMA SplitLeavesSorted ==
  ASSUME NEW t, NEW t2, NEW N, NEW nx, NEW v, NEW u, NEW p, NEW r, NEW R, NEW s,
         SplitInOrder(t, t2, N, nx, v, u, p, r, R, s),
         NEW R2, R2 = RangesWith(R, v, u, s)
  PROVE  LeavesSorted(t2, WithPage(N, u), R2)
<1>0. /\ N \subseteq Pages /\ v \in N /\ p \in N /\ u \in Pages \ N /\ p # v
      /\ \A x \in Pages : Kids(t, x) \in Nat
      /\ s \in Nat /\ s = Item(t, v, MinItems + 1)
      /\ Size(t, v) = EntryLimit + 1
      /\ Ordered(t, N, nx, R)
  BY DEF SplitInOrder
<1>f. MinItems \in Nat /\ MinItems >= 2 /\ EntryLimit \in Nat /\ MinItems < EntryLimit
  BY SplitInOrderFacts
<1>w. /\ Kids(t, v) # 0 => Kids(t2, v) = MinItems /\ Kids(t2, u) = EntryLimit + 1 - MinItems
      /\ Kids(t2, p) = Kids(t, p) + 1
  BY SplitInOrderFacts
<1>o. \A x \in N \ {v, p} :
        Kids(t2, x) = Kids(t, x) /\ Size(t2, x) = Size(t, x) /\ \A i : Item(t2, x, i) = Item(t, x, i)
  BY SplitInOrderFacts
<1>i. /\ Size(t2, v) = MinItems /\ Size(t2, u) = EntryLimit + 1 - MinItems
      /\ \A i \in 1 .. MinItems : Item(t2, v, i) = Item(t, v, i)
      /\ \A i \in 1 .. EntryLimit + 1 - MinItems : Item(t2, u, i) = Item(t, v, MinItems + i)
  BY SplitInOrderFacts
<1>r. R \in [Pages -> SUBSET Nat] /\ LeavesSorted(t, N, R) BY <1>0 DEF Ordered, RangesAre
<1>q. \A x \in N : Kids(t, x) = 0 => \A i \in 1 .. Size(t, x) :
        /\ Item(t, x, i) \in R[x]
        /\ \A j \in 1 .. Size(t, x) : i < j => Item(t, x, i) < Item(t, x, j)
  BY <1>r DEF LeavesSorted
<1>n. R[v] \subseteq Nat BY <1>r, <1>0
<1>a. R2[v] = {y \in R[v] : y < s} /\ R2[u] = {y \in R[v] : s <= y} /\ \A x \in N \ {v} : R2[x] = R[x]
  BY <1>0 DEF RangesWith
<1> SUFFICES ASSUME NEW x \in N \cup {u}, Kids(t2, x) = 0, NEW i \in 1 .. Size(t2, x)
             PROVE  /\ Item(t2, x, i) \in R2[x]
                    /\ \A j \in 1 .. Size(t2, x) : i < j => Item(t2, x, i) < Item(t2, x, j)
  BY DEF LeavesSorted, WithPage
<1>1. CASE x \in {v, u}
  <2>1. Kids(t, v) = 0 BY <1>1, <1>w, <1>f
  <2>2. \A j \in 1 .. EntryLimit + 1 : j \in 1 .. Size(t, v) BY <1>0
  <2>3. \A j \in 1 .. EntryLimit + 1 :
          /\ Item(t, v, j) \in R[v] /\ Item(t, v, j) \in Nat
          /\ \A k \in 1 .. EntryLimit + 1 : j < k => Item(t, v, j) < Item(t, v, k)
    BY <2>1, <2>2, <1>q, <1>n, <1>0
  <2>4. MinItems + 1 \in 1 .. EntryLimit + 1 BY <1>f
  <2>5. CASE x = v
    <3>1. \A j \in 1 .. MinItems : j \in 1 .. EntryLimit + 1 /\ j < MinItems + 1 BY <1>f
    <3>2. i \in 1 .. MinItems BY <2>5, <1>i
    <3>3. Item(t2, v, i) = Item(t, v, i) /\ Item(t, v, i) < s /\ Item(t, v, i) \in R[v]
      BY <3>1, <3>2, <2>3, <2>4, <1>i, <1>0
    <3>4. \A j \in 1 .. MinItems : i < j => Item(t2, v, i) < Item(t2, v, j) BY <3>1, <3>2, <2>3, <1>i
    <3> QED BY <3>3, <3>4, <2>5, <1>i, <1>a
  <2>6. CASE x = u
    <3>1. \A j \in 1 .. EntryLimit + 1 - MinItems :
            MinItems + j \in 1 .. EntryLimit + 1 /\ (j = 1 \/ MinItems + 1 < MinItems + j) BY <1>f
    <3>2. i \in 1 .. EntryLimit + 1 - MinItems BY <2>6, <1>i
    <3>3. Item(t2, u, i) = Item(t, v, MinItems + i) /\ Item(t, v, MinItems + i) \in R[v]
      BY <3>1, <3>2, <2>3, <1>i
    <3>4. s <= Item(t, v, MinItems + i)
      <4>1. CASE i = 1 BY <4>1, <1>0
      <4>2. CASE i # 1
        <5>1. MinItems + 1 < MinItems + i BY <4>2, <3>1, <3>2
        <5>2. s < Item(t, v, MinItems + i) BY <5>1, <3>1, <3>2, <2>3, <2>4, <1>0
        <5> QED BY <5>2, <3>1, <3>2, <2>3, <1>0
      <4> QED BY <4>1, <4>2
    <3>5. ASSUME NEW j \in 1 .. EntryLimit + 1 - MinItems, i < j PROVE Item(t2, u, i) < Item(t2, u, j)
      <4>1. MinItems + i < MinItems + j BY <3>2, <3>5, <1>f
      <4> QED BY <4>1, <3>1, <3>2, <2>3, <1>i
    <3> QED BY <3>3, <3>4, <3>5, <2>6, <1>i, <1>a
  <2> QED BY <2>5, <2>6, <1>1
<1>2. CASE x = p
  <2>1. Kids(t, p) \in Nat BY <1>0
  <2> QED BY <2>1, <1>2, <1>w
<1>3. CASE x \in N \ {v, p} BY <1>3, <1>o, <1>q, <1>a
<1> QED BY <1>1, <1>2, <1>3

(* The ranges of a level after a split.                                    *)
LEMMA SplitRangesInRow ==
  ASSUME NEW t, NEW t2, NEW N, NEW nx, NEW v, NEW u, NEW p, NEW r, NEW R, NEW s,
         SplitInOrder(t, t2, N, nx, v, u, p, r, R, s),
         NEW R2, R2 = RangesWith(R, v, u, s),
         \A x \in N : nx[x] \in N \cup {0} /\ nx[x] # x
  PROVE  RangesInRow(WithPage(N, u), NextWith(nx, v, u), R2)
<1>0. N \subseteq Pages /\ v \in N /\ u \in Pages \ N /\ s \in Nat /\ Ordered(t, N, nx, R)
  BY DEF SplitInOrder
<1>r. R \in [Pages -> SUBSET Nat] /\ RangesInRow(N, nx, R) BY <1>0 DEF Ordered, RangesAre
<1>a. R2[v] = {y \in R[v] : y < s} /\ R2[u] = {y \in R[v] : s <= y} /\ \A x \in N \ {v} : R2[x] = R[x]
  BY <1>0 DEF RangesWith
<1>b. \A x \in N : R2[x] \subseteq R[x] BY <1>a
<1>c. R[v] \subseteq Nat BY <1>r, <1>0
<1>d. 0 \notin Pages BY DEF Pages
<1>e. \A x \in Pages : NextWith(nx, v, u)[x] = IF x = v THEN u ELSE IF x = u THEN nx[v] ELSE nx[x]
  BY DEF NextWith
<1> SUFFICES ASSUME NEW x \in N \cup {u}, NextWith(nx, v, u)[x] # 0,
                    NEW y \in R2[x], NEW z \in R2[NextWith(nx, v, u)[x]]
             PROVE  y < z
  BY DEF RangesInRow, WithPage
<1>1. CASE x = v
  <2>1. y \in R[v] /\ y < s /\ z \in R[v] /\ s <= z BY <1>1, <1>e, <1>a, <1>0
  <2> QED BY <2>1, <1>c, <1>0
<1>2. CASE x = u
  <2>1. NextWith(nx, v, u)[x] = nx[v] BY <1>2, <1>e, <1>0
  <2>2. nx[v] \in N /\ nx[v] # 0 BY <2>1, <1>0
  <2>3. y \in R[v] /\ z \in R[nx[v]] BY <1>2, <2>1, <2>2, <1>a, <1>b
  <2> QED BY <2>2, <2>3, <1>r, <1>0 DEF RangesInRow
<1>3. CASE x \in N \ {v}
  <2>1. NextWith(nx, v, u)[x] = nx[x] BY <1>3, <1>e, <1>0
  <2>2. nx[x] \in N /\ nx[x] # 0 BY <2>1, <1>3, <1>0
  <2>3. y \in R[x] /\ z \in R[nx[x]] BY <1>3, <2>1, <2>2, <1>b
  <2> QED BY <2>2, <2>3, <1>3, <1>r DEF RangesInRow
<1> QED BY <1>1, <1>2, <1>3

(* A split leaves the tree in order.                                       *)
LEMMA LinkedOrdered ==
  ASSUME NEW t, NEW ts, NEW N, NEW h, NEW nx, NEW pv, NEW v, NEW u, NEW p, NEW r, NEW t2,
         Linking(t, ts, N, h, nx, pv, v, u, p, r, t2), OrderedTree(t, N, nx)
  PROVE  OrderedTree(t2, WithPage(N, u), NextWith(nx, v, u))
<1>1. PICK R : Ordered(t, N, nx, R) BY DEF OrderedTree
<1> DEFINE s == Item(t, v, MinItems + 1)
           R2 == RangesWith(R, v, u, s)
<1>2. SplitInOrder(t, t2, N, nx, v, u, p, r, R, s) BY <1>1, SplitComesInOrder
<1>3. Shape(t, N, h) /\ Links(t, N, h, nx, pv) BY DEF Linking, Frame
<1>4. \A x \in N : nx[x] \in N \cup {0} /\ nx[x] # x BY <1>3, LinkFacts, NotOwnNext
<1>5. RangesAre(t2, R2)
  <2>1. R \in [Pages -> SUBSET Nat] /\ R[t.root] = Nat BY <1>1 DEF Ordered, RangesAre
  <2>2. v \in N /\ N \subseteq Pages /\ u \notin N /\ v # t.root BY <1>2 DEF SplitInOrder
  <2>3. t.root \in N BY <1>3, ShapeFacts
  <2>4. t2.root = t.root BY <1>2, SplitInOrderFacts
  <2>5. R[v] \subseteq Nat BY <2>1, <2>2
  <2>6. R2 \in [Pages -> SUBSET Nat] BY <2>1, <2>5 DEF RangesWith
  <2>7. R2[t.root] = R[t.root] BY <2>2, <2>3 DEF RangesWith
  <2> QED BY <2>1, <2>4, <2>6, <2>7 DEF RangesAre
<1> HIDE DEF s, R2
<1>d. R2 = RangesWith(R, v, u, s) BY DEF R2
<1>6. RangesDown(t2, WithPage(N, u), R2) BY <1>2, <1>d, SplitRangesDown
<1>7. Separates(t2, WithPage(N, u), R2) BY <1>2, <1>d, SplitSeparates
<1>8. LeavesSorted(t2, WithPage(N, u), R2) BY <1>2, <1>d, SplitLeavesSorted
<1>9. RangesInRow(WithPage(N, u), NextWith(nx, v, u), R2) BY <1>2, <1>d, <1>4, SplitRangesInRow
<1> QED BY <1>5, <1>6, <1>7, <1>8, <1>9 DEF OrderedTree, Ordered

(* A root above the root: every search comes to it.                        *)
LEMMA RaisedOrdered ==
  ASSUME NEW t, NEW N, NEW h, NEW nx, NEW pv, Good(t, N, h, nx, pv), NEW v \in N, t.root = v,
         NEW q \in Pages \ N, NEW tb, tb.root = q, RootAbove(tb, q, v),
         tb.node[v] = [t.node[v] EXCEPT !.parent = q],
         \A x \in Pages \ {q, v} : tb.node[x] = t.node[x],
         OrderedTree(t, N, nx)
  PROVE  OrderedTree(tb, WithPage(N, q), GrownNext(nx, q))
<1>1. PICK R : Ordered(t, N, nx, R) BY DEF OrderedTree
<1>g. t \in Trees /\ Shape(t, N, h) /\ Links(t, N, h, nx, pv) BY DEF Good
<1>s. /\ N \subseteq Pages /\ 0 \notin Pages
      /\ \A x \in N : \A i \in 1 .. Kids(t, x) : Kid(t, x, i) \in N
  BY <1>g, ShapeFacts
<1>n. \A x \in N : nx[x] \in N \cup {0} BY <1>g, LinkFacts
<1>q. Kids(tb, q) = 1 /\ Kid(tb, q, 1) = v BY DEF RootAbove
<1>2. ASSUME NEW x \in N
      PROVE  Childs(tb, x) = Childs(t, x) /\ Items(tb, x) = Items(t, x)
  <2>1. CASE x = v
    <3>1. t.node[v] \in TreeNodes BY <1>g, <1>s DEF Trees
    <3> QED BY <2>1, <3>1 DEF TreeNodes, Childs, Items
  <2>2. CASE x # v
    <3>1. x \in Pages \ {q, v} BY <2>2, <1>s
    <3> QED BY <3>1 DEF Childs, Items
  <2> QED BY <2>1, <2>2
<1>3. \A x \in N : /\ Kids(tb, x) = Kids(t, x) /\ Size(tb, x) = Size(t, x)
                   /\ \A i : Kid(tb, x, i) = Kid(t, x, i) /\ Item(tb, x, i) = Item(t, x, i)
  BY <1>2 DEF Kids, Size, Kid, Item
<1>r. /\ R \in [Pages -> SUBSET Nat] /\ R[v] = Nat
      /\ RangesDown(t, N, R) /\ Separates(t, N, R) /\ LeavesSorted(t, N, R) /\ RangesInRow(N, nx, R)
  BY <1>1 DEF Ordered, RangesAre
<1> DEFINE R1 == [x \in Pages |-> IF x = q THEN Nat ELSE R[x]]
           N2 == N \cup {q}
<1>4. R1 \in [Pages -> SUBSET Nat] /\ R1[q] = Nat /\ \A x \in N : R1[x] = R[x]
  <2>1. \A x \in Pages : (IF x = q THEN Nat ELSE R[x]) \in SUBSET Nat BY <1>r
  <2>2. R1 \in [Pages -> SUBSET Nat] BY <2>1
  <2>3. \A x \in N : x \in Pages /\ x # q BY <1>s
  <2> QED BY <2>2, <2>3
<1> HIDE DEF R1
<1>5. RangesAre(tb, R1) BY <1>4 DEF RangesAre
<1>6. RangesDown(tb, N2, R1)
  <2>1. SUFFICES ASSUME NEW x \in N2, NEW i \in 1 .. Kids(tb, x), NEW y \in Nat
                 PROVE  y \in R1[Kid(tb, x, i)] <=> y \in R1[x] /\ Passes(tb, x, i, y)
    BY DEF RangesDown
  <2>2. CASE x = q
    <3>1. i = 1 /\ Kid(tb, q, i) = v BY <2>2, <1>q
    <3>2. R1[v] = Nat BY <1>4, <1>r
    <3>3. Passes(tb, q, 1, y) BY <1>q DEF Passes
    <3> QED BY <3>1, <3>2, <3>3, <2>2, <1>4
  <2>3. CASE x \in N
    <3>1. i \in 1 .. Kids(t, x) /\ Kid(tb, x, i) = Kid(t, x, i) /\ Kid(t, x, i) \in N BY <2>3, <1>3, <1>s
    <3>2. Passes(tb, x, i, y) <=> Passes(t, x, i, y) BY <2>3, <1>3 DEF Passes
    <3>3. y \in R[Kid(t, x, i)] <=> y \in R[x] /\ Passes(t, x, i, y) BY <2>3, <3>1, <1>r DEF RangesDown
    <3> QED BY <3>1, <3>2, <3>3, <2>3, <1>4
  <2> QED BY <2>2, <2>3
<1>7. Separates(tb, N2, R1)
  <2>1. SUFFICES ASSUME NEW x \in N2, NEW i \in 2 .. Kids(tb, x)
                 PROVE  /\ Item(tb, x, i) \in R1[x]
                        /\ Item(tb, Kid(tb, x, i), 1) = Item(tb, x, i)
                        /\ \A j \in 2 .. Kids(tb, x) : i < j => Item(tb, x, i) < Item(tb, x, j)
    BY DEF Separates
  <2>2. x # q BY <1>q
  <2>3. x \in N /\ i \in 2 .. Kids(t, x) /\ Kid(tb, x, i) = Kid(t, x, i) BY <2>2, <1>3
  <2>4. i \in 1 .. Kids(t, x)
    <3>1. Kids(t, x) \in Nat BY <2>3, <1>s, <1>g, ShapeFacts
    <3> QED BY <3>1, <2>3
  <2>5. Kid(t, x, i) \in N BY <2>3, <2>4, <1>s
  <2>6. /\ Item(t, x, i) \in R[x]
        /\ Item(t, Kid(t, x, i), 1) = Item(t, x, i)
        /\ \A j \in 2 .. Kids(t, x) : i < j => Item(t, x, i) < Item(t, x, j)
    BY <2>3, <1>r DEF Separates
  <2> QED BY <2>3, <2>5, <2>6, <1>3, <1>4
<1>8. LeavesSorted(tb, N2, R1)
  <2>1. SUFFICES ASSUME NEW x \in N2, Kids(tb, x) = 0, NEW i \in 1 .. Size(tb, x)
                 PROVE  /\ Item(tb, x, i) \in R1[x]
                        /\ \A j \in 1 .. Size(tb, x) : i < j => Item(tb, x, i) < Item(tb, x, j)
    BY DEF LeavesSorted
  <2>2. x # q BY <1>q, <2>1
  <2>3. x \in N /\ Kids(t, x) = 0 /\ i \in 1 .. Size(t, x) BY <2>1, <2>2, <1>3
  <2>4. /\ Item(t, x, i) \in R[x]
        /\ \A j \in 1 .. Size(t, x) : i < j => Item(t, x, i) < Item(t, x, j)
    BY <2>3, <1>r DEF LeavesSorted
  <2> QED BY <2>3, <2>4, <1>3, <1>4
<1>9. RangesInRow(N2, GrownNext(nx, q), R1)
  <2>1. SUFFICES ASSUME NEW x \in N2, GrownNext(nx, q)[x] # 0,
                        NEW y \in R1[x], NEW z \in R1[GrownNext(nx, q)[x]]
                 PROVE  y < z
    BY DEF RangesInRow
  <2>2. x \in Pages /\ GrownNext(nx, q)[x] = IF x = q THEN 0 ELSE nx[x] BY <1>s DEF GrownNext
  <2>3. x \in N /\ nx[x] \in N /\ nx[x] # 0 /\ GrownNext(nx, q)[x] = nx[x] BY <2>1, <2>2, <1>n
  <2>4. y \in R[x] /\ z \in R[nx[x]] BY <2>3, <1>4
  <2> QED BY <2>3, <2>4, <1>r DEF RangesInRow
<1> QED BY <1>5, <1>6, <1>7, <1>8, <1>9 DEF OrderedTree, Ordered, WithPage

(* The sizes after a split.                                                *)
LEMMA SplitSizes ==
  ASSUME NEW t, NEW t2, NEW N, NEW v \in N, NEW u, u \notin N, NEW p \in N, p # v,
         t2.root # v, t2.root # u,
         \A x \in N : Size(t, x) \in Nat,
         \A x \in N \ {v} : Size(t, x) <= EntryLimit,
         \A x \in N \ {v, t2.root} : Size(t, x) >= MinItems,
         t2.root \in N,
         ~Leaf(t2, t2.root) => Size(t, t2.root) >= 2 \/ (t2.root = p /\ Size(t, p) >= 1),
         Size(t2, v) = MinItems, Size(t2, u) = EntryLimit + 1 - MinItems, Size(t2, p) = Size(t, p) + 1,
         \A x \in N \ {v, p} : Size(t2, x) = Size(t, x)
  PROVE  OverSized(t2, WithPage(N, u), p)
<1>m. /\ MinItems \in Nat /\ MinItems >= 2 /\ MinItems < EntryLimit
      /\ 2 * MinItems <= EntryLimit + 1 /\ EntryLimit \in Nat
  BY MinItemsIs, EntryLimitAssumption
<1>1. ASSUME NEW x \in WithPage(N, u)
      PROVE  Size(t2, x) <= IF x = p THEN EntryLimit + 1 ELSE EntryLimit
  <2>1. CASE x = v BY <2>1, <1>m
  <2>2. CASE x = u BY <2>2, <1>m
  <2>3. CASE x = p
    <3>1. Size(t, p) <= EntryLimit /\ Size(t, p) \in Nat OBVIOUS
    <3> QED BY <2>3, <3>1, <1>m
  <2>4. CASE x \in N \ {v, p} BY <2>4
  <2> QED BY <2>1, <2>2, <2>3, <2>4 DEF WithPage
<1>2. ASSUME NEW x \in WithPage(N, u) \ {t2.root} PROVE Size(t2, x) >= MinItems
  <2>1. CASE x = v BY <2>1, <1>m
  <2>2. CASE x = u BY <2>2, <1>m
  <2>3. CASE x = p
    <3>1. Size(t, p) >= MinItems /\ Size(t, p) \in Nat BY <2>3
    <3> QED BY <2>3, <3>1, <1>m
  <2>4. CASE x \in N \ {v, p} BY <2>4
  <2> QED BY <2>1, <2>2, <2>3, <2>4 DEF WithPage
<1>3. ASSUME ~Leaf(t2, t2.root) PROVE Size(t2, t2.root) >= 2
  <2>1. CASE t2.root = p
    <3>1. Size(t, p) \in Nat /\ Size(t, p) >= 1 BY <1>3, <2>1
    <3> QED BY <2>1, <3>1
  <2>2. CASE t2.root # p BY <1>3, <2>2
  <2> QED BY <2>1, <2>2
<1> QED BY <1>1, <1>2, <1>3 DEF OverSized

(* What a call of solveOverflow that splits v leaves behind.               *)
SplitDone(t, t2, N2, h2, n2, p2, v, p) ==
  /\ Good(t2, N2, h2, n2, p2)
  /\ OverSized(t2, N2, p)
  /\ p \in N2
  /\ SameEntries(t, t2)
  /\ t2.entryNum = t.entryNum /\ t2.status = t.status

(* A call of solveOverflow that splits a node below the root.              *)
LEMMA SplitDoneBelow ==
  ASSUME NEW t, NEW N, NEW h, NEW nx, NEW pv, Good(t, N, h, nx, pv), 
         NEW v \in N, OverSized(t, N, v), t.root # v, Size(t, v) > EntryLimit, t.pageNum <= MaxNode
  PROVE  LET u  == t.nextFree
             t2 == LinkSibling(Split(t, v), v, u)
             p  == Parent(Split(t, v), v)
             h2 == LevelWith(h, u, v)
         IN  /\ SplitDone(t, t2, WithPage(N, u), h2, NextWith(nx, v, u), PrevWith(nx, pv, v, u), v, p)
             /\ h2[p] = h[v] + 1
             /\ t2.root = t.root /\ h2[t2.root] = h[t.root]
             /\ t2.pageNum <= t.pageNum + 1
             /\ OrderedTree(t, N, nx) => OrderedTree(t2, WithPage(N, u), NextWith(nx, v, u))
<1> DEFINE ts == Split(t, v)
           u  == t.nextFree
           p  == Parent(t, v)
           r  == Rank(t, v, p)
           t2 == LinkSibling(ts, v, u)
           N2 == WithPage(N, u)
           h2 == LevelWith(h, u, v)
           n2 == NextWith(nx, v, u)
           p2 == PrevWith(nx, pv, v, u)
<1>g. t \in Trees /\ Shape(t, N, h) /\ Links(t, N, h, nx, pv) /\ LeafLinks(t, N, nx, pv) /\ Matched(t, N)
  BY DEF Good
<1>f. Frame(t, N, h, nx, pv) BY <1>g DEF Frame
<1>s. /\ N \subseteq Pages /\ t.root \in N /\ h \in [Pages -> Nat] BY <1>g, ShapeFacts
<1>m. /\ MinItems \in Nat /\ MinItems >= 2 /\ MinItems < EntryLimit
      /\ 2 * MinItems <= EntryLimit + 1 /\ EntryLimit \in Nat
  BY MinItemsIs, EntryLimitAssumption
<1>z. \A x \in N : Size(t, x) \in Nat BY <1>g, <1>s, TreeTypes
<1>o. /\ \A x \in N : Size(t, x) <= IF x = v THEN EntryLimit + 1 ELSE EntryLimit
      /\ \A x \in N \ {t.root} : Size(t, x) >= MinItems
      /\ ~Leaf(t, t.root) => Size(t, t.root) >= 2
  BY DEF OverSized
<1>e. Size(t, v) = EntryLimit + 1 BY <1>o, <1>z, <1>m
<1>1. /\ u \in Pages \ N /\ LeafSize(t, u) = 0
      /\ SplitOf(t, ts, N, v, u)
      /\ Parent(ts, v) = p
      /\ t.pageNum <= ts.pageNum /\ ts.pageNum <= t.pageNum + 1
      /\ ts.entryNum = t.entryNum /\ ts.status = t.status
  BY <1>e, SplitBelow
<1>2. /\ p \in N /\ p # v /\ r \in 1 .. Kids(t, p) /\ Kid(t, p, r) = v /\ h[p] = h[v] + 1
  BY <1>g, RankIs
<1>3. ts \in Trees BY <1>1 DEF SplitOf
<1> HIDE DEF ts, u, p, r, t2
<1>4. p = Parent(t, v) /\ r = Rank(t, v, p) /\ t2 = LinkSibling(ts, v, u) BY DEF p, r, t2
<1>5. /\ Good(t2, WithPage(N, u), LevelWith(h, u, v), NextWith(nx, v, u), PrevWith(nx, pv, v, u))
      /\ t2.root = t.root /\ t2.pageNum = ts.pageNum /\ t2.entryNum = ts.entryNum /\ t2.status = ts.status
      /\ MovedItems(t, t2, v, u)
      /\ Size(t2, v) = MinItems /\ Size(t2, u) = EntryLimit + 1 - MinItems /\ Size(t2, p) = Size(t, p) + 1
      /\ \A x \in N \ {v, p} : Size(t2, x) = Size(t, x)
      /\ \A x \in N : Leaf(t2, x) = Leaf(t, x)
      /\ h[p] = h[v] + 1
      /\ OrderedTree(t, N, nx) => OrderedTree(t2, WithPage(N, u), NextWith(nx, v, u))
  <2>1. Linking(t, ts, N, h, nx, pv, v, u, p, r, t2) BY <1>f, <1>e, <1>1, <1>2, <1>4 DEF Linking
  <2>2. OrderedTree(t, N, nx) => OrderedTree(t2, WithPage(N, u), NextWith(nx, v, u)) BY <2>1, LinkedOrdered
  <2> QED BY <2>1, <2>2, LinkedSplit
<1>6. OverSized(t2, N2, p)
  <2>1. t2.root # v /\ t2.root # u /\ t2.root \in N /\ u \notin N BY <1>5, <1>1, <1>s
  <2>2. \A x \in N \ {v} : Size(t, x) <= EntryLimit BY <1>o
  <2>3. \A x \in N \ {v, t2.root} : Size(t, x) >= MinItems BY <1>o, <1>5
  <2>4. ~Leaf(t2, t2.root) => Size(t, t2.root) >= 2 BY <1>o, <1>5, <1>s
  <2> QED BY <2>1, <2>2, <2>3, <2>4, <1>5, <1>z, <1>2, SplitSizes
<1>7. SameEntries(t, t2)
  <2>1. t2 \in Trees BY <1>5 DEF Good
  <2> QED BY <2>1, <1>g, <1>5, MovedItemsKept
<1>8. SplitDone(t, t2, N2, h2, n2, p2, v, p)
  <2>1. p \in N2 BY <1>2 DEF WithPage
  <2>2. t2.entryNum = t.entryNum /\ t2.status = t.status BY <1>5, <1>1
  <2> QED BY <2>1, <2>2, <1>5, <1>6, <1>7 DEF SplitDone
<1>9. h2[p] = h[v] + 1 /\ h2[t2.root] = h[t.root]
  <2>1. u # p /\ u # t.root /\ u \in Pages BY <1>1, <1>2, <1>s
  <2>2. \A x \in Pages \ {u} : h2[x] = h[x] BY <1>s DEF LevelWith
  <2> QED BY <2>1, <2>2, <1>2, <1>5, <1>s
<1>10. t2.root = t.root /\ t2.pageNum <= t.pageNum + 1 BY <1>5, <1>1
<1>11. Parent(ts, v) = p BY <1>1
<1>12. OrderedTree(t, N, nx) => OrderedTree(t2, WithPage(N, u), NextWith(nx, v, u)) BY <1>5
<1> QED BY <1>8, <1>9, <1>10, <1>11, <1>12 DEF t2, ts, u

(* A call that splits the root.                                            *)
LEMMA SplitDoneRoot ==
  ASSUME NEW t, NEW N, NEW h, NEW nx, NEW pv, Good(t, N, h, nx, pv),
         NEW v \in N, OverSized(t, N, v), t.root = v, Size(t, v) > EntryLimit, t.pageNum + 1 <= MaxNode
  PROVE  LET u  == t.nextFree
             t1 == Split(t, v)
             q  == t1.nextFree
             ts == GrowRoot(t1, v)
             t2 == LinkSibling(ts, v, u)
             N1 == WithPage(N, q)
             h1 == LevelAbove(h, q, v)
             h2 == LevelWith(h1, u, v)
         IN  /\ SplitDone(t, t2, WithPage(N1, u), h2, NextWith(GrownNext(nx, q), v, u),
                          PrevWith(GrownNext(nx, q), GrownNext(pv, q), v, u), v, q)
             /\ Parent(ts, v) = q
             /\ h2[q] = h[v] + 1
             /\ t2.root = q /\ Size(t2, q) = 2
             /\ t2.pageNum <= t.pageNum + 2
             /\ OrderedTree(t, N, nx) => OrderedTree(t2, WithPage(N1, u), NextWith(GrownNext(nx, q), v, u))
<1> DEFINE u  == t.nextFree
           t1 == Split(t, v)
           q  == t1.nextFree
           ts == GrowRoot(t1, v)
           tb == Raised(t, q, v, ts.node[q])
           t2 == LinkSibling(ts, v, u)
           N1 == WithPage(N, q)
           h1 == LevelAbove(h, q, v)
           nx1 == GrownNext(nx, q)
           pv1 == GrownNext(pv, q)
           N2 == WithPage(N1, u)
           h2 == LevelWith(h1, u, v)
           n2 == NextWith(nx1, v, u)
           p2 == PrevWith(nx1, pv1, v, u)
<1>g. t \in Trees /\ Shape(t, N, h) BY DEF Good
<1>s. N \subseteq Pages /\ h \in [Pages -> Nat] BY <1>g, ShapeFacts
<1>m. /\ MinItems \in Nat /\ MinItems >= 2 /\ MinItems < EntryLimit
      /\ 2 * MinItems <= EntryLimit + 1 /\ EntryLimit \in Nat
  BY MinItemsIs, EntryLimitAssumption
<1>z. \A x \in N : Size(t, x) \in Nat BY <1>g, <1>s, TreeTypes
<1>o. /\ \A x \in N : Size(t, x) <= IF x = v THEN EntryLimit + 1 ELSE EntryLimit
      /\ \A x \in N \ {t.root} : Size(t, x) >= MinItems
  BY DEF OverSized
<1>e. Size(t, v) = EntryLimit + 1 BY <1>o, <1>z, <1>m
<1>1. /\ q \in Pages \ N /\ u \in Pages \ N1
      /\ tb \in Trees /\ tb.root = q
      /\ Frame(tb, N1, h1, nx1, pv1)
      /\ SplitOf(tb, ts, N1, v, u)
      /\ LeafSize(tb, u) = 0
      /\ SameEntries(t, tb)
      /\ Rank(tb, v, q) = 1 /\ Parent(tb, v) = q /\ Parent(ts, v) = q
      /\ RootAbove(tb, q, v)
      /\ \A x \in Pages \ {q} : Size(tb, x) = Size(t, x) /\ Leaf(tb, x) = Leaf(t, x)
      /\ t.pageNum <= ts.pageNum /\ ts.pageNum <= t.pageNum + 2
      /\ ts.entryNum = t.entryNum /\ ts.status = t.status
  <2>1. t.root = v OBVIOUS
  <2> QED BY <2>1, <1>e, SplitRoot
<1>i. OrderedTree(t, N, nx) => OrderedTree(tb, N1, nx1)
  <2> HIDE DEF q, ts
  <2>1. ts \in Trees BY <1>1 DEF SplitOf
  <2>2. /\ v \in Pages /\ q \in Pages /\ q # v /\ ts.node[q] \in TreeNodes BY <2>1, <1>1, <1>s DEF Trees
  <2>3. /\ tb.node[v] = [t.node[v] EXCEPT !.parent = q]
        /\ \A x \in Pages \ {q, v} : tb.node[x] = t.node[x]
    BY <2>2, <1>g, RaisedIs
  <2> HIDE DEF tb
  <2>4. t.root = v OBVIOUS
  <2> QED BY <2>3, <2>4, <1>1, RaisedOrdered
<1> HIDE DEF ts, u, t1, q, tb, N1, h1, nx1, pv1
<1>2. t2 = LinkSibling(ts, v, u) OBVIOUS
<1> HIDE DEF t2
<1>3. q # v /\ v \in N1 /\ q \in N1 /\ N1 = N \cup {q} /\ v \in Pages BY <1>1, <1>s DEF N1, WithPage
<1>4. Size(tb, q) = 1 /\ Kids(tb, q) = 1 /\ Kid(tb, q, 1) = v BY <1>1 DEF RootAbove
<1>5. Size(tb, v) = EntryLimit + 1 BY <1>1, <1>3, <1>e
<1>6. Linking(tb, ts, N1, h1, nx1, pv1, v, u, q, 1, t2)
  <2>1. 1 \in 1 .. Kids(tb, q) BY <1>4
  <2> QED BY <2>1, <1>1, <1>2, <1>3, <1>4, <1>5 DEF Linking
<1>7. /\ Good(t2, N2, h2, n2, p2)
      /\ t2.root = tb.root /\ t2.pageNum = ts.pageNum /\ t2.entryNum = ts.entryNum /\ t2.status = ts.status
      /\ MovedItems(tb, t2, v, u)
      /\ Size(t2, v) = MinItems /\ Size(t2, u) = EntryLimit + 1 - MinItems /\ Size(t2, q) = Size(tb, q) + 1
      /\ \A x \in N1 \ {v, q} : Size(t2, x) = Size(tb, x)
      /\ \A x \in N1 : Leaf(t2, x) = Leaf(tb, x)
  BY <1>6, LinkedSplit
<1>8. t2.root = q BY <1>7, <1>1
<1>9. Size(t2, q) = 2 BY <1>7, <1>4
<1>10. OverSized(t2, N2, q)
  <2>1. \A x \in N : x \in Pages \ {q} BY <1>1, <1>s
  <2>2. \A x \in N : Size(tb, x) = Size(t, x) BY <2>1, <1>1
  <2>3. \A x \in N1 : Size(tb, x) \in Nat BY <2>2, <1>z, <1>3, <1>4
  <2>4. \A x \in N1 \ {v} : Size(tb, x) <= EntryLimit BY <2>2, <1>o, <1>3, <1>4, <1>m
  <2>5. \A x \in N1 \ {v, t2.root} : Size(tb, x) >= MinItems BY <2>2, <1>o, <1>3, <1>8
  <2>6. /\ u \notin N1 /\ q # v /\ q \in N1 /\ t2.root # v /\ t2.root # u /\ t2.root \in N1
    BY <1>1, <1>3, <1>8
  <2>7. ~Leaf(t2, t2.root) => Size(tb, t2.root) >= 2 \/ (t2.root = q /\ Size(tb, q) >= 1) BY <1>8, <1>4
  <2> QED BY <2>3, <2>4, <2>5, <2>6, <2>7, <1>3, <1>7, SplitSizes
<1>11. SameEntries(t, t2)
  <2>1. t2 \in Trees BY <1>7 DEF Good
  <2>2. SameEntries(tb, t2) BY <2>1, <1>1, <1>7, MovedItemsKept
  <2> QED BY <2>2, <1>1, SameEntriesStep
<1>12. SplitDone(t, t2, N2, h2, n2, p2, v, q)
  <2>1. q \in N2 BY <1>3 DEF WithPage
  <2>2. t2.entryNum = t.entryNum /\ t2.status = t.status BY <1>7, <1>1
  <2> QED BY <2>1, <2>2, <1>7, <1>10, <1>11 DEF SplitDone
<1>13. h2[q] = h[v] + 1
  <2>1. h1[q] = h[v] + 1 /\ h1 \in [Pages -> Nat]
    BY <1>1, <1>s, <1>3 DEF h1, LevelAbove
  <2>2. u # q BY <1>1, <1>3
  <2> QED BY <2>1, <2>2, <1>1 DEF LevelWith
<1>14. t2.pageNum <= t.pageNum + 2 /\ Parent(ts, v) = q BY <1>7, <1>1
<1>15. OrderedTree(t, N, nx) => OrderedTree(t2, N2, n2) BY <1>i, <1>6, LinkedOrdered
<1> QED BY <1>8, <1>9, <1>12, <1>13, <1>14, <1>15 DEF t2, ts, t1, q, u, N1, h1, nx1, pv1

Iterates(f, K, X, b, F) ==
  f \in [0 .. K -> X] /\ f[0] = b /\ \A n \in 1 .. K : f[n] = F[f[n - 1]]

(* Repeating a call.                                                       *)
LEMMA Iteration ==
  ASSUME NEW K \in Nat, NEW X, NEW b \in X, NEW F \in [X -> X]
  PROVE  \E f : Iterates(f, K, X, b, F)
<1> DEFINE S == 0 .. K
           h == [n \in S |-> n]
           G == [x \in S \X [S -> X] |-> IF x[1] = 0 THEN b ELSE F[x[2][x[1] - 1]]]
<1>1. h \in [S -> 0 .. K] OBVIOUS
<1>2. \A v \in S : v # 0 => v - 1 \in S OBVIOUS
<1>3. G \in [S \X [S -> X] -> X] BY <1>2
<1>4. \A v \in S : \A f \in [S -> X] : G[<<v, f>>] = IF v = 0 THEN b ELSE F[f[v - 1]]
  <2> HIDE DEF S
  <2> QED OBVIOUS
<1>5. \A v \in S : \A f, g \in [S -> X] :
        (\A w \in S : h[w] < h[v] => f[w] = g[w]) => G[<<v, f>>] = G[<<v, g>>]
  <2> HIDE DEF G
  <2>1. SUFFICES ASSUME NEW v \in S, NEW f \in [S -> X], NEW g \in [S -> X],
                        \A w \in S : h[w] < h[v] => f[w] = g[w]
                 PROVE  G[<<v, f>>] = G[<<v, g>>]
    OBVIOUS
  <2>2. v # 0 => f[v - 1] = g[v - 1] BY <1>2, <2>1
  <2> QED BY <2>2, <1>4
<1>6. IsRecursion(S, X, K, h, G)
  <2> HIDE DEF S, h, G
  <2>1. X # {} OBVIOUS
  <2> QED BY <2>1, <1>1, <1>3, <1>5 DEF IsRecursion
<1>7. \E f \in [S -> X] : \A v \in S : f[v] = G[<<v, f>>]
  <2> HIDE DEF S, h, G
  <2> QED BY <1>6, RecursionExists
<1>8. PICK f \in [S -> X] : \A v \in S : f[v] = G[<<v, f>>] BY <1>7
<1>9. 0 \in S /\ \A n \in 1 .. K : n \in S /\ n # 0 OBVIOUS
<1>11. \A v \in S : f[v] = IF v = 0 THEN b ELSE F[f[v - 1]]
  <2> HIDE DEF G, S
  <2> QED BY <1>8, <1>4
<1>10. f[0] = b /\ \A n \in 1 .. K : f[n] = F[f[n - 1]]
  <2> HIDE DEF S
  <2> QED BY <1>9, <1>11
<1> QED BY <1>10 DEF Iterates

(* What each call keeps holds after any number of calls.                   *)
LEMMA IterationKeeps ==
  ASSUME NEW K \in Nat, NEW f, NEW I, <<0, f[0]>> \in I,
         \A n \in 0 .. K - 1 : <<n, f[n]>> \in I => <<n + 1, f[n + 1]>> \in I
  PROVE  \A n \in 0 .. K : <<n, f[n]>> \in I
<1> DEFINE S == {n \in Nat : n <= K => <<n, f[n]>> \in I}
<1>1. 0 \in S OBVIOUS
<1>2. \A n \in S : n + 1 \in S
  <2>1. SUFFICES ASSUME NEW n \in S, n + 1 <= K PROVE <<n + 1, f[n + 1]>> \in I OBVIOUS
  <2>2. n \in 0 .. K - 1 /\ n <= K BY <2>1
  <2>3. <<n, f[n]>> \in I BY <2>2
  <2> QED BY <2>2, <2>3
<1>3. S = Nat
  <2>1. S \in SUBSET Nat OBVIOUS
  <2> HIDE DEF S
  <2> QED BY <2>1, <1>1, <1>2, Induction
<1> QED BY <1>3

CallRecords == [tree : Trees, at : Nat]

(* What the calls keep, as a set of pairs of a number and a call, holds of *)
(* the last one.                                                           *)
LEMMA SolveOverflowIs ==
  ASSUME NEW t \in Trees, NEW v \in Nat, Calls(t) \in Nat,
         NEW I, I \subseteq Nat \X CallRecords, <<0, [tree |-> t, at |-> v]>> \in I,
         \A n \in 0 .. Calls(t) - 1 : \A c \in CallRecords : <<n, c>> \in I => <<n + 1, Overflow(c)>> \in I
  PROVE  \E c \in CallRecords : <<Calls(t), c>> \in I /\ SolveOverflow(t, v) = c.tree
<1> DEFINE K == Calls(t)
           b == [tree |-> t, at |-> v]
           X == CallRecords
           F == [c \in X |-> IF Overflow(c) \in X THEN Overflow(c) ELSE b]
           Is(f) == f = [n \in 0 .. K |-> IF n = 0 THEN b ELSE Overflow(f[n - 1])]
           call == CHOOSE f : Is(f)
<1>1. SolveOverflow(t, v) = call[K].tree BY DEF SolveOverflow
<1>2. b \in X BY DEF CallRecords
<1>3. <<0, b>> \in I OBVIOUS
<1> HIDE DEF K, b, X
<1>4. K \in Nat BY DEF K
<1>5. F \in [X -> X] BY <1>2
<1>6. \A n \in 0 .. K - 1 : \A c \in X : <<n, c>> \in I => <<n + 1, Overflow(c)>> \in I BY DEF K, X
<1>7. \A n : \A c : <<n, c>> \in I => c \in X BY DEF X
<1>8. \A c \in X : F[c] = IF Overflow(c) \in X THEN Overflow(c) ELSE b OBVIOUS
<1> HIDE DEF F
<1>9. PICK f \in [0 .. K -> X] : f[0] = b /\ \A n \in 1 .. K : f[n] = F[f[n - 1]]
  <2>1. \E f : Iterates(f, K, X, b, F) BY <1>2, <1>4, <1>5, Iteration
  <2> QED BY <2>1 DEF Iterates
<1>10. \A n \in 0 .. K - 1 : <<n, f[n]>> \in I => f[n + 1] = Overflow(f[n]) /\ <<n + 1, f[n + 1]>> \in I
  <2>1. SUFFICES ASSUME NEW n \in 0 .. K - 1, <<n, f[n]>> \in I
                 PROVE  f[n + 1] = Overflow(f[n]) /\ <<n + 1, f[n + 1]>> \in I
    OBVIOUS
  <2>2. n \in 0 .. K /\ n + 1 \in 1 .. K /\ (n + 1) - 1 = n BY <1>4
  <2>3. f[n] \in X BY <2>2
  <2>4. <<n + 1, Overflow(f[n])>> \in I BY <2>1, <2>3, <1>6
  <2>5. Overflow(f[n]) \in X BY <2>4, <1>7
  <2>6. f[n + 1] = F[f[n]] BY <2>2, <1>9
  <2> QED BY <2>3, <2>4, <2>5, <2>6, <1>8
<1>11. \A n \in 0 .. K : <<n, f[n]>> \in I
  <2>1. <<0, f[0]>> \in I BY <1>9, <1>3
  <2>2. \A n \in 0 .. K - 1 : <<n, f[n]>> \in I => <<n + 1, f[n + 1]>> \in I BY <1>10
  <2> QED BY <2>1, <2>2, <1>4, IterationKeeps
<1>12. \A n \in 0 .. K : f[n] = IF n = 0 THEN b ELSE Overflow(f[n - 1])
  <2>1. SUFFICES ASSUME NEW n \in 0 .. K, n # 0 PROVE f[n] = Overflow(f[n - 1]) BY <1>9
  <2>2. n - 1 \in 0 .. K - 1 /\ n - 1 \in 0 .. K /\ (n - 1) + 1 = n BY <2>1, <1>4
  <2> QED BY <2>2, <1>10, <1>11
<1>13. Is(f) BY <1>12
<1>14. Is(call)
  <2>1. \E g : Is(g) BY <1>13
  <2> HIDE DEF Is
  <2> QED BY <2>1
<1> HIDE DEF call
<1>15. call[0] = b /\ \A n \in 0 .. K - 1 : call[n + 1] = Overflow(call[n])
  <2>1. \A n \in 0 .. K : call[n] = IF n = 0 THEN b ELSE Overflow(call[n - 1]) BY <1>14
  <2>2. 0 \in 0 .. K BY <1>4
  <2>3. \A n \in 0 .. K - 1 : n + 1 \in 0 .. K /\ n + 1 # 0 /\ (n + 1) - 1 = n BY <1>4
  <2> QED BY <2>1, <2>2, <2>3
<1>16. \A n \in 0 .. K : <<n, call[n]>> \in I
  <2>1. <<0, call[0]>> \in I BY <1>15, <1>3
  <2>2. \A n \in 0 .. K - 1 : <<n, call[n]>> \in I => <<n + 1, call[n + 1]>> \in I BY <1>15, <1>6, <1>7
  <2> QED BY <2>1, <2>2, <1>4, IterationKeeps
<1>17. <<K, call[K]>> \in I /\ call[K] \in X BY <1>4, <1>16, <1>7
<1> QED BY <1>1, <1>17 DEF K, X

(* And for solveUnderflow.                                                 *)
LEMMA SolveUnderflowIs ==
  ASSUME NEW t \in Trees, NEW v \in Nat, Calls(t) \in Nat,
         NEW I, I \subseteq Nat \X CallRecords, <<0, [tree |-> t, at |-> v]>> \in I,
         \A n \in 0 .. Calls(t) - 1 : \A c \in CallRecords : <<n, c>> \in I => <<n + 1, Underflow(c)>> \in I
  PROVE  \E c \in CallRecords : <<Calls(t), c>> \in I /\ SolveUnderflow(t, v) = c.tree
<1> DEFINE K == Calls(t)
           b == [tree |-> t, at |-> v]
           X == CallRecords
           F == [c \in X |-> IF Underflow(c) \in X THEN Underflow(c) ELSE b]
           Is(f) == f = [n \in 0 .. K |-> IF n = 0 THEN b ELSE Underflow(f[n - 1])]
           call == CHOOSE f : Is(f)
<1>1. SolveUnderflow(t, v) = call[K].tree BY DEF SolveUnderflow
<1>2. b \in X BY DEF CallRecords
<1>3. <<0, b>> \in I OBVIOUS
<1> HIDE DEF K, b, X
<1>4. K \in Nat BY DEF K
<1>5. F \in [X -> X] BY <1>2
<1>6. \A n \in 0 .. K - 1 : \A c \in X : <<n, c>> \in I => <<n + 1, Underflow(c)>> \in I BY DEF K, X
<1>7. \A n : \A c : <<n, c>> \in I => c \in X BY DEF X
<1>8. \A c \in X : F[c] = IF Underflow(c) \in X THEN Underflow(c) ELSE b OBVIOUS
<1> HIDE DEF F
<1>9. PICK f \in [0 .. K -> X] : f[0] = b /\ \A n \in 1 .. K : f[n] = F[f[n - 1]]
  <2>1. \E f : Iterates(f, K, X, b, F) BY <1>2, <1>4, <1>5, Iteration
  <2> QED BY <2>1 DEF Iterates
<1>10. \A n \in 0 .. K - 1 : <<n, f[n]>> \in I => f[n + 1] = Underflow(f[n]) /\ <<n + 1, f[n + 1]>> \in I
  <2>1. SUFFICES ASSUME NEW n \in 0 .. K - 1, <<n, f[n]>> \in I
                 PROVE  f[n + 1] = Underflow(f[n]) /\ <<n + 1, f[n + 1]>> \in I
    OBVIOUS
  <2>2. n \in 0 .. K /\ n + 1 \in 1 .. K /\ (n + 1) - 1 = n BY <1>4
  <2>3. f[n] \in X BY <2>2
  <2>4. <<n + 1, Underflow(f[n])>> \in I BY <2>1, <2>3, <1>6
  <2>5. Underflow(f[n]) \in X BY <2>4, <1>7
  <2>6. f[n + 1] = F[f[n]] BY <2>2, <1>9
  <2> QED BY <2>3, <2>4, <2>5, <2>6, <1>8
<1>11. \A n \in 0 .. K : <<n, f[n]>> \in I
  <2>1. <<0, f[0]>> \in I BY <1>9, <1>3
  <2>2. \A n \in 0 .. K - 1 : <<n, f[n]>> \in I => <<n + 1, f[n + 1]>> \in I BY <1>10
  <2> QED BY <2>1, <2>2, <1>4, IterationKeeps
<1>12. \A n \in 0 .. K : f[n] = IF n = 0 THEN b ELSE Underflow(f[n - 1])
  <2>1. SUFFICES ASSUME NEW n \in 0 .. K, n # 0 PROVE f[n] = Underflow(f[n - 1]) BY <1>9
  <2>2. n - 1 \in 0 .. K - 1 /\ n - 1 \in 0 .. K /\ (n - 1) + 1 = n BY <2>1, <1>4
  <2> QED BY <2>2, <1>10, <1>11
<1>13. Is(f) BY <1>12
<1>14. Is(call)
  <2>1. \E g : Is(g) BY <1>13
  <2> HIDE DEF Is
  <2> QED BY <2>1
<1> HIDE DEF call
<1>15. call[0] = b /\ \A n \in 0 .. K - 1 : call[n + 1] = Underflow(call[n])
  <2>1. \A n \in 0 .. K : call[n] = IF n = 0 THEN b ELSE Underflow(call[n - 1]) BY <1>14
  <2>2. 0 \in 0 .. K BY <1>4
  <2>3. \A n \in 0 .. K - 1 : n + 1 \in 0 .. K /\ n + 1 # 0 /\ (n + 1) - 1 = n BY <1>4
  <2> QED BY <2>1, <2>2, <2>3
<1>16. \A n \in 0 .. K : <<n, call[n]>> \in I
  <2>1. <<0, call[0]>> \in I BY <1>15, <1>3
  <2>2. \A n \in 0 .. K - 1 : <<n, call[n]>> \in I => <<n + 1, call[n + 1]>> \in I BY <1>15, <1>6, <1>7
  <2> QED BY <2>1, <2>2, <1>4, IterationKeeps
<1>17. <<K, call[K]>> \in I /\ call[K] \in X BY <1>4, <1>16, <1>7
<1> QED BY <1>1, <1>17 DEF K, X

(* The order does not depend on the first item of the root.                *)
LEMMA OrderedKept ==
  ASSUME NEW t, NEW t2, NEW N, NEW h, NEW nx, NEW pv, Good(t, N, h, nx, pv), NEW R, Ordered(t, N, nx, R),
         \A x \in N \ {t.root} : Size(t, x) >= 1,
         t2.root = t.root,
         \A x \in N : Childs(t2, x) = Childs(t, x) /\ Size(t2, x) = Size(t, x),
         \A x \in N : \A i \in 1 .. Size(t, x) :
           Item(t2, x, i) = Item(t, x, i) \/ (x = t.root /\ i = 1 /\ Kids(t, x) # 0)
  PROVE  Ordered(t2, N, nx, R)
<1>g. t \in Trees /\ Shape(t, N, h) /\ Matched(t, N) BY DEF Good
<1>s. /\ N \subseteq Pages
      /\ \A x \in N : \A i \in 1 .. Kids(t, x) : Kid(t, x, i) \in N
  BY <1>g, ShapeFacts
<1>z. \A x \in N : Size(t, x) \in Nat /\ Kids(t, x) \in Nat BY <1>g, <1>s, TreeTypes
<1>k. \A x \in N : Kids(t2, x) = Kids(t, x) /\ \A i : Kid(t2, x, i) = Kid(t, x, i) BY DEF Kids, Kid
<1>1. \A x \in N : \A i \in 2 .. Kids(t, x) : Item(t2, x, i) = Item(t, x, i)
  <2>1. SUFFICES ASSUME NEW x \in N, NEW i \in 2 .. Kids(t, x) PROVE Item(t2, x, i) = Item(t, x, i) OBVIOUS
  <2>2. Kids(t, x) # 0 /\ i # 1 BY <1>z
  <2>3. Size(t, x) = Kids(t, x) BY <2>2, <1>g DEF Matched
  <2>4. i \in 1 .. Size(t, x) BY <2>3, <1>z
  <2> QED BY <2>2, <2>4
<1>2. \A x \in N : \A i \in 2 .. Kids(t, x) : Item(t2, Kid(t, x, i), 1) = Item(t, Kid(t, x, i), 1)
  <2>1. SUFFICES ASSUME NEW x \in N, NEW i \in 2 .. Kids(t, x)
                 PROVE  Item(t2, Kid(t, x, i), 1) = Item(t, Kid(t, x, i), 1)
    OBVIOUS
  <2> DEFINE c == Kid(t, x, i)
  <2>2. i \in 1 .. Kids(t, x) BY <1>z
  <2>3. c \in N /\ c # t.root BY <2>2, <1>g, RankOf
  <2> HIDE DEF c
  <2>4. 1 \in 1 .. Size(t, c) BY <2>3, <1>z
  <2>5. Item(t2, c, 1) = Item(t, c, 1) BY <2>3, <2>4
  <2> QED BY <2>5 DEF c
<1>r. /\ RangesAre(t, R) /\ RangesDown(t, N, R) /\ Separates(t, N, R)
      /\ LeavesSorted(t, N, R) /\ RangesInRow(N, nx, R)
  BY DEF Ordered
<1>3. RangesAre(t2, R) BY <1>r DEF RangesAre
<1>4. RangesDown(t2, N, R)
  <2>1. SUFFICES ASSUME NEW x \in N, NEW i \in 1 .. Kids(t, x), NEW y \in Nat
                 PROVE  y \in R[Kid(t, x, i)] <=> y \in R[x] /\ Passes(t2, x, i, y)
    BY <1>k DEF RangesDown
  <2>2. Kids(t, x) \in Nat BY <1>z
  <2>3. i > 1 => i \in 2 .. Kids(t, x) BY <2>2
  <2>4. i < Kids(t, x) => i + 1 \in 2 .. Kids(t, x) BY <2>2
  <2>5. Passes(t2, x, i, y) <=> Passes(t, x, i, y) BY <2>3, <2>4, <1>1, <1>k DEF Passes
  <2> QED BY <2>5, <1>r DEF RangesDown
<1>5. Separates(t2, N, R)
  <2>1. SUFFICES ASSUME NEW x \in N, NEW i \in 2 .. Kids(t, x)
                 PROVE  /\ Item(t2, x, i) \in R[x]
                        /\ Item(t2, Kid(t, x, i), 1) = Item(t2, x, i)
                        /\ \A j \in 2 .. Kids(t, x) : i < j => Item(t2, x, i) < Item(t2, x, j)
    BY <1>k DEF Separates
  <2> QED BY <1>1, <1>2, <1>r DEF Separates
<1>6. LeavesSorted(t2, N, R)
  <2>1. SUFFICES ASSUME NEW x \in N, Kids(t, x) = 0, NEW i \in 1 .. Size(t, x)
                 PROVE  /\ Item(t2, x, i) \in R[x]
                        /\ \A j \in 1 .. Size(t, x) : i < j => Item(t2, x, i) < Item(t2, x, j)
    BY <1>k DEF LeavesSorted
  <2>2. \A j \in 1 .. Size(t, x) : Item(t2, x, j) = Item(t, x, j) BY <2>1
  <2> QED BY <2>1, <2>2, <1>r DEF LeavesSorted
<1> QED BY <1>3, <1>4, <1>5, <1>6, <1>r DEF Ordered

(* updateToRoot sets an item only to what it is, or the root's first item. *)
LEMMA UpdateToRootOrdered ==
  ASSUME NEW t, NEW N, NEW h, NEW nx, NEW pv, Good(t, N, h, nx, pv), NEW v \in N,
         OrderedTree(t, N, nx), \A x \in N \ {t.root} : Size(t, x) >= 1,
         NEW t2, t2 = UpdateToRoot(t, v), t2.status = "ok"
  PROVE  OrderedTree(t2, N, nx)
<1>1. PICK R : Ordered(t, N, nx, R) BY DEF OrderedTree
<1>g. t \in Trees /\ Shape(t, N, h) /\ Matched(t, N) BY DEF Good
<1>s. /\ N \subseteq Pages /\ 0 \notin Pages /\ Parent(t, t.root) = 0
      /\ \A x \in N \ {t.root} : Parent(t, x) \in N
  BY <1>g, ShapeFacts
<1> DEFINE p == Parent(t, v)
           r == Rank(t, v, p)
           e == Item(t, v, 1)
           u == SetItem(t, p, r, e)
<1>2. CASE p = 0 \/ Items(t, v) = <<>>
  <2>1. t2 = t BY <1>2 DEF UpdateToRoot, NULL_NODE
  <2> QED BY <2>1
<1>3. CASE ~(p = 0 \/ Items(t, v) = <<>>)
  <2>1. v # t.root BY <1>3, <1>s
  <2>2. /\ p \in N /\ p # v /\ r \in 1 .. Kids(t, p) /\ Kid(t, p, r) = v
    BY <2>1, <1>g, RankIs
  <2>3. t2 = IF r = 1 /\ Parent(t, p) # 0 THEN [u EXCEPT !.status = "hung"] ELSE u
    BY <1>3 DEF UpdateToRoot, NULL_NODE, Item
  <2>4. e \in Entries
    <3>1. Size(t, v) \in Nat /\ Size(t, v) # 0 BY <1>3, <1>g, <1>s, TreeTypes
    <3>2. 1 \in 1 .. Size(t, v) BY <3>1
    <3> QED BY <3>2, <1>g, <1>s, TreeTypes
  <2> HIDE DEF p, r, e
  <2>5. /\ u \in Trees /\ SameHead(t, u) /\ u.status = t.status
        /\ \A x \in Pages \ {p} : u.node[x] = t.node[x]
        /\ u.node[p] = [t.node[p] EXCEPT !.items = Items(u, p)]
        /\ Size(u, p) = Size(t, p)
        /\ \A i \in 1 .. Size(t, p) : Item(u, p, i) = IF i = r THEN e ELSE Item(t, p, i)
    BY <2>2, <2>4, <1>g, <1>s, SetItemIs
  <2> HIDE DEF u
  <2>6. ~(r = 1 /\ Parent(t, p) # 0)
    <3>1. SUFFICES ASSUME r = 1 /\ Parent(t, p) # 0 PROVE FALSE OBVIOUS
    <3>2. t2 = [u EXCEPT !.status = "hung"] BY <2>3, <3>1
    <3>3. t2.status = "hung" BY <3>2, <2>5 DEF Trees
    <3> QED BY <3>3
  <2>7. t2 = u BY <2>3, <2>6
  <2>8. u.root = t.root BY <2>5 DEF SameHead
  <2>9. \A x \in N : Childs(u, x) = Childs(t, x) /\ Size(u, x) = Size(t, x)
    <3>1. Childs(u, p) = Childs(t, p)
      <4>1. t.node[p] \in TreeNodes BY <2>2, <1>g, <1>s DEF Trees
      <4> QED BY <4>1, <2>5 DEF TreeNodes, Childs
    <3>2. \A x \in N \ {p} : Childs(u, x) = Childs(t, x) /\ Size(u, x) = Size(t, x)
      BY <2>5, <1>s DEF Childs, Size, Items
    <3> QED BY <3>1, <3>2, <2>5
  <2>10. Kids(t, p) \in Nat /\ Kids(t, p) # 0
    <3>1. Kids(t, p) \in Nat BY <2>2, <1>g, <1>s, TreeTypes
    <3> QED BY <3>1, <2>2
  <2>11. r > 1 => e = Item(t, p, r)
    <3>1. SUFFICES ASSUME r > 1 PROVE e = Item(t, p, r) OBVIOUS
    <3>2. r \in 2 .. Kids(t, p) BY <3>1, <2>2, <2>10
    <3>3. Separates(t, N, R) BY <1>1 DEF Ordered
    <3>4. Item(t, Kid(t, p, r), 1) = Item(t, p, r) BY <3>2, <3>3, <2>2 DEF Separates
    <3> QED BY <3>4, <2>2 DEF e
  <2>12. r = 1 => p = t.root
    <3>1. SUFFICES ASSUME r = 1, p # t.root PROVE FALSE OBVIOUS
    <3>2. Parent(t, p) \in N BY <3>1, <2>2, <1>s
    <3> QED BY <3>1, <3>2, <2>6, <1>s
  <2>13. ASSUME NEW x \in N, NEW i \in 1 .. Size(t, x)
         PROVE  Item(u, x, i) = Item(t, x, i) \/ (x = t.root /\ i = 1 /\ Kids(t, x) # 0)
    <3>1. CASE x # p
      <4>1. u.node[x] = t.node[x] BY <3>1, <2>5, <1>s
      <4> QED BY <4>1 DEF Item, Items
    <3>2. CASE x = p
      <4>1. Item(u, p, i) = IF i = r THEN e ELSE Item(t, p, i) BY <3>2, <2>5
      <4>2. CASE i # r BY <4>1, <4>2, <3>2
      <4>3. CASE i = r /\ r > 1 BY <4>1, <4>3, <3>2, <2>11
      <4>4. CASE i = r /\ r = 1 BY <4>4, <3>2, <2>10, <2>12
      <4> QED BY <4>2, <4>3, <4>4, <2>2, <2>10
    <3> QED BY <3>1, <3>2
  <2>14. Ordered(u, N, nx, R) BY <2>8, <2>9, <2>13, <1>1, OrderedKept
  <2> QED BY <2>14, <2>7 DEF OrderedTree
<1> QED BY <1>2, <1>3

(* A change of separators.                                                 *)
LEMMA InnerItemsKept ==
  ASSUME NEW t, NEW t2, NEW N, NEW h, NEW nx, NEW pv, Good(t, N, h, nx, pv), InnerItems(t, t2)
  PROVE  /\ Good(t2, N, h, nx, pv)
         /\ SameEntries(t, t2)
         /\ t2.root = t.root /\ t2.entryNum = t.entryNum /\ t2.pageNum = t.pageNum
         /\ \A x \in Pages : Size(t2, x) = Size(t, x) /\ Leaf(t2, x) = Leaf(t, x)
<1>1. /\ OtherItems(t, t2)
      /\ \A x \in Pages : Size(t2, x) = Size(t, x)
      /\ \A x \in Pages : Leaf(t, x) => Items(t2, x) = Items(t, x)
  BY DEF InnerItems
<1>2. Good(t2, N, h, nx, pv) BY <1>1, OtherItemsGood
<1>3. /\ t2.root = t.root /\ t2.entryNum = t.entryNum /\ t2.pageNum = t.pageNum
      /\ \A x \in Pages : Leaf(t2, x) = Leaf(t, x)
  BY <1>1 DEF OtherItems
<1>4. \A x \in Pages : LeafSize(t2, x) = LeafSize(t, x)
                       /\ \A i \in 1 .. LeafSize(t, x) : Item(t2, x, i) = Item(t, x, i)
  <2>1. SUFFICES ASSUME NEW x \in Pages
                 PROVE LeafSize(t2, x) = LeafSize(t, x)
                       /\ \A i \in 1 .. LeafSize(t, x) : Item(t2, x, i) = Item(t, x, i)
    OBVIOUS
  <2>2. CASE Leaf(t, x)
    <3>1. LeafSize(t2, x) = LeafSize(t, x) BY <1>1, <1>3 DEF LeafSize
    <3>2. Items(t2, x) = Items(t, x) BY <2>2, <1>1
    <3> QED BY <3>1, <3>2 DEF Item
  <2>3. CASE ~Leaf(t, x)
    <3>1. LeafSize(t2, x) = 0 /\ LeafSize(t, x) = 0 BY <2>3, <1>3 DEF LeafSize
    <3> QED BY <3>1
  <2> QED BY <2>2, <2>3
<1>5. SameEntries(t, t2) BY <1>4, LeavesKept
<1> QED BY <1>1, <1>2, <1>3, <1>5

(* The calls of solveOverflow: in call n, v is on level n + 1, and there   *)
(* is a page for each split that may follow.                               *)
Climbing(t, v, N, h, H, n) ==
  /\ v \in N /\ h[v] = n + 1
  /\ \/ h[t.root] = H /\ (Size(t, v) > EntryLimit => t.pageNum + H <= MaxNode + n)
     \/ h[t.root] = H + 1 /\ t.root = v /\ Size(t, v) <= EntryLimit

OverflowKeeps(t0, H, ord, n, c) ==
  \E N, h, nx, pv :
    /\ Good(c.tree, N, h, nx, pv)
    /\ OverSized(c.tree, N, c.at)
    /\ SameEntries(t0, c.tree) /\ c.tree.entryNum = t0.entryNum
    /\ c.at # 0 => c.tree.status = "ok" /\ Climbing(c.tree, c.at, N, h, H, n)
    /\ (ord /\ c.tree.status = "ok") => OrderedTree(c.tree, N, nx)

(* The three branches of solveOverflow.                                    *)
LEMMA OverflowStays ==
  ASSUME NEW t, NEW v, v # 0, Size(t, v) <= EntryLimit
  PROVE  Overflow([tree |-> t, at |-> v]) = [tree |-> UpdateToRoot(t, v), at |-> 0]
BY DEF Overflow, NULL_NODE, Size

(* A call that splits a node.                                              *)
LEMMA OverflowSplits ==
  ASSUME NEW t, NEW v, v # 0, ~(Size(t, v) <= EntryLimit), Parent(t, v) # 0
  PROVE  Overflow([tree |-> t, at |-> v])
           = [tree |-> LinkSibling(Split(t, v), v, t.nextFree), at |-> Parent(Split(t, v), v)]
BY DEF Overflow, NULL_NODE, Size

(* A call that makes a new root.                                           *)
LEMMA OverflowGrows ==
  ASSUME NEW t, NEW v, v # 0, ~(Size(t, v) <= EntryLimit), Parent(t, v) = 0
  PROVE  Overflow([tree |-> t, at |-> v])
           = [tree |-> LinkSibling(GrowRoot(Split(t, v), v), v, t.nextFree),
              at |-> Parent(GrowRoot(Split(t, v), v), v)]
BY DEF Overflow, NULL_NODE, Size

(* Each call keeps the tree good and climbs a level, or is the last.       *)
LEMMA OverflowStep ==
  ASSUME NEW t0, NEW H \in Nat, NEW ord \in BOOLEAN, NEW n \in Nat, NEW c \in CallRecords,
         OverflowKeeps(t0, H, ord, n, c)
  PROVE  Overflow(c) \in CallRecords /\ OverflowKeeps(t0, H, ord, n + 1, Overflow(c))
<1> DEFINE t == c.tree
           v == c.at
<1>1. PICK N, h, nx, pv :
        /\ Good(t, N, h, nx, pv)
        /\ OverSized(t, N, v)
        /\ SameEntries(t0, t) /\ t.entryNum = t0.entryNum
        /\ v # 0 => t.status = "ok" /\ Climbing(t, v, N, h, H, n)
        /\ (ord /\ t.status = "ok") => OrderedTree(t, N, nx)
  BY DEF OverflowKeeps
<1>2. t \in Trees /\ v \in Nat /\ c = [tree |-> t, at |-> v] BY DEF CallRecords
<1> HIDE DEF t, v
<1>g. Shape(t, N, h) BY <1>1 DEF Good
<1>s. /\ N \subseteq Pages /\ 0 \notin Pages /\ t.root \in N /\ h \in [Pages -> Nat] /\ Parent(t, t.root) = 0
  BY <1>g, ShapeFacts
<1>m. EntryLimit \in Nat /\ EntryLimit >= 3 /\ MaxNode \in Nat BY EntryLimitAssumption, MaxNodeAssumption
<1>p. t.pageNum \in Nat BY <1>2 DEF Trees
<1>a. CASE v = 0
  <2>1. Overflow(c) = c BY <1>2, <1>a DEF Overflow, NULL_NODE
  <2>2. OverflowKeeps(t0, H, ord, n + 1, c) BY <1>1, <1>a DEF OverflowKeeps, t, v
  <2> QED BY <2>1, <2>2
<1>b. CASE v # 0
  <2>1. t.status = "ok" /\ v \in N /\ h[v] = n + 1 BY <1>1, <1>b DEF Climbing
  <2>2. \/ h[t.root] = H /\ (Size(t, v) > EntryLimit => t.pageNum + H <= MaxNode + n)
        \/ h[t.root] = H + 1 /\ t.root = v /\ Size(t, v) <= EntryLimit
    BY <1>1, <1>b DEF Climbing
  <2>3. Size(t, v) \in Nat BY <1>2, <1>s, <2>1, TreeTypes
  <2>4. CASE Size(t, v) <= EntryLimit
    <3> DEFINE t2 == UpdateToRoot(t, v)
    <3>1. InnerItems(t, t2) BY <1>1, <2>1, UpdateToRootIs
    <3> HIDE DEF t2
    <3>2. /\ Good(t2, N, h, nx, pv)
          /\ SameEntries(t, t2)
          /\ t2.root = t.root /\ t2.entryNum = t.entryNum
          /\ \A x \in Pages : Size(t2, x) = Size(t, x) /\ Leaf(t2, x) = Leaf(t, x)
      BY <3>1, <1>1, InnerItemsKept
    <3>3. OverSized(t2, N, 0)
      <4>1. /\ \A x \in N : Size(t, x) <= IF x = v THEN EntryLimit + 1 ELSE EntryLimit
            /\ \A x \in N \ {t.root} : Size(t, x) >= MinItems
            /\ ~Leaf(t, t.root) => Size(t, t.root) >= 2
        BY <1>1 DEF OverSized
      <4>2. \A x \in N : Size(t, x) <= EntryLimit BY <4>1, <2>4
      <4>3. \A x \in N : x # 0 BY <1>s
      <4> QED BY <4>1, <4>2, <4>3, <3>2, <1>s DEF OverSized
    <3>4. Overflow(c) = [tree |-> t2, at |-> 0] BY <1>2, <1>b, <2>4, OverflowStays DEF t2
    <3>5. t2 \in Trees BY <3>2 DEF Good
    <3>6. Overflow(c) \in CallRecords BY <3>4, <3>5 DEF CallRecords
    <3>7. SameEntries(t0, t2) /\ t2.entryNum = t0.entryNum BY <3>2, <1>1, SameEntriesStep
    <3>8. (ord /\ t2.status = "ok") => OrderedTree(t2, N, nx)
      <4>1. SUFFICES ASSUME ord, t2.status = "ok" PROVE OrderedTree(t2, N, nx) OBVIOUS
      <4>2. OrderedTree(t, N, nx) BY <4>1, <2>1, <1>1
      <4>3. \A x \in N \ {t.root} : Size(t, x) >= 1
        <5>1. SUFFICES ASSUME NEW x \in N \ {t.root} PROVE Size(t, x) >= 1 OBVIOUS
        <5>2. Size(t, x) >= MinItems BY <1>1 DEF OverSized
        <5>3. Size(t, x) \in Nat BY <1>2, <1>s, TreeTypes
        <5> QED BY <5>2, <5>3, MinItemsIs
      <4>4. t2 = UpdateToRoot(t, v) BY DEF t2
      <4> QED BY <4>1, <4>2, <4>3, <4>4, <1>1, <2>1, UpdateToRootOrdered
    <3>9. OverflowKeeps(t0, H, ord, n + 1, [tree |-> t2, at |-> 0])
      BY <3>2, <3>3, <3>7, <3>8 DEF OverflowKeeps
    <3> QED BY <3>4, <3>6, <3>9
  <2>5. CASE ~(Size(t, v) <= EntryLimit)
    <3>1. Size(t, v) > EntryLimit /\ h[t.root] = H /\ t.pageNum + H <= MaxNode + n BY <2>5, <2>2, <2>3, <1>m
    <3>2. CASE t.root = v
      <4> DEFINE u  == t.nextFree
                 t1 == Split(t, v)
                 q  == t1.nextFree
                 ts == GrowRoot(t1, v)
                 t2 == LinkSibling(ts, v, u)
                 h1 == LevelAbove(h, q, v)
                 h2 == LevelWith(h1, u, v)
                 N2 == WithPage(WithPage(N, q), u)
                 n2 == NextWith(GrownNext(nx, q), v, u)
                 p2 == PrevWith(GrownNext(nx, q), GrownNext(pv, q), v, u)
      <4>1. H = n + 1 /\ t.pageNum + 1 <= MaxNode BY <3>1, <3>2, <2>1, <1>p, <1>m
      <4>2. /\ SplitDone(t, t2, N2, h2, n2, p2, v, q)
            /\ Parent(ts, v) = q
            /\ h2[q] = h[v] + 1
            /\ t2.root = q /\ Size(t2, q) = 2
            /\ OrderedTree(t, N, nx) => OrderedTree(t2, N2, n2)
        BY <1>1, <2>1, <3>1, <3>2, <4>1, SplitDoneRoot
      <4>3. Overflow(c) = [tree |-> t2, at |-> Parent(ts, v)]
        <5>1. Parent(t, v) = 0 BY <1>s, <3>2
        <5> QED BY <5>1, <1>2, <1>b, <2>5, OverflowGrows
      <4> HIDE DEF t2, ts, q, h2, N2, n2, p2
      <4>4. Overflow(c) = [tree |-> t2, at |-> q] BY <4>2, <4>3
      <4>5. /\ Good(t2, N2, h2, n2, p2)
            /\ OverSized(t2, N2, q)
            /\ q \in N2
            /\ SameEntries(t, t2)
            /\ t2.entryNum = t.entryNum /\ t2.status = t.status
        BY <4>2 DEF SplitDone
      <4>6. t2 \in Trees /\ q \in Nat
        <5>1. t2 \in Trees /\ Shape(t2, N2, h2) BY <4>5 DEF Good
        <5>2. N2 \subseteq Pages BY <5>1, ShapeFacts
        <5> QED BY <5>1, <5>2, <4>5 DEF Pages
      <4>7. Climbing(t2, q, N2, h2, H, n + 1) BY <4>1, <4>2, <4>5, <2>1, <1>m DEF Climbing
      <4>8. SameEntries(t0, t2) /\ t2.entryNum = t0.entryNum BY <4>5, <1>1, SameEntriesStep
      <4>11. (ord /\ t2.status = "ok") => OrderedTree(t2, N2, n2) BY <4>2, <1>1, <2>1
      <4>9. OverflowKeeps(t0, H, ord, n + 1, [tree |-> t2, at |-> q])
        BY <4>5, <4>7, <4>8, <4>11, <2>1 DEF OverflowKeeps
      <4>10. Overflow(c) \in CallRecords BY <4>4, <4>6 DEF CallRecords
      <4> QED BY <4>4, <4>9, <4>10
    <3>3. CASE t.root # v
      <4> DEFINE u  == t.nextFree
                 t1 == Split(t, v)
                 t2 == LinkSibling(t1, v, u)
                 p  == Parent(t1, v)
                 h2 == LevelWith(h, u, v)
                 N2 == WithPage(N, u)
                 n2 == NextWith(nx, v, u)
                 p2 == PrevWith(nx, pv, v, u)
      <4>1. /\ h[v] + 1 <= H /\ t.pageNum <= MaxNode /\ Parent(t, v) # 0
        <5>1. Parent(t, v) \in N /\ h[Parent(t, v)] = h[v] + 1 BY <1>2, <1>g, <2>1, <3>3, RankIs
        <5>2. h \in [Pages -> 0 .. h[t.root]] BY <1>g, RootHighest
        <5>3. h[Parent(t, v)] \in 0 .. H BY <5>1, <5>2, <1>s, <3>1
        <5>4. n + 2 <= H BY <5>1, <5>3, <2>1
        <5> QED BY <5>1, <5>4, <1>s, <2>1, <3>1, <1>p, <1>m
      <4>2. /\ SplitDone(t, t2, N2, h2, n2, p2, v, p)
            /\ h2[p] = h[v] + 1
            /\ t2.root = t.root /\ h2[t2.root] = h[t.root]
            /\ t2.pageNum <= t.pageNum + 1
            /\ OrderedTree(t, N, nx) => OrderedTree(t2, N2, n2)
        BY <1>1, <2>1, <3>1, <3>3, <4>1, SplitDoneBelow
      <4>3. Overflow(c) = [tree |-> t2, at |-> p]
        BY <4>1, <1>2, <1>b, <2>5, OverflowSplits
      <4> HIDE DEF t2, p, h2, N2, n2, p2
      <4>5. /\ Good(t2, N2, h2, n2, p2)
            /\ OverSized(t2, N2, p)
            /\ p \in N2
            /\ SameEntries(t, t2)
            /\ t2.entryNum = t.entryNum /\ t2.status = t.status
        BY <4>2 DEF SplitDone
      <4>6. t2 \in Trees /\ p \in Nat
        <5>1. t2 \in Trees /\ Shape(t2, N2, h2) BY <4>5 DEF Good
        <5>2. N2 \subseteq Pages BY <5>1, ShapeFacts
        <5> QED BY <5>1, <5>2, <4>5 DEF Pages
      <4>7. Climbing(t2, p, N2, h2, H, n + 1)
        <5>1. t2.pageNum \in Nat BY <4>6 DEF Trees
        <5>2. t2.pageNum + H <= MaxNode + (n + 1) BY <5>1, <4>2, <3>1, <1>p, <1>m
        <5>3. h2[p] = (n + 1) + 1 /\ h2[t2.root] = H BY <4>2, <2>1, <3>1
        <5> QED BY <5>2, <5>3, <4>5 DEF Climbing
      <4>8. SameEntries(t0, t2) /\ t2.entryNum = t0.entryNum BY <4>5, <1>1, SameEntriesStep
      <4>11. (ord /\ t2.status = "ok") => OrderedTree(t2, N2, n2) BY <4>2, <1>1, <2>1
      <4>9. OverflowKeeps(t0, H, ord, n + 1, [tree |-> t2, at |-> p])
        BY <4>5, <4>7, <4>8, <4>11, <2>1 DEF OverflowKeeps
      <4>10. Overflow(c) \in CallRecords BY <4>3, <4>6 DEF CallRecords
      <4> QED BY <4>3, <4>9, <4>10
    <3> QED BY <3>2, <3>3
  <2> QED BY <2>4, <2>5
<1> QED BY <1>a, <1>b

(* A tree whose nodes have as many items as they should, and which is in   *)
(* order if ord says that t0 was.                                          *)
Sound(t, t0, ord) ==
  \E N, h, nx, pv : /\ Good(t, N, h, nx, pv)
                    /\ OverSized(t, N, 0)
                    /\ SameEntries(t0, t) /\ t.entryNum = t0.entryNum
                    /\ (ord /\ t.status = "ok") => OrderedTree(t, N, nx)

(* solveOverflow leaves no node too full, whatever it starts from.         *)
LEMMA SolveOverflowSound ==
  ASSUME NEW t, NEW N, NEW h, NEW nx, NEW pv, Good(t, N, h, nx, pv),
         NEW v \in N, h[v] = 1, OverSized(t, N, v), t.status = "ok",
         t.pageNum + h[t.root] <= MaxNode,
         NEW ord \in BOOLEAN, ord => OrderedTree(t, N, nx)
  PROVE  Sound(SolveOverflow(t, v), t, ord)
<1> DEFINE H == h[t.root]
           I == {s \in Nat \X CallRecords : OverflowKeeps(t, H, ord, s[1], s[2])}
           b == [tree |-> t, at |-> v]
<1>g. t \in Trees /\ Shape(t, N, h) BY DEF Good
<1>s. /\ N \subseteq Pages /\ 0 \notin Pages /\ t.root \in N /\ h \in [Pages -> Nat] BY <1>g, ShapeFacts
<1>h. H \in Nat BY <1>s
<1>v. v \in Nat /\ v # 0 BY <1>s DEF Pages
<1>1. Calls(t) = H + 1
  <2>1. Height(t)[t.root] = h[t.root] BY <1>g, <1>s, HeightIs
  <2> QED BY <2>1 DEF Calls
<1> HIDE DEF H
<1>2. OverflowKeeps(t, H, ord, 0, b)
  <2>1. b.tree = t /\ b.at = v OBVIOUS
  <2> HIDE DEF b
  <2>2. t.pageNum \in Nat /\ MaxNode \in Nat BY <1>g, MaxNodeAssumption DEF Trees
  <2>3. Climbing(t, v, N, h, H, 0)
    <3>1. h[t.root] = H BY DEF H
    <3>2. t.pageNum + H <= MaxNode + 0 BY <2>2, <1>h DEF H
    <3> QED BY <3>1, <3>2 DEF Climbing
  <2>4. SameEntries(t, t) BY DEF SameEntries
  <2> QED BY <2>1, <2>3, <2>4 DEF OverflowKeeps
<1>3. b \in CallRecords BY <1>g, <1>v DEF CallRecords
<1>4. <<0, b>> \in I BY <1>2, <1>3
<1>5. \A n \in 0 .. Calls(t) - 1 : \A c \in CallRecords : <<n, c>> \in I => <<n + 1, Overflow(c)>> \in I
  <2>1. SUFFICES ASSUME NEW n \in Nat, NEW c \in CallRecords, OverflowKeeps(t, H, ord, n, c)
                 PROVE  Overflow(c) \in CallRecords /\ OverflowKeeps(t, H, ord, n + 1, Overflow(c))
    BY <1>1, <1>h
  <2> QED BY <2>1, <1>h, OverflowStep
<1>6. I \subseteq Nat \X CallRecords OBVIOUS
<1>7. \E c \in CallRecords : <<Calls(t), c>> \in I /\ SolveOverflow(t, v) = c.tree
  <2> HIDE DEF I
  <2>1. Calls(t) \in Nat BY <1>1, <1>h
  <2> QED BY <2>1, <1>g, <1>v, <1>4, <1>5, <1>6, SolveOverflowIs
<1>8. PICK c \in CallRecords : <<Calls(t), c>> \in I /\ SolveOverflow(t, v) = c.tree BY <1>7
<1>9. OverflowKeeps(t, H, ord, H + 1, c) BY <1>8, <1>1
<1>10. PICK N2, h2, nx2, pv2 :
        /\ Good(c.tree, N2, h2, nx2, pv2)
        /\ OverSized(c.tree, N2, c.at)
        /\ SameEntries(t, c.tree) /\ c.tree.entryNum = t.entryNum
        /\ c.at # 0 => c.tree.status = "ok" /\ Climbing(c.tree, c.at, N2, h2, H, H + 1)
        /\ (ord /\ c.tree.status = "ok") => OrderedTree(c.tree, N2, nx2)
  BY <1>9 DEF OverflowKeeps
<1>11. c.at = 0
  <2>1. SUFFICES ASSUME c.at # 0 PROVE FALSE OBVIOUS
  <2>2. /\ c.at \in N2 /\ h2[c.at] = (H + 1) + 1
        /\ h2[c.tree.root] = H \/ h2[c.tree.root] = H + 1
    BY <2>1, <1>10 DEF Climbing
  <2>3. Shape(c.tree, N2, h2) BY <1>10 DEF Good
  <2>4. N2 \subseteq Pages BY <2>3, ShapeFacts
  <2>5. h2 \in [Pages -> 0 .. h2[c.tree.root]] BY <2>3, RootHighest
  <2>6. h2[c.at] \in 0 .. h2[c.tree.root] BY <2>2, <2>4, <2>5
  <2> QED BY <2>2, <2>6, <1>h
<1>12. OverSized(c.tree, N2, 0) BY <1>10, <1>11
<1> QED BY <1>8, <1>10, <1>12 DEF Sound

Lent(t, t1, v, w, k) ==
  /\ t1 \in Trees /\ SameHead(t, t1)
  /\ Shared(t, t1, v, w, k)
  /\ \A x \in Pages : /\ Leaf(t1, x) = Leaf(t, x) /\ Left(t1, x) = Left(t, x)
                      /\ Right(t1, x) = Right(t, x) /\ NextFree(t1, x) = NextFree(t, x)
  /\ \A x \in Pages \ {v, w} : Size(t1, x) = Size(t, x)
  /\ ~Leaf(t, v) => Size(t1, v) = Kids(t1, v) /\ Size(t1, w) = Kids(t1, w)

(* Two neighbours that share what they have leave a good tree.             *)
LEMMA LentGood ==
  ASSUME NEW t, NEW t1, NEW N, NEW h, NEW nx, NEW pv, Good(t, N, h, nx, pv),
         NEW p \in N, NEW r, NEW v, NEW w, Siblings(t, v, w, p, r),
         NEW k, Cut(k, Kids(t, v) + Kids(t, w)), Lent(t, t1, v, w, k)
  PROVE  Good(t1, N, h, nx, pv)
<1>g. /\ t \in Trees
      /\ Shape(t, N, h) /\ Links(t, N, h, nx, pv) /\ LeafLinks(t, N, nx, pv)
      /\ FreeList(t, N) /\ Matched(t, N) /\ Blank(t, N)
  BY DEF Good
<1>s. /\ N \subseteq Pages /\ 0 \notin Pages /\ \A x \in Pages : Kids(t, x) \in Nat BY <1>g, ShapeFacts
<1>b. /\ v \in N /\ w \in N /\ v # w
      /\ Kids(t, v) = 0 <=> Kids(t, w) = 0
  BY <1>g, SiblingFacts
<1>1. /\ t1 \in Trees /\ SameHead(t, t1)
      /\ Shared(t, t1, v, w, k)
      /\ \A x \in Pages : /\ Leaf(t1, x) = Leaf(t, x) /\ Left(t1, x) = Left(t, x)
                          /\ Right(t1, x) = Right(t, x) /\ NextFree(t1, x) = NextFree(t, x)
      /\ \A x \in Pages \ {v, w} : Size(t1, x) = Size(t, x)
      /\ ~Leaf(t, v) => Size(t1, v) = Kids(t1, v) /\ Size(t1, w) = Kids(t1, w)
  BY DEF Lent
<1>h. t1.root = t.root /\ t1.right = t.right /\ t1.nextFree = t.nextFree /\ t1.pageNum = t.pageNum
  BY <1>1 DEF SameHead
<1>2. Shape(t1, N, h) /\ Links(t1, N, h, nx, pv) BY <1>g, <1>1, SharedTree
<1>3. /\ Kids(t1, v) = k /\ Kids(t1, w) = Kids(t, v) + Kids(t, w) - k
      /\ \A x \in Pages \ {v, w} : Kids(t1, x) = Kids(t, x)
      /\ \A x \in Pages : Parent(t, x) \notin {v, w} => Parent(t1, x) = Parent(t, x)
  BY <1>1 DEF Shared
<1>c. k \in Nat /\ ((k = 0 /\ Kids(t, v) + Kids(t, w) = 0) \/ (1 <= k /\ k < Kids(t, v) + Kids(t, w)))
  BY DEF Cut
<1>4. \A x \in N : Kids(t1, x) = 0 <=> Kids(t, x) = 0
  <2>1. Kids(t, v) \in Nat /\ Kids(t, w) \in Nat BY <1>s, <1>b
  <2>2. /\ Kids(t1, v) = 0 <=> Kids(t, v) = 0
        /\ Kids(t1, w) = 0 <=> Kids(t, w) = 0
    BY <2>1, <1>3, <1>c, <1>b
  <2> QED BY <2>2, <1>3, <1>s
<1>l. \A x \in N : /\ Leaf(t, x) <=> Kids(t, x) = 0
                   /\ ~Leaf(t, x) => Size(t, x) = Kids(t, x) /\ Left(t, x) = 0 /\ Right(t, x) = 0
  BY <1>g DEF Matched
<1>5. Matched(t1, N)
  <2>1. SUFFICES ASSUME NEW x \in N
                 PROVE  /\ Leaf(t1, x) <=> Kids(t1, x) = 0
                        /\ ~Leaf(t1, x) => Size(t1, x) = Kids(t1, x) /\ Left(t1, x) = 0 /\ Right(t1, x) = 0
    BY DEF Matched
  <2>2. Leaf(t1, x) <=> Kids(t1, x) = 0 BY <1>1, <1>4, <1>l, <1>s
  <2>3. ASSUME ~Leaf(t1, x) PROVE Size(t1, x) = Kids(t1, x)
    <3>1. ~Leaf(t, x) BY <2>3, <1>1, <1>s
    <3>2. CASE x \in {v, w}
      <4>1. ~Leaf(t, v) BY <3>1, <3>2, <1>b, <1>l
      <4> QED BY <4>1, <3>2, <1>1
    <3>3. CASE x \notin {v, w}
      <4>1. Size(t1, x) = Size(t, x) /\ Kids(t1, x) = Kids(t, x) BY <3>3, <1>1, <1>3, <1>s
      <4> QED BY <4>1, <3>1, <1>l
    <3> QED BY <3>2, <3>3
  <2> QED BY <2>2, <2>3, <1>1, <1>l, <1>s
<1>6. LeafLinks(t1, N, nx, pv)
  <2>1. SUFFICES ASSUME NEW x \in N, Kids(t1, x) = 0
                 PROVE  Right(t1, x) = nx[x] /\ Left(t1, x) = pv[x] /\ (pv[x] = 0 => t1.right = x)
    BY DEF LeafLinks
  <2>2. Kids(t, x) = 0 BY <2>1, <1>4
  <2>3. Right(t, x) = nx[x] /\ Left(t, x) = pv[x] /\ (pv[x] = 0 => t.right = x)
    BY <2>2, <1>g DEF LeafLinks
  <2> QED BY <2>3, <1>1, <1>h, <1>s
<1>7. FreeList(t1, N)
  <2>1. \A x \in Pages \ N : NextFree(t1, x) = NextFree(t, x) BY <1>1
  <2> QED BY <2>1, <1>h, <1>g, FreeListKept
<1>8. Blank(t1, N)
  <2>1. \A x \in Pages : NextFree(t1, x) <= t1.pageNum BY <1>1, <1>h, <1>g DEF Blank
  <2>2. ASSUME NEW x \in Pages \ N PROVE t1.node[x] = [EmptyNode EXCEPT !.next_free = NextFree(t1, x)]
    <3>1. /\ ~Leaf(t, x) /\ Kids(t, x) = 0 /\ Size(t, x) = 0 /\ Parent(t, x) = 0
          /\ Left(t, x) = 0 /\ Right(t, x) = 0
      BY <1>g, BlankIs
    <3>2. x \notin {v, w} /\ Parent(t, x) \notin {v, w} BY <3>1, <1>b, <1>s
    <3>3. /\ ~Leaf(t1, x) /\ Kids(t1, x) = 0 /\ Size(t1, x) = 0 /\ Parent(t1, x) = 0
          /\ Left(t1, x) = 0 /\ Right(t1, x) = 0
      BY <3>1, <3>2, <1>1, <1>3
    <3> QED BY <3>3, <1>1, EmptyNodeIs
  <2> QED BY <2>1, <2>2 DEF Blank
<1> QED BY <1>1, <1>2, <1>5, <1>6, <1>7, <1>8 DEF Good

(* The siblings of a node.                                                 *)
LEMMA LeftSiblingIs ==
  ASSUME NEW t \in Trees, NEW N, NEW h, Shape(t, N, h), NEW v \in N, v # t.root,
         LeftSibling(t, v) # 0
  PROVE  /\ Siblings(t, LeftSibling(t, v), v, Parent(t, v), Rank(t, v, Parent(t, v)) - 1)
         /\ Parent(t, v) \in N
<1> DEFINE p == Parent(t, v)
           r == Rank(t, v, p)
<1>1. p \in N /\ r \in 1 .. Kids(t, p) /\ Kid(t, p, r) = v BY RankIs
<1>s. Kids(t, p) \in Nat BY <1>1, ShapeFacts
<1>2. LeftSibling(t, v) = IF r > 1 THEN Kid(t, p, r - 1) ELSE 0 BY DEF LeftSibling, NULL_NODE, Kid
<1> HIDE DEF p, r
<1>3. r > 1 /\ LeftSibling(t, v) = Kid(t, p, r - 1) BY <1>2
<1>4. r - 1 \in 1 .. Kids(t, p) - 1 /\ (r - 1) + 1 = r BY <1>1, <1>3, <1>s
<1>5. Siblings(t, LeftSibling(t, v), v, p, r - 1) BY <1>1, <1>3, <1>4 DEF Siblings
<1> QED BY <1>1, <1>5 DEF p, r

(* Where the right sibling is.                                             *)
LEMMA RightSiblingIs ==
  ASSUME NEW t \in Trees, NEW N, NEW h, Shape(t, N, h), Matched(t, N), NEW v \in N, v # t.root,
         RightSibling(t, v) # 0
  PROVE  /\ Siblings(t, v, RightSibling(t, v), Parent(t, v), Rank(t, v, Parent(t, v)))
         /\ Parent(t, v) \in N
<1> DEFINE p == Parent(t, v)
           r == Rank(t, v, p)
<1>1. p \in N /\ r \in 1 .. Kids(t, p) /\ Kid(t, p, r) = v BY RankIs
<1>s. Kids(t, p) \in Nat BY <1>1, ShapeFacts
<1>m. Size(t, p) = Kids(t, p)
  <2>1. Kids(t, p) # 0 BY <1>1, <1>s
  <2> QED BY <2>1, <1>1 DEF Matched
<1>2. RightSibling(t, v) = IF r < Size(t, p) THEN Kid(t, p, r + 1) ELSE 0
  BY DEF RightSibling, NULL_NODE, Kid, Size
<1> HIDE DEF p, r
<1>3. r < Kids(t, p) /\ RightSibling(t, v) = Kid(t, p, r + 1) BY <1>2, <1>m
<1>4. r \in 1 .. Kids(t, p) - 1 BY <1>1, <1>3, <1>s
<1>5. Siblings(t, v, RightSibling(t, v), p, r) BY <1>1, <1>3, <1>4 DEF Siblings
<1> QED BY <1>1, <1>5 DEF p, r

(* A node whose parent has two children has a sibling.                     *)
LEMMA SiblingExists ==
  ASSUME NEW t \in Trees, NEW N, NEW h, Shape(t, N, h), Matched(t, N), NEW v \in N, v # t.root,
         Kids(t, Parent(t, v)) >= 2
  PROVE  LeftSibling(t, v) # 0 \/ RightSibling(t, v) # 0
<1> DEFINE p == Parent(t, v)
           r == Rank(t, v, p)
<1>1. p \in N /\ r \in 1 .. Kids(t, p) BY RankIs
<1>s. /\ 0 \notin Pages /\ N \subseteq Pages /\ Kids(t, p) \in Nat
      /\ \A i \in 1 .. Kids(t, p) : Kid(t, p, i) \in N
  BY <1>1, ShapeFacts
<1>m. Size(t, p) = Kids(t, p)
  <2>1. Kids(t, p) # 0 BY <1>1, <1>s
  <2> QED BY <2>1, <1>1 DEF Matched
<1>2. LeftSibling(t, v) = IF r > 1 THEN Kid(t, p, r - 1) ELSE 0 BY DEF LeftSibling, NULL_NODE, Kid
<1>3. RightSibling(t, v) = IF r < Size(t, p) THEN Kid(t, p, r + 1) ELSE 0
  BY DEF RightSibling, NULL_NODE, Kid, Size
<1>4. Kids(t, p) >= 2 OBVIOUS
<1> HIDE DEF p, r
<1>5. CASE r > 1
  <2>1. r - 1 \in 1 .. Kids(t, p) BY <1>5, <1>1, <1>s
  <2>2. Kid(t, p, r - 1) # 0 BY <2>1, <1>s
  <2> QED BY <2>2, <1>5, <1>2
<1>6. CASE ~(r > 1)
  <2>1. r < Kids(t, p) /\ r + 1 \in 1 .. Kids(t, p) BY <1>6, <1>1, <1>s, <1>4
  <2>2. Kid(t, p, r + 1) # 0 BY <2>1, <1>s
  <2> QED BY <2>1, <2>2, <1>3, <1>m
<1> QED BY <1>5, <1>6

(* The tree t with other items and children in a and b.                    *)
Handing(t, a, b, ia, ca, ib, cb) ==
  [t EXCEPT !.node = [t.node EXCEPT
    ![a] = [t.node[a] EXCEPT !.items = ia, !.childs = ca],
    ![b] = [t.node[b] EXCEPT !.items = ib, !.childs = cb]]]

(* In t1 they have these items and children, and another node, p, may have *)
(* other items.                                                            *)
Handed(t, t1, a, b, p, ia, ca, ib, cb) ==
  /\ t1 \in Trees /\ SameHead(t, t1) /\ t1.status = t.status
  /\ Items(t1, a) = ia /\ Childs(t1, a) = ca /\ Items(t1, b) = ib /\ Childs(t1, b) = cb
  /\ \A x \in Pages \ {a, b} : Childs(t1, x) = Childs(t, x) /\ Size(t1, x) = Size(t, x)
  /\ \A x \in Pages \ {a, b, p} : Items(t1, x) = Items(t, x)
  /\ \A x \in Pages : /\ Leaf(t1, x) = Leaf(t, x) /\ Left(t1, x) = Left(t, x)
                      /\ Right(t1, x) = Right(t, x) /\ NextFree(t1, x) = NextFree(t, x)

(* The nodes moved have the parent q.                                      *)
MovedTo(t, t1, moved, q) ==
  /\ \A i \in 1 .. Len(moved) : Parent(t1, moved[i]) = q
  /\ \A x \in Pages : (\A i \in 1 .. Len(moved) : moved[i] # x) => Parent(t1, x) = Parent(t, x)

(* What handing items and children over changes.                           *)
LEMMA HandingIs ==
  ASSUME NEW t \in Trees, NEW a \in Pages, NEW b \in Pages, a # b,
         NEW ia \in Seq(Entries), NEW ib \in Seq(Entries), NEW ca \in Seq(Pages), NEW cb \in Seq(Pages),
         NEW p
  PROVE  LET u == Handing(t, a, b, ia, ca, ib, cb) IN
         Handed(t, u, a, b, p, ia, ca, ib, cb) /\ \A x \in Pages : Parent(u, x) = Parent(t, x)
<1> DEFINE na == [t.node[a] EXCEPT !.items = ia, !.childs = ca]
           nb == [t.node[b] EXCEPT !.items = ib, !.childs = cb]
           nodes == [t.node EXCEPT ![a] = na, ![b] = nb]
           u == Handing(t, a, b, ia, ca, ib, cb)
<1>1. t.node \in [Pages -> TreeNodes] /\ t.node[a] \in TreeNodes /\ t.node[b] \in TreeNodes BY DEF Trees
<1>2. /\ na \in TreeNodes /\ na.items = ia /\ na.childs = ca /\ na.leaf = t.node[a].leaf
      /\ na.parent = t.node[a].parent /\ na.left = t.node[a].left /\ na.right = t.node[a].right
      /\ na.next_free = t.node[a].next_free
  BY <1>1 DEF TreeNodes
<1>3. /\ nb \in TreeNodes /\ nb.items = ib /\ nb.childs = cb /\ nb.leaf = t.node[b].leaf
      /\ nb.parent = t.node[b].parent /\ nb.left = t.node[b].left /\ nb.right = t.node[b].right
      /\ nb.next_free = t.node[b].next_free
  BY <1>1 DEF TreeNodes
<1>4. u = [t EXCEPT !.node = nodes] BY DEF Handing
<1> HIDE DEF na, nb
<1>5. /\ nodes \in [Pages -> TreeNodes] /\ nodes[a] = na /\ nodes[b] = nb
      /\ \A x \in Pages \ {a, b} : nodes[x] = t.node[x]
  BY <1>1, <1>2, <1>3
<1> HIDE DEF nodes, u
<1>6. u \in Trees /\ SameHead(t, u) /\ u.status = t.status /\ u.node = nodes
  BY <1>4, <1>5 DEF Trees, SameHead
<1>7. /\ Items(u, a) = ia /\ Childs(u, a) = ca /\ Leaf(u, a) = Leaf(t, a) /\ Parent(u, a) = Parent(t, a)
      /\ Left(u, a) = Left(t, a) /\ Right(u, a) = Right(t, a) /\ NextFree(u, a) = NextFree(t, a)
  BY <1>2, <1>5, <1>6 DEF Items, Childs, Leaf, Parent, Left, Right, NextFree
<1>8. /\ Items(u, b) = ib /\ Childs(u, b) = cb /\ Leaf(u, b) = Leaf(t, b) /\ Parent(u, b) = Parent(t, b)
      /\ Left(u, b) = Left(t, b) /\ Right(u, b) = Right(t, b) /\ NextFree(u, b) = NextFree(t, b)
  BY <1>3, <1>5, <1>6 DEF Items, Childs, Leaf, Parent, Left, Right, NextFree
<1>9. \A x \in Pages \ {a, b} :
      /\ Items(u, x) = Items(t, x) /\ Childs(u, x) = Childs(t, x)
      /\ Leaf(u, x) = Leaf(t, x) /\ Parent(u, x) = Parent(t, x)
      /\ Left(u, x) = Left(t, x) /\ Right(u, x) = Right(t, x) /\ NextFree(u, x) = NextFree(t, x)
  BY <1>5, <1>6 DEF Items, Childs, Leaf, Parent, Left, Right, NextFree
<1>10. \A x \in Pages \ {a, b} : Size(u, x) = Size(t, x) BY <1>9 DEF Size
<1>11. \A x \in Pages : /\ Leaf(u, x) = Leaf(t, x) /\ Left(u, x) = Left(t, x)
                        /\ Right(u, x) = Right(t, x) /\ NextFree(u, x) = NextFree(t, x)
  BY <1>7, <1>8, <1>9
<1>12. \A x \in Pages : Parent(u, x) = Parent(t, x) BY <1>7, <1>8, <1>9
<1>13. Handed(t, u, a, b, p, ia, ca, ib, cb)
  BY <1>6, <1>7, <1>8, <1>9, <1>10, <1>11 DEF Handed
<1> QED BY <1>12, <1>13 DEF u

(* A separator changes in p.                                               *)
LEMMA HandedItem ==
  ASSUME NEW t \in Trees, NEW u, NEW a \in Pages, NEW b \in Pages,
         NEW ia, NEW ib, NEW ca, NEW cb, NEW p \in Pages \ {a, b},
         Handed(t, u, a, b, p, ia, ca, ib, cb), NEW i, NEW e \in Entries
  PROVE  LET u2 == SetItem(u, p, i, e) IN
         Handed(t, u2, a, b, p, ia, ca, ib, cb) /\ \A x \in Pages : Parent(u2, x) = Parent(u, x)
<1> DEFINE u2 == SetItem(u, p, i, e)
<1>1. /\ u \in Trees /\ SameHead(t, u) /\ u.status = t.status
      /\ Items(u, a) = ia /\ Childs(u, a) = ca /\ Items(u, b) = ib /\ Childs(u, b) = cb
      /\ \A x \in Pages \ {a, b} : Childs(u, x) = Childs(t, x) /\ Size(u, x) = Size(t, x)
      /\ \A x \in Pages \ {a, b, p} : Items(u, x) = Items(t, x)
      /\ \A x \in Pages : /\ Leaf(u, x) = Leaf(t, x) /\ Left(u, x) = Left(t, x)
                          /\ Right(u, x) = Right(t, x) /\ NextFree(u, x) = NextFree(t, x)
  BY DEF Handed
<1>2. /\ u2 \in Trees /\ SameHead(u, u2) /\ u2.status = u.status
      /\ \A x \in Pages \ {p} : u2.node[x] = u.node[x]
      /\ u2.node[p] = [u.node[p] EXCEPT !.items = Items(u2, p)]
      /\ Size(u2, p) = Size(u, p)
  BY <1>1, SetItemIs
<1> HIDE DEF u2
<1>3. SameHead(t, u2) BY <1>1, <1>2 DEF SameHead
<1>4. \A x \in Pages \ {p} :
      /\ Items(u2, x) = Items(u, x) /\ Childs(u2, x) = Childs(u, x)
      /\ Leaf(u2, x) = Leaf(u, x) /\ Parent(u2, x) = Parent(u, x)
      /\ Left(u2, x) = Left(u, x) /\ Right(u2, x) = Right(u, x) /\ NextFree(u2, x) = NextFree(u, x)
  BY <1>2 DEF Items, Childs, Leaf, Parent, Left, Right, NextFree
<1>5. /\ Childs(u2, p) = Childs(u, p) /\ Leaf(u2, p) = Leaf(u, p) /\ Parent(u2, p) = Parent(u, p)
      /\ Left(u2, p) = Left(u, p) /\ Right(u2, p) = Right(u, p) /\ NextFree(u2, p) = NextFree(u, p)
  <2>1. u.node[p] \in TreeNodes BY <1>1 DEF Trees
  <2> QED BY <2>1, <1>2 DEF TreeNodes, Childs, Leaf, Parent, Left, Right, NextFree
<1>6. \A x \in Pages : /\ Leaf(u2, x) = Leaf(t, x) /\ Left(u2, x) = Left(t, x)
                       /\ Right(u2, x) = Right(t, x) /\ NextFree(u2, x) = NextFree(t, x)
                       /\ Parent(u2, x) = Parent(u, x)
  BY <1>1, <1>4, <1>5
<1>7. \A x \in Pages \ {a, b} : Childs(u2, x) = Childs(t, x) /\ Size(u2, x) = Size(t, x)
  <2>1. \A x \in Pages \ {p} : Size(u2, x) = Size(u, x) BY <1>4 DEF Size
  <2> QED BY <2>1, <1>1, <1>2, <1>4, <1>5
<1>8. /\ Items(u2, a) = ia /\ Childs(u2, a) = ca /\ Items(u2, b) = ib /\ Childs(u2, b) = cb
      /\ \A x \in Pages \ {a, b, p} : Items(u2, x) = Items(t, x)
  BY <1>1, <1>4
<1>9. Handed(t, u2, a, b, p, ia, ca, ib, cb)
  BY <1>1, <1>2, <1>3, <1>6, <1>7, <1>8 DEF Handed
<1> QED BY <1>9, <1>6 DEF u2

(* Children get another parent.                                            *)
LEMMA HandedParents ==
  ASSUME NEW t \in Trees, NEW u, NEW a \in Pages, NEW b \in Pages,
         NEW ia, NEW ib, NEW ca, NEW cb, NEW p,
         Handed(t, u, a, b, p, ia, ca, ib, cb), \A x \in Pages : Parent(u, x) = Parent(t, x),
         NEW moved \in Seq(Pages), NEW q \in Nat
  PROVE  LET t1 == SetParents(u, moved, q) IN
         Handed(t, t1, a, b, p, ia, ca, ib, cb) /\ MovedTo(t, t1, moved, q)
<1> DEFINE t1 == SetParents(u, moved, q)
<1>1. /\ u \in Trees /\ SameHead(t, u) /\ u.status = t.status
      /\ Items(u, a) = ia /\ Childs(u, a) = ca /\ Items(u, b) = ib /\ Childs(u, b) = cb
      /\ \A x \in Pages \ {a, b} : Childs(u, x) = Childs(t, x) /\ Size(u, x) = Size(t, x)
      /\ \A x \in Pages \ {a, b, p} : Items(u, x) = Items(t, x)
      /\ \A x \in Pages : /\ Leaf(u, x) = Leaf(t, x) /\ Left(u, x) = Left(t, x)
                          /\ Right(u, x) = Right(t, x) /\ NextFree(u, x) = NextFree(t, x)
  BY DEF Handed
<1>2. /\ t1 \in Trees /\ SameHead(u, t1) /\ t1.status = u.status
      /\ \A x \in Pages : /\ t1.node[x] = [u.node[x] EXCEPT !.parent = Parent(t1, x)]
                          /\ Items(t1, x) = Items(u, x) /\ Childs(t1, x) = Childs(u, x)
                          /\ Leaf(t1, x) = Leaf(u, x) /\ Left(t1, x) = Left(u, x)
                          /\ Right(t1, x) = Right(u, x) /\ NextFree(t1, x) = NextFree(u, x)
      /\ \A i \in 1 .. Len(moved) : Parent(t1, moved[i]) = q
      /\ \A x \in Pages : (\A i \in 1 .. Len(moved) : moved[i] # x) => t1.node[x] = u.node[x]
  BY <1>1, SetParentsIs
<1> HIDE DEF t1
<1>3. SameHead(t, t1) BY <1>1, <1>2 DEF SameHead
<1>4. \A x \in Pages : Size(t1, x) = Size(u, x) BY <1>2 DEF Size
<1>5. \A x \in Pages : (\A i \in 1 .. Len(moved) : moved[i] # x) => Parent(t1, x) = Parent(t, x)
  BY <1>2 DEF Parent
<1>6. MovedTo(t, t1, moved, q) BY <1>2, <1>5 DEF MovedTo
<1>7. Handed(t, t1, a, b, p, ia, ca, ib, cb) BY <1>1, <1>2, <1>3, <1>4 DEF Handed
<1> QED BY <1>6, <1>7 DEF t1

(* The elements of two sequences, one after the other.                     *)
InRow(s1, s2, i) == IF i <= Len(s1) THEN s1[i] ELSE s2[i - Len(s1)]

SameRow(s1, s2, q1, q2) ==
  /\ Len(q1) + Len(q2) = Len(s1) + Len(s2)
  /\ \A i \in 1 .. Len(s1) + Len(s2) : InRow(q1, q2, i) = InRow(s1, s2, i)

(* The last of one sequence goes to the front of the other.                *)
LEMMA LastToFront ==
  ASSUME NEW S, NEW s1 \in Seq(S), NEW s2 \in Seq(S), Len(s1) >= 1
  PROVE  LET q1 == RemoveAt(s1, Len(s1))
             q2 == <<s1[Len(s1)]>> \o s2
         IN  /\ q1 \in Seq(S) /\ q2 \in Seq(S) /\ s1[Len(s1)] \in S
             /\ Len(q1) = Len(s1) - 1 /\ Len(q2) = Len(s2) + 1
             /\ \A i \in 1 .. Len(s1) - 1 : q1[i] = s1[i]
             /\ q2[1] = s1[Len(s1)] /\ \A i \in 2 .. Len(s2) + 1 : q2[i] = s2[i - 1]
             /\ SameRow(s1, s2, q1, q2)
<1> DEFINE n == Len(s1)
           e == s1[n]
           q1 == RemoveAt(s1, n)
           q2 == <<e>> \o s2
<1>1. n \in Nat /\ n >= 1 /\ n \in 1 .. Len(s1) /\ Len(s2) \in Nat OBVIOUS
<1>2. e \in S BY <1>1
<1> HIDE DEF n, e
<1>3. /\ q1 \in Seq(S) /\ Len(q1) = Len(s1) - 1
      /\ \A i \in 1 .. Len(s1) - 1 : q1[i] = IF i < n THEN s1[i] ELSE s1[i + 1]
  BY <1>1, RemoveAtIs
<1>4. /\ q2 \in Seq(S) /\ Len(q2) = Len(s2) + 1
      /\ \A i \in 1 .. Len(s2) + 1 : q2[i] = IF i = 1 THEN e ELSE s2[i - 1]
  BY <1>2, ConsIs
<1> HIDE DEF q1, q2
<1>n. Len(s1) = n BY DEF n
<1>e. s1[n] = e BY DEF e
<1>5. \A i \in 1 .. n - 1 : q1[i] = s1[i] BY <1>1, <1>3, <1>n
<1>6. q2[1] = e /\ \A i \in 2 .. Len(s2) + 1 : q2[i] = s2[i - 1] BY <1>1, <1>4
<1>7. ASSUME NEW i \in 1 .. n + Len(s2) PROVE InRow(q1, q2, i) = InRow(s1, s2, i)
  <2>1. CASE i <= n - 1
    <3>1. InRow(q1, q2, i) = q1[i] BY <2>1, <1>3, <1>n DEF InRow
    <3>2. InRow(s1, s2, i) = s1[i] BY <2>1, <1>1, <1>n DEF InRow
    <3> QED BY <3>1, <3>2, <2>1, <1>5
  <2>2. CASE i = n
    <3>1. InRow(q1, q2, i) = q2[i - (n - 1)] BY <2>2, <1>1, <1>3, <1>n DEF InRow
    <3>2. i - (n - 1) = 1 BY <2>2, <1>1
    <3>3. InRow(s1, s2, i) = s1[n] BY <2>2, <1>1, <1>n DEF InRow
    <3> QED BY <3>1, <3>2, <3>3, <1>6, <1>e
  <2>3. CASE i > n
    <3>1. InRow(q1, q2, i) = q2[i - (n - 1)] BY <2>3, <1>1, <1>3, <1>n DEF InRow
    <3>2. i - (n - 1) \in 2 .. Len(s2) + 1 /\ (i - (n - 1)) - 1 = i - n BY <2>3, <1>1
    <3>3. q2[i - (n - 1)] = s2[i - n] BY <3>2, <1>6
    <3>4. InRow(s1, s2, i) = s2[i - n] BY <2>3, <1>1, <1>n DEF InRow
    <3> QED BY <3>1, <3>3, <3>4
  <2> QED BY <2>1, <2>2, <2>3, <1>1
<1>8. Len(q1) + Len(q2) = Len(s1) + Len(s2) BY <1>1, <1>3, <1>4, <1>n
<1>9. SameRow(s1, s2, q1, q2) BY <1>7, <1>8, <1>n DEF SameRow
<1> QED BY <1>2, <1>3, <1>4, <1>5, <1>6, <1>9 DEF q1, q2, e, n

(* The first of one goes to the back of the other.                         *)
LEMMA FirstToBack ==
  ASSUME NEW S, NEW s1 \in Seq(S), NEW s2 \in Seq(S), Len(s2) >= 1
  PROVE  LET q1 == s1 \o <<s2[1]>>
             q2 == Tail(s2)
         IN  /\ q1 \in Seq(S) /\ q2 \in Seq(S) /\ s2[1] \in S
             /\ Len(q1) = Len(s1) + 1 /\ Len(q2) = Len(s2) - 1
             /\ \A i \in 1 .. Len(s1) : q1[i] = s1[i]
             /\ q1[Len(s1) + 1] = s2[1] /\ \A i \in 1 .. Len(s2) - 1 : q2[i] = s2[i + 1]
             /\ SameRow(s1, s2, q1, q2)
<1> DEFINE n == Len(s1)
           e == s2[1]
           q1 == s1 \o <<e>>
           q2 == Tail(s2)
<1>1. n \in Nat /\ Len(s2) \in Nat /\ s2 # <<>> OBVIOUS
<1>2. e \in S BY <1>1
<1>3. /\ q2 \in Seq(S) /\ Len(q2) = Len(s2) - 1
      /\ \A i \in 1 .. Len(s2) - 1 : q2[i] = s2[i + 1]
  BY <1>1, HeadTailProperties
<1> HIDE DEF n, e
<1>4. <<e>> \in Seq(S) /\ Len(<<e>>) = 1 /\ <<e>>[1] = e BY <1>2
<1>5. /\ q1 \in Seq(S) /\ Len(q1) = n + 1
      /\ \A i \in 1 .. n + 1 : q1[i] = IF i <= n THEN s1[i] ELSE e
  <2>1. /\ q1 \in Seq(S) /\ Len(q1) = Len(s1) + Len(<<e>>)
        /\ \A i \in 1 .. Len(s1) + Len(<<e>>) : q1[i] = IF i <= Len(s1) THEN s1[i] ELSE <<e>>[i - Len(s1)]
    BY <1>4, ConcatProperties
  <2>2. \A i \in 1 .. n + 1 : ~(i <= n) => i - n = 1 BY <1>1
  <2>3. Len(s1) = n BY DEF n
  <2> QED BY <2>1, <2>2, <2>3, <1>4
<1> HIDE DEF q1, q2
<1>n. Len(s1) = n BY DEF n
<1>e. s2[1] = e BY DEF e
<1>6. q1[n + 1] = e /\ \A i \in 1 .. n : q1[i] = s1[i] BY <1>1, <1>5
<1>7. ASSUME NEW i \in 1 .. n + Len(s2) PROVE InRow(q1, q2, i) = InRow(s1, s2, i)
  <2>1. CASE i <= n
    <3>1. InRow(q1, q2, i) = q1[i] BY <2>1, <1>5, <1>1 DEF InRow
    <3>2. InRow(s1, s2, i) = s1[i] BY <2>1, <1>1, <1>n DEF InRow
    <3> QED BY <3>1, <3>2, <2>1, <1>6
  <2>2. CASE i = n + 1
    <3>1. InRow(q1, q2, i) = q1[i] BY <2>2, <1>1, <1>5 DEF InRow
    <3>2. i - n = 1 /\ ~(i <= n) BY <2>2, <1>1
    <3>3. InRow(s1, s2, i) = s2[1] BY <3>2, <1>n DEF InRow
    <3> QED BY <3>1, <3>3, <2>2, <1>6, <1>e
  <2>3. CASE i > n + 1
    <3>1. InRow(q1, q2, i) = q2[i - (n + 1)] BY <2>3, <1>1, <1>5 DEF InRow
    <3>2. i - (n + 1) \in 1 .. Len(s2) - 1 /\ (i - (n + 1)) + 1 = i - n BY <2>3, <1>1
    <3>3. q2[i - (n + 1)] = s2[i - n] BY <3>2, <1>3
    <3>4. InRow(s1, s2, i) = s2[i - n] BY <2>3, <1>1, <1>n DEF InRow
    <3> QED BY <3>1, <3>3, <3>4
  <2> QED BY <2>1, <2>2, <2>3, <1>1
<1>8. Len(q1) + Len(q2) = Len(s1) + Len(s2) BY <1>1, <1>3, <1>5, <1>n
<1>9. SameRow(s1, s2, q1, q2) BY <1>7, <1>8, <1>n DEF SameRow
<1> QED BY <1>2, <1>3, <1>5, <1>6, <1>9 DEF q1, q2, e, n

(* What is left of a sum.                                                  *)
LEMMA RestOfSum ==
  ASSUME NEW k \in Nat, NEW m \in Nat, NEW x \in Nat, NEW y \in Nat, k + m = x + y
  PROVE  x + y - k = m
OBVIOUS

(* Two neighbours that keep their rows of items and children share them.   *)
LEMMA LentIs ==
  ASSUME NEW t, NEW N, NEW h, NEW nx, NEW pv, Good(t, N, h, nx, pv),
         NEW p \in N, NEW r, NEW a, NEW b, Siblings(t, a, b, p, r),
         NEW t1, NEW ia, NEW ca, NEW ib, NEW cb,
         Handed(t, t1, a, b, p, ia, ca, ib, cb),
         SameRow(Items(t, a), Items(t, b), ia, ib), SameRow(Childs(t, a), Childs(t, b), ca, cb),
         Len(ia) \in Nat, Len(ib) \in Nat, Len(ca) \in Nat, Len(cb) \in Nat,
         ~Leaf(t, a) => Len(ia) = Len(ca) /\ Len(ib) = Len(cb),
         \A i \in 1 .. Len(ca) : Parent(t1, ca[i]) = a,
         \A i \in 1 .. Len(cb) : Parent(t1, cb[i]) = b,
         \A x \in Pages : Parent(t, x) \notin {a, b} => Parent(t1, x) = Parent(t, x)
  PROVE  /\ Lent(t, t1, a, b, Len(ca)) /\ MovedItems(t, t1, a, b)
         /\ Size(t1, a) = Len(ia) /\ Size(t1, b) = Len(ib)
<1>g. t \in Trees /\ Shape(t, N, h) /\ Links(t, N, h, nx, pv) /\ Matched(t, N) BY DEF Good
<1>s. N \subseteq Pages /\ 0 \notin Pages BY <1>g, ShapeFacts
<1>b. /\ a \in N /\ b \in N /\ a # b /\ p # a /\ p # b
      /\ Kids(t, a) \in Nat /\ Kids(t, b) \in Nat /\ Kids(t, p) \in Nat
      /\ Kids(t, a) = 0 <=> Kids(t, b) = 0 /\ Kids(t, p) # 0
      /\ r < Kids(t, p) /\ r \in Nat
  BY <1>g, SiblingFacts
<1>l. Leaf(t, a) = Leaf(t, b) /\ ~Leaf(t, p)
  <2>1. \A x \in {a, b, p} : Leaf(t, x) <=> Kids(t, x) = 0 BY <1>g, <1>b DEF Matched
  <2>2. Leaf(t, a) \in BOOLEAN /\ Leaf(t, b) \in BOOLEAN BY <1>g, <1>b, <1>s DEF Trees, TreeNodes, Leaf
  <2> QED BY <2>1, <2>2, <1>b
<1>1. /\ t1 \in Trees /\ SameHead(t, t1)
      /\ Items(t1, a) = ia /\ Childs(t1, a) = ca /\ Items(t1, b) = ib /\ Childs(t1, b) = cb
      /\ \A x \in Pages \ {a, b} : Childs(t1, x) = Childs(t, x) /\ Size(t1, x) = Size(t, x)
      /\ \A x \in Pages \ {a, b, p} : Items(t1, x) = Items(t, x)
      /\ \A x \in Pages : /\ Leaf(t1, x) = Leaf(t, x) /\ Left(t1, x) = Left(t, x)
                          /\ Right(t1, x) = Right(t, x) /\ NextFree(t1, x) = NextFree(t, x)
  BY DEF Handed
<1>2. /\ Size(t1, a) = Len(ia) /\ Size(t1, b) = Len(ib) /\ Kids(t1, a) = Len(ca) /\ Kids(t1, b) = Len(cb)
      /\ \A i : Item(t1, a, i) = ia[i] /\ Item(t1, b, i) = ib[i] /\ Kid(t1, a, i) = ca[i] /\ Kid(t1, b, i) = cb[i]
  BY <1>1 DEF Size, Kids, Item, Kid
<1>3. /\ Len(ia) + Len(ib) = Size(t, a) + Size(t, b)
      /\ \A i \in 1 .. Size(t, a) + Size(t, b) :
           (IF i <= Len(ia) THEN ia[i] ELSE ib[i - Len(ia)])
             = IF i <= Size(t, a) THEN Item(t, a, i) ELSE Item(t, b, i - Size(t, a))
  BY DEF SameRow, InRow, Size, Item
<1>4. /\ Len(ca) + Len(cb) = Kids(t, a) + Kids(t, b)
      /\ \A i \in 1 .. Kids(t, a) + Kids(t, b) :
           (IF i <= Len(ca) THEN ca[i] ELSE cb[i - Len(ca)]) = Both(t, a, b, i)
  BY DEF SameRow, InRow, Kids, Kid, Both
<1> DEFINE k == Len(ca)
           m == Len(cb)
<1>k. k \in Nat /\ m \in Nat OBVIOUS
<1>kk. /\ \A i \in 1 .. k : Parent(t1, ca[i]) = a
       /\ \A i \in 1 .. m : Parent(t1, cb[i]) = b
       /\ Kids(t1, a) = k /\ Kids(t1, b) = m
       /\ k + m = Kids(t, a) + Kids(t, b)
       /\ \A i \in 1 .. Kids(t, a) + Kids(t, b) : (IF i <= k THEN ca[i] ELSE cb[i - k]) = Both(t, a, b, i)
  BY <1>2, <1>4
<1> HIDE DEF k, m
<1>5. \A i \in 1 .. k : ca[i] = Both(t, a, b, i) BY <1>k, <1>kk, <1>b
<1>6. \A i \in 1 .. m : cb[i] = Both(t, a, b, k + i)
  <2>1. SUFFICES ASSUME NEW i \in 1 .. m PROVE cb[i] = Both(t, a, b, k + i) OBVIOUS
  <2>2. k + i \in 1 .. Kids(t, a) + Kids(t, b) /\ ~(k + i <= k) /\ (k + i) - k = i BY <1>k, <1>kk, <1>b
  <2>3. (IF k + i <= k THEN ca[k + i] ELSE cb[(k + i) - k]) = Both(t, a, b, k + i) BY <2>2, <1>kk
  <2> QED BY <2>2, <2>3
<1>7. \A i \in k + 1 .. Kids(t, a) + Kids(t, b) : Parent(t1, Both(t, a, b, i)) = b
  <2>1. SUFFICES ASSUME NEW i \in k + 1 .. Kids(t, a) + Kids(t, b) PROVE Parent(t1, Both(t, a, b, i)) = b OBVIOUS
  <2>2. i - k \in 1 .. m /\ k + (i - k) = i BY <1>k, <1>kk, <1>b
  <2>3. cb[i - k] = Both(t, a, b, i) BY <2>2, <1>6
  <2> QED BY <2>2, <2>3, <1>kk
<1>8. Shared(t, t1, a, b, k)
  <2>1. \A x \in Pages \ {a, b} : Kids(t1, x) = Kids(t, x) /\ \A i \in 1 .. Kids(t, x) : Kid(t1, x, i) = Kid(t, x, i)
    BY <1>1 DEF Kids, Kid
  <2>2. t1.root = t.root BY <1>1 DEF SameHead
  <2>3. Kids(t, a) + Kids(t, b) - k = m
    <3>1. k + m = Kids(t, a) + Kids(t, b) BY <1>kk
    <3>2. Kids(t, a) \in Nat /\ Kids(t, b) \in Nat BY <1>b
    <3>3. k \in Nat BY <1>k
    <3>4. m \in Nat BY <1>k
    <3>5. Kids(t, a) + Kids(t, b) - k = m BY ONLY <3>1, <3>2, <3>3, <3>4, RestOfSum
    <3> QED BY <3>5
  <2>4. Kids(t1, b) = Kids(t, a) + Kids(t, b) - k BY <2>3, <1>kk
  <2>5. \A i \in 1 .. Kids(t, a) + Kids(t, b) - k : Kid(t1, b, i) = Both(t, a, b, k + i) BY <2>3, <1>2, <1>6
  <2>6. \A i \in 1 .. k : Kid(t1, a, i) = Both(t, a, b, i) /\ Parent(t1, Both(t, a, b, i)) = a
    BY <1>2, <1>5, <1>kk
  <2> QED BY <2>1, <2>2, <2>4, <2>5, <2>6, <1>7, <1>kk DEF Shared
<1>9. Lent(t, t1, a, b, k)
  <2>1. ~Leaf(t, a) => Size(t1, a) = Kids(t1, a) /\ Size(t1, b) = Kids(t1, b) BY <1>2
  <2> QED BY <2>1, <1>1, <1>8 DEF Lent
<1>10. MovedItems(t, t1, a, b)
  <2>0. a \in Pages /\ b \in Pages BY <1>b, <1>s
  <2>1. \A x \in Pages \ {a, b} :
          /\ LeafSize(t1, x) = LeafSize(t, x)
          /\ \A i \in 1 .. LeafSize(t, x) : Item(t1, x, i) = Item(t, x, i)
    <3>1. SUFFICES ASSUME NEW x \in Pages \ {a, b}
                   PROVE  /\ LeafSize(t1, x) = LeafSize(t, x)
                          /\ \A i \in 1 .. LeafSize(t, x) : Item(t1, x, i) = Item(t, x, i)
      OBVIOUS
    <3>2. LeafSize(t1, x) = LeafSize(t, x) BY <1>1 DEF LeafSize
    <3>3. CASE x = p
      <4>1. LeafSize(t, x) = 0 BY <3>3, <1>l DEF LeafSize
      <4> QED BY <3>2, <4>1
    <3>4. CASE x # p
      <4>1. Items(t1, x) = Items(t, x) BY <3>4, <1>1
      <4> QED BY <3>2, <4>1 DEF Item
    <3> QED BY <3>3, <3>4
  <2>2. CASE ~Leaf(t, a)
    <3>1. /\ LeafSize(t, a) = 0 /\ LeafSize(t, b) = 0 /\ LeafSize(t1, a) = 0 /\ LeafSize(t1, b) = 0
      BY <2>2, <1>l, <1>1, <2>0 DEF LeafSize
    <3>2. 1 .. LeafSize(t, a) + LeafSize(t, b) = {} BY <3>1
    <3> QED BY <2>0, <2>1, <3>1, <3>2, <1>b DEF MovedItems
  <2>3. CASE Leaf(t, a)
    <3>1. /\ LeafSize(t, a) = Size(t, a) /\ LeafSize(t, b) = Size(t, b)
          /\ LeafSize(t1, a) = Len(ia) /\ LeafSize(t1, b) = Len(ib)
      BY <2>3, <1>l, <1>1, <1>2, <2>0 DEF LeafSize
    <3>2. LeafSize(t1, a) + LeafSize(t1, b) = LeafSize(t, a) + LeafSize(t, b) BY <3>1, <1>3
    <3>3. ASSUME NEW i \in 1 .. LeafSize(t, a) + LeafSize(t, b) PROVE Row(t1, a, b, i) = Row(t, a, b, i)
      <4>1. Row(t1, a, b, i) = IF i <= Len(ia) THEN ia[i] ELSE ib[i - Len(ia)] BY <3>1, <1>2 DEF Row
      <4>2. Row(t, a, b, i) = IF i <= Size(t, a) THEN Item(t, a, i) ELSE Item(t, b, i - Size(t, a))
        BY <3>1 DEF Row
      <4>3. i \in 1 .. Size(t, a) + Size(t, b) BY <3>1
      <4> QED BY <4>1, <4>2, <4>3, <1>3
    <3> QED BY <2>0, <2>1, <3>2, <3>3, <1>b DEF MovedItems
  <2> QED BY <2>2, <2>3
<1> QED BY <1>2, <1>9, <1>10 DEF k

(* The sizes of the nodes, while v may have an item too few.               *)
UnderSized(t, N, v) ==
  /\ \A x \in N : Size(t, x) <= EntryLimit
  /\ \A x \in N \ {t.root} : Size(t, x) >= IF x = v THEN MinItems - 1 ELSE MinItems
  /\ ~Leaf(t, t.root) => Size(t, t.root) >= IF t.root = v THEN 1 ELSE 2

(* The sequences after an item, or a child, has changed sides.             *)
GivenLast(s) == RemoveAt(s, Len(s))

TakenLast(s1, s2) == <<s1[Len(s1)]>> \o s2

TakenFirst(s1, s2) == s1 \o <<s2[1]>>

(* The two ways to borrow, in inner nodes and in leaves, spelled out.      *)
LEMMA BorrowLeftInner ==
  ASSUME NEW t, NEW ls, NEW v, NEW p, p = Parent(t, v), ~Leaf(t, v), Kids(t, ls) = Size(t, ls)
  PROVE  BorrowLeft(t, ls, v)
           = UpdateToRoot(
               SetParents(
                 SetItem(Handing(t, ls, v, GivenLast(Items(t, ls)), GivenLast(Childs(t, ls)),
                                 TakenLast(Items(t, ls), Items(t, v)),
                                 TakenLast(Childs(t, ls), Childs(t, v))),
                         p, Rank(t, v, p), Items(t, ls)[Len(Items(t, ls))]),
                 <<Childs(t, ls)[Len(Childs(t, ls))]>>, v), v)
<1>1. ~t.node[v].leaf BY DEF Leaf
<1>2. Len(Items(t, ls)) = Len(Childs(t, ls)) BY DEF Kids, Size
<1> QED BY <1>1, <1>2, Zenon DEF BorrowLeft, Handing, GivenLast, TakenLast, Items, Childs

(* The leaf case of borrowing from the left.                               *)
LEMMA BorrowLeftLeaf ==
  ASSUME NEW t, NEW ls, NEW v, NEW p, p = Parent(t, v), Leaf(t, v)
  PROVE  BorrowLeft(t, ls, v)
           = UpdateToRoot(
               SetParents(
                 SetItem(Handing(t, ls, v, GivenLast(Items(t, ls)), Childs(t, ls),
                                 TakenLast(Items(t, ls), Items(t, v)), <<>> \o Childs(t, v)),
                         p, Rank(t, v, p), Items(t, ls)[Len(Items(t, ls))]),
                 <<>>, v), v)
<1>1. t.node[v].leaf BY DEF Leaf
<1> QED BY <1>1, Zenon DEF BorrowLeft, Handing, GivenLast, TakenLast, Items, Childs

(* The inner case of borrowing from the right.                             *)
LEMMA BorrowRightInner ==
  ASSUME NEW t, NEW rs, NEW v, ~Leaf(t, v)
  PROVE  BorrowRight(t, v, rs)
           = UpdateToRoot(
               SetParents(
                 Handing(t, rs, v, Tail(Items(t, rs)), Tail(Childs(t, rs)),
                         Append(Items(t, v), Items(t, rs)[1]), TakenFirst(Childs(t, v), Childs(t, rs))),
                 <<Childs(t, rs)[1]>>, v), v)
<1>1. ~t.node[v].leaf BY DEF Leaf
<1> QED BY <1>1, Zenon DEF BorrowRight, Handing, TakenFirst, Items, Childs

(* The leaf case of borrowing from the right.                              *)
LEMMA BorrowRightLeaf ==
  ASSUME NEW t, NEW rs, NEW v, Leaf(t, v)
  PROVE  BorrowRight(t, v, rs)
           = UpdateToRoot(
               SetParents(
                 Handing(t, rs, v, Tail(Items(t, rs)), Childs(t, rs),
                         Append(Items(t, v), Items(t, rs)[1]), Childs(t, v) \o <<>>),
                 <<>>, v), v)
<1>1. t.node[v].leaf BY DEF Leaf
<1> QED BY <1>1, Zenon DEF BorrowRight, Handing, TakenFirst, Items, Childs

(* Appending is concatenating.                                             *)
LEMMA AppendIs ==
  ASSUME NEW S, NEW s \in Seq(S), NEW e \in S
  PROVE  Append(s, e) = s \o <<e>>
<1>1. <<e>> \in Seq(S) /\ Len(<<e>>) = 1 /\ <<e>>[1] = e OBVIOUS
<1>2. /\ s \o <<e>> \in Seq(S) /\ Len(s \o <<e>>) = Len(s) + 1
      /\ \A i \in 1 .. Len(s) + 1 : (s \o <<e>>)[i] = IF i <= Len(s) THEN s[i] ELSE <<e>>[i - Len(s)]
  BY <1>1, ConcatProperties
<1>3. /\ Append(s, e) \in Seq(S) /\ Len(Append(s, e)) = Len(s) + 1
      /\ \A i \in 1 .. Len(s) : Append(s, e)[i] = s[i]
      /\ Append(s, e)[Len(s) + 1] = e
  BY AppendProperties
<1> DEFINE x == Append(s, e)
           y == s \o <<e>>
           n == Len(s)
<1>4. n \in Nat OBVIOUS
<1>5. \A i \in 1 .. n + 1 : x[i] = y[i]
  <2>1. SUFFICES ASSUME NEW i \in 1 .. n + 1 PROVE x[i] = y[i] OBVIOUS
  <2>2. CASE i <= n BY <2>2, <1>2, <1>3
  <2>3. CASE ~(i <= n)
    <3>1. i = n + 1 /\ i - n = 1 BY <2>3, <1>4
    <3> QED BY <3>1, <2>3, <1>1, <1>2, <1>3
  <2> QED BY <2>2, <2>3
<1>6. x \in Seq(S) /\ y \in Seq(S) /\ Len(x) = n + 1 /\ Len(y) = n + 1 BY <1>2, <1>3
<1> HIDE DEF x, y, n
<1>7. x = y BY <1>5, <1>6, SeqEqual
<1> QED BY <1>7 DEF x, y

IsLastGiven(S, s1, s2, q1, q2, e) ==
  /\ q1 \in Seq(S) /\ q2 \in Seq(S) /\ e \in S
  /\ Len(q1) = Len(s1) - 1 /\ Len(q2) = Len(s2) + 1
  /\ \A i \in 1 .. Len(s1) - 1 : q1[i] = s1[i]
  /\ q2[1] = e /\ \A i \in 2 .. Len(s2) + 1 : q2[i] = s2[i - 1]
  /\ SameRow(s1, s2, q1, q2)

IsFirstGiven(S, s1, s2, q1, q2, e) ==
  /\ q1 \in Seq(S) /\ q2 \in Seq(S) /\ e \in S
  /\ Len(q1) = Len(s1) + 1 /\ Len(q2) = Len(s2) - 1
  /\ \A i \in 1 .. Len(s1) : q1[i] = s1[i]
  /\ q1[Len(s1) + 1] = e /\ \A i \in 1 .. Len(s2) - 1 : q2[i] = s2[i + 1]
  /\ SameRow(s1, s2, q1, q2)

(* The sequences have the types they should.                               *)
LEMMA LastGiven ==
  ASSUME NEW S, NEW s1 \in Seq(S), NEW s2 \in Seq(S), Len(s1) >= 1,
         NEW q1, q1 = GivenLast(s1), NEW q2, q2 = TakenLast(s1, s2), NEW e, e = s1[Len(s1)]
  PROVE  IsLastGiven(S, s1, s2, q1, q2, e)
<1>1. LET r1 == RemoveAt(s1, Len(s1))
          r2 == <<s1[Len(s1)]>> \o s2
      IN  /\ r1 \in Seq(S) /\ r2 \in Seq(S) /\ s1[Len(s1)] \in S
          /\ Len(r1) = Len(s1) - 1 /\ Len(r2) = Len(s2) + 1
          /\ \A i \in 1 .. Len(s1) - 1 : r1[i] = s1[i]
          /\ r2[1] = s1[Len(s1)] /\ \A i \in 2 .. Len(s2) + 1 : r2[i] = s2[i - 1]
          /\ SameRow(s1, s2, r1, r2)
  BY LastToFront
<1>2. q1 = RemoveAt(s1, Len(s1)) /\ q2 = <<s1[Len(s1)]>> \o s2 BY DEF GivenLast, TakenLast
<1> QED BY <1>1, <1>2 DEF IsLastGiven

(* The same for the first.                                                 *)
LEMMA FirstGiven ==
  ASSUME NEW S, NEW s1 \in Seq(S), NEW s2 \in Seq(S), Len(s2) >= 1,
         NEW q1, q1 = TakenFirst(s1, s2), NEW q2, q2 = Tail(s2), NEW e, e = s2[1]
  PROVE  IsFirstGiven(S, s1, s2, q1, q2, e)
<1>1. LET r1 == s1 \o <<s2[1]>>
          r2 == Tail(s2)
      IN  /\ r1 \in Seq(S) /\ r2 \in Seq(S) /\ s2[1] \in S
          /\ Len(r1) = Len(s1) + 1 /\ Len(r2) = Len(s2) - 1
          /\ \A i \in 1 .. Len(s1) : r1[i] = s1[i]
          /\ r1[Len(s1) + 1] = s2[1] /\ \A i \in 1 .. Len(s2) - 1 : r2[i] = s2[i + 1]
          /\ SameRow(s1, s2, r1, r2)
  BY FirstToBack
<1>2. q1 = s1 \o <<s2[1]>> BY DEF TakenFirst
<1> QED BY <1>1, <1>2 DEF IsFirstGiven

(* The steps of a borrow, one after the other.                             *)
LEMMA HandingMade ==
  ASSUME NEW t \in Trees, NEW a \in Pages, NEW b \in Pages, a # b,
         NEW ia \in Seq(Entries), NEW ib \in Seq(Entries), NEW ca \in Seq(Pages), NEW cb \in Seq(Pages),
         NEW p, NEW u, u = Handing(t, a, b, ia, ca, ib, cb)
  PROVE  Handed(t, u, a, b, p, ia, ca, ib, cb) /\ \A x \in Pages : Parent(u, x) = Parent(t, x)
<1>1. LET w == Handing(t, a, b, ia, ca, ib, cb) IN
      Handed(t, w, a, b, p, ia, ca, ib, cb) /\ \A x \in Pages : Parent(w, x) = Parent(t, x)
  BY HandingIs
<1> QED BY <1>1

(* One separator is set.                                                   *)
LEMMA ItemMade ==
  ASSUME NEW t \in Trees, NEW u, NEW a \in Pages, NEW b \in Pages,
         NEW ia, NEW ib, NEW ca, NEW cb, NEW p \in Pages \ {a, b},
         Handed(t, u, a, b, p, ia, ca, ib, cb), NEW i, NEW e \in Entries, NEW u2, u2 = SetItem(u, p, i, e)
  PROVE  Handed(t, u2, a, b, p, ia, ca, ib, cb) /\ \A x \in Pages : Parent(u2, x) = Parent(u, x)
<1>1. LET w == SetItem(u, p, i, e) IN
      Handed(t, w, a, b, p, ia, ca, ib, cb) /\ \A x \in Pages : Parent(w, x) = Parent(u, x)
  BY HandedItem
<1> QED BY <1>1

(* The parents of the children that moved are set.                         *)
LEMMA ParentsMade ==
  ASSUME NEW t \in Trees, NEW u, NEW a \in Pages, NEW b \in Pages,
         NEW ia, NEW ib, NEW ca, NEW cb, NEW p,
         Handed(t, u, a, b, p, ia, ca, ib, cb), \A x \in Pages : Parent(u, x) = Parent(t, x),
         NEW moved \in Seq(Pages), NEW q \in Nat, NEW t1, t1 = SetParents(u, moved, q)
  PROVE  Handed(t, t1, a, b, p, ia, ca, ib, cb) /\ MovedTo(t, t1, moved, q)
<1>1. LET w == SetParents(u, moved, q) IN
      Handed(t, w, a, b, p, ia, ca, ib, cb) /\ MovedTo(t, w, moved, q)
  BY HandedParents
<1> QED BY <1>1

(* An item has gone from one of the neighbours a and b to the other.       *)
Borrowed(t, t1, N, h, nx, pv, a, b) ==
  /\ Good(t1, N, h, nx, pv) /\ SameEntries(t, t1)
  /\ SameHead(t, t1) /\ t1.status = t.status
  /\ \A x \in Pages : Leaf(t1, x) = Leaf(t, x)
  /\ \A x \in Pages \ {a, b} : Size(t1, x) = Size(t, x)

(* Borrowing is lending.                                                   *)
LEMMA BorrowedIs ==
  ASSUME NEW t, NEW t1, NEW N, NEW h, NEW nx, NEW pv, Good(t, N, h, nx, pv),
         NEW p \in N, NEW r, NEW a, NEW b, Siblings(t, a, b, p, r),
         NEW k, Cut(k, Kids(t, a) + Kids(t, b)), Lent(t, t1, a, b, k), MovedItems(t, t1, a, b),
         t1.status = t.status
  PROVE  Borrowed(t, t1, N, h, nx, pv, a, b)
<1>1. Good(t1, N, h, nx, pv) BY LentGood
<1>2. t \in Trees BY DEF Good
<1>3. /\ t1 \in Trees /\ SameHead(t, t1)
      /\ \A x \in Pages : Leaf(t1, x) = Leaf(t, x)
      /\ \A x \in Pages \ {a, b} : Size(t1, x) = Size(t, x)
  BY DEF Lent
<1>4. SameEntries(t, t1) BY <1>2, <1>3, MovedItemsKept
<1> QED BY <1>1, <1>3, <1>4 DEF Borrowed

(* The fields of a node that are sequences.                                *)
LEMMA SeqFields ==
  ASSUME NEW t \in Trees, NEW x \in Pages
  PROVE  /\ Items(t, x) \in Seq(Entries) /\ Childs(t, x) \in Seq(Pages)
         /\ Len(Items(t, x)) = Size(t, x) /\ Len(Childs(t, x)) = Kids(t, x)
         /\ \A i : Items(t, x)[i] = Item(t, x, i) /\ Childs(t, x)[i] = Kid(t, x, i)
BY DEF Trees, TreeNodes, Items, Childs, Size, Kids, Item, Kid

(* A row is itself.                                                        *)
LEMMA SameRowSelf ==
  ASSUME NEW s1, NEW s2
  PROVE  SameRow(s1, s2, s1, s2)
BY DEF SameRow

(* The last item, and the last child, of a go to b.                        *)
LEMMA LastLent ==
  ASSUME NEW t, NEW N, NEW h, NEW nx, NEW pv, Good(t, N, h, nx, pv),
         NEW p \in N, NEW r, NEW a, NEW b, Siblings(t, a, b, p, r), ~Leaf(t, a),
         Size(t, a) >= 2, NEW i, NEW e \in Entries,
         NEW t1, t1 = SetParents(
                        SetItem(Handing(t, a, b, GivenLast(Items(t, a)), GivenLast(Childs(t, a)),
                                        TakenLast(Items(t, a), Items(t, b)),
                                        TakenLast(Childs(t, a), Childs(t, b))), p, i, e),
                        <<Childs(t, a)[Len(Childs(t, a))]>>, b)
  PROVE  /\ Borrowed(t, t1, N, h, nx, pv, a, b)
         /\ Size(t1, a) = Size(t, a) - 1 /\ Size(t1, b) = Size(t, b) + 1
<1>g. t \in Trees /\ Shape(t, N, h) /\ Links(t, N, h, nx, pv) /\ Matched(t, N) BY DEF Good
<1>s. /\ N \subseteq Pages /\ 0 \notin Pages /\ \A x \in Pages : Kids(t, x) \in Nat
      /\ \A x \in N : \A j \in 1 .. Kids(t, x) : Kid(t, x, j) \in N /\ Parent(t, Kid(t, x, j)) = x
      /\ \A x \in N : \A j, l \in 1 .. Kids(t, x) : Kid(t, x, j) = Kid(t, x, l) => j = l
  BY <1>g, ShapeFacts
<1>b. /\ a \in N /\ b \in N /\ a # b /\ p # a /\ p # b
      /\ Kids(t, a) = 0 <=> Kids(t, b) = 0
  BY <1>g, SiblingFacts
<1>k. Size(t, a) = Kids(t, a) /\ Kids(t, a) >= 2 /\ Kids(t, b) # 0 /\ Size(t, b) = Kids(t, b)
  BY <1>g, <1>b DEF Matched
<1>p. a \in Pages /\ b \in Pages /\ p \in Pages \ {a, b} BY <1>b, <1>s
<1>f. /\ Items(t, a) \in Seq(Entries) /\ Items(t, b) \in Seq(Entries)
      /\ Childs(t, a) \in Seq(Pages) /\ Childs(t, b) \in Seq(Pages)
      /\ Len(Items(t, a)) = Size(t, a) /\ Len(Items(t, b)) = Size(t, b)
      /\ Len(Childs(t, a)) = Kids(t, a) /\ Len(Childs(t, b)) = Kids(t, b)
      /\ \A j : Childs(t, a)[j] = Kid(t, a, j) /\ Childs(t, b)[j] = Kid(t, b, j)
  BY <1>g, <1>p, SeqFields
<1> DEFINE ia == GivenLast(Items(t, a))
           ca == GivenLast(Childs(t, a))
           ib == TakenLast(Items(t, a), Items(t, b))
           cb == TakenLast(Childs(t, a), Childs(t, b))
           c == Childs(t, a)[Len(Childs(t, a))]
           u == Handing(t, a, b, ia, ca, ib, cb)
           u2 == SetItem(u, p, i, e)
<1>t. t1 = SetParents(u2, <<c>>, b) OBVIOUS
<1>d. /\ ia = GivenLast(Items(t, a)) /\ ib = TakenLast(Items(t, a), Items(t, b))
      /\ ca = GivenLast(Childs(t, a)) /\ cb = TakenLast(Childs(t, a), Childs(t, b))
      /\ c = Childs(t, a)[Len(Childs(t, a))]
  OBVIOUS
<1> HIDE DEF ia, ca, ib, cb, c
<1>u. u = Handing(t, a, b, ia, ca, ib, cb) /\ u2 = SetItem(u, p, i, e) OBVIOUS
<1> HIDE DEF u, u2
<1>l. /\ Items(t, a) \in Seq(Entries) /\ Items(t, b) \in Seq(Entries) /\ Len(Items(t, a)) >= 1
      /\ Childs(t, a) \in Seq(Pages) /\ Childs(t, b) \in Seq(Pages) /\ Len(Childs(t, a)) >= 1
  BY <1>f, <1>k
<1>1. /\ ia \in Seq(Entries) /\ ib \in Seq(Entries)
      /\ Len(ia) = Len(Items(t, a)) - 1 /\ Len(ib) = Len(Items(t, b)) + 1
      /\ SameRow(Items(t, a), Items(t, b), ia, ib)
  <2>1. IsLastGiven(Entries, Items(t, a), Items(t, b), ia, ib, Items(t, a)[Len(Items(t, a))])
    BY <1>d, <1>l, LastGiven
  <2> QED BY <2>1 DEF IsLastGiven
<1>2. /\ ca \in Seq(Pages) /\ cb \in Seq(Pages) /\ c \in Pages
      /\ Len(ca) = Len(Childs(t, a)) - 1 /\ Len(cb) = Len(Childs(t, b)) + 1
      /\ \A j \in 1 .. Len(Childs(t, a)) - 1 : ca[j] = Childs(t, a)[j]
      /\ cb[1] = c /\ \A j \in 2 .. Len(Childs(t, b)) + 1 : cb[j] = Childs(t, b)[j - 1]
      /\ SameRow(Childs(t, a), Childs(t, b), ca, cb)
  <2>1. IsLastGiven(Pages, Childs(t, a), Childs(t, b), ca, cb, c) BY <1>d, <1>l, LastGiven
  <2> QED BY <2>1 DEF IsLastGiven
<1>c. c = Kid(t, a, Kids(t, a)) /\ Parent(t, c) = a
  <2>1. Kids(t, a) \in 1 .. Kids(t, a) BY <1>k, <1>s, <1>p
  <2>2. c = Kid(t, a, Kids(t, a)) BY <1>d, <1>f
  <2> QED BY <2>1, <2>2, <1>s, <1>b
<1>3. Handed(t, u, a, b, p, ia, ca, ib, cb) /\ \A x \in Pages : Parent(u, x) = Parent(t, x)
  BY <1>1, <1>2, <1>b, <1>g, <1>p, <1>u, HandingMade
<1>4. Handed(t, u2, a, b, p, ia, ca, ib, cb) /\ \A x \in Pages : Parent(u2, x) = Parent(u, x)
  BY <1>3, <1>g, <1>p, <1>u, ItemMade
<1>5. Handed(t, t1, a, b, p, ia, ca, ib, cb) /\ MovedTo(t, t1, <<c>>, b)
  <2>1. <<c>> \in Seq(Pages) /\ b \in Nat BY <1>2, <1>p DEF Pages
  <2>2. \A x \in Pages : Parent(u2, x) = Parent(t, x) BY <1>3, <1>4
  <2> QED BY <2>1, <2>2, <1>4, <1>g, <1>p, <1>t, ParentsMade
<1>6. /\ Parent(t1, c) = b
      /\ \A x \in Pages : c # x => Parent(t1, x) = Parent(t, x)
  <2>1. Len(<<c>>) = 1 /\ <<c>>[1] = c /\ \A j \in 1 .. 1 : j = 1 OBVIOUS
  <2>2. /\ \A j \in 1 .. Len(<<c>>) : Parent(t1, <<c>>[j]) = b
        /\ \A x \in Pages : (\A j \in 1 .. Len(<<c>>) : <<c>>[j] # x) => Parent(t1, x) = Parent(t, x)
    BY <1>5 DEF MovedTo
  <2> QED BY <2>1, <2>2
<1>7. \A j \in 1 .. Len(ca) : Parent(t1, ca[j]) = a
  <2>1. SUFFICES ASSUME NEW j \in 1 .. Len(ca) PROVE Parent(t1, ca[j]) = a OBVIOUS
  <2>2. j \in 1 .. Kids(t, a) /\ j # Kids(t, a) /\ Kids(t, a) \in 1 .. Kids(t, a)
    <3>1. Len(ca) = Kids(t, a) - 1 BY <1>2, <1>f
    <3>2. Kids(t, a) \in Nat /\ Kids(t, a) >= 2 BY <1>k, <1>s, <1>p
    <3>3. j \in 1 .. Kids(t, a) - 1 BY <3>1
    <3> QED BY <3>2, <3>3
  <2>3. ca[j] = Kid(t, a, j)
    <3>1. j \in 1 .. Len(Childs(t, a)) - 1 BY <1>2
    <3> QED BY <3>1, <1>2, <1>f
  <2>4. ca[j] # c /\ ca[j] \in Pages /\ Parent(t, ca[j]) = a BY <2>2, <2>3, <1>c, <1>s, <1>b
  <2> QED BY <2>4, <1>6
<1>8. \A j \in 1 .. Len(cb) : Parent(t1, cb[j]) = b
  <2>1. SUFFICES ASSUME NEW j \in 1 .. Len(cb) PROVE Parent(t1, cb[j]) = b OBVIOUS
  <2>2. CASE j = 1 BY <2>2, <1>2, <1>6
  <2>3. CASE j # 1
    <3>1. j \in 2 .. Kids(t, b) + 1 /\ j - 1 \in 1 .. Kids(t, b) BY <2>3, <1>2, <1>f, <1>s, <1>p
    <3>2. cb[j] = Kid(t, b, j - 1) BY <3>1, <1>2, <1>f
    <3>3. cb[j] \in Pages /\ Parent(t, cb[j]) = b BY <3>1, <3>2, <1>s, <1>b
    <3>4. cb[j] # c BY <3>3, <1>c, <1>b
    <3> QED BY <3>3, <3>4, <1>6
  <2> QED BY <2>2, <2>3
<1>9. \A x \in Pages : Parent(t, x) \notin {a, b} => Parent(t1, x) = Parent(t, x) BY <1>6, <1>c
<1>10. /\ Len(ia) \in Nat /\ Len(ib) \in Nat /\ Len(ca) \in Nat /\ Len(cb) \in Nat
       /\ Len(ia) = Len(ca) /\ Len(ib) = Len(cb)
  BY <1>1, <1>2, <1>f, <1>k
<1>11. /\ Lent(t, t1, a, b, Len(ca)) /\ MovedItems(t, t1, a, b)
       /\ Size(t1, a) = Len(ia) /\ Size(t1, b) = Len(ib)
  <2>1. SameRow(Items(t, a), Items(t, b), ia, ib) /\ SameRow(Childs(t, a), Childs(t, b), ca, cb)
    BY <1>1, <1>2
  <2>2. Handed(t, t1, a, b, p, ia, ca, ib, cb) BY <1>5
  <2> QED BY <2>1, <2>2, <1>7, <1>8, <1>9, <1>10, LentIs
<1>12. Cut(Len(ca), Kids(t, a) + Kids(t, b)) BY <1>2, <1>f, <1>k, <1>s, <1>p DEF Cut
<1>13. t1.status = t.status BY <1>5 DEF Handed
<1>14. Borrowed(t, t1, N, h, nx, pv, a, b) BY <1>11, <1>12, <1>13, BorrowedIs
<1> QED BY <1>14, <1>11, <1>1, <1>f

(* Nothing is put in front of a sequence.                                  *)
LEMMA ConcatNone ==
  ASSUME NEW S, NEW s \in Seq(S)
  PROVE  <<>> \o s = s /\ s \o <<>> = s
BY ConcatEmptySeq

(* Nothing moves but items.                                                *)
LEMMA LeafLent ==
  ASSUME NEW t, NEW N, NEW h, NEW nx, NEW pv, Good(t, N, h, nx, pv),
         NEW p \in N, NEW r, NEW a, NEW b, Siblings(t, a, b, p, r), Leaf(t, a),
         NEW ia \in Seq(Entries), NEW ib \in Seq(Entries), SameRow(Items(t, a), Items(t, b), ia, ib),
         NEW ca, ca = Childs(t, a), NEW cb, cb = Childs(t, b), NEW q,
         NEW t1, Handed(t, t1, a, b, p, ia, ca, ib, cb), MovedTo(t, t1, <<>>, q)
  PROVE  /\ Borrowed(t, t1, N, h, nx, pv, a, b)
         /\ Size(t1, a) = Len(ia) /\ Size(t1, b) = Len(ib)
<1>g. t \in Trees /\ Shape(t, N, h) /\ Links(t, N, h, nx, pv) /\ Matched(t, N) BY DEF Good
<1>s. N \subseteq Pages BY <1>g, ShapeFacts
<1>b. /\ a \in N /\ b \in N /\ (Kids(t, a) = 0 <=> Kids(t, b) = 0) BY <1>g, SiblingFacts
<1>k. Kids(t, a) = 0 /\ Kids(t, b) = 0
  <2>1. Leaf(t, a) <=> Kids(t, a) = 0 BY <1>g, <1>b DEF Matched
  <2> QED BY <2>1, <1>b
<1>1. Len(ca) = 0 /\ Len(cb) = 0 BY <1>k DEF Kids
<1>2. \A x \in Pages : Parent(t1, x) = Parent(t, x)
  <2>1. Len(<<>>) = 0 OBVIOUS
  <2>2. 1 .. 0 = {} OBVIOUS
  <2>3. \A x \in Pages : (\A j \in 1 .. Len(<<>>) : <<>>[j] # x) => Parent(t1, x) = Parent(t, x)
    BY DEF MovedTo
  <2> QED BY <2>1, <2>2, <2>3
<1>3. /\ \A j \in 1 .. Len(ca) : Parent(t1, ca[j]) = a
      /\ \A j \in 1 .. Len(cb) : Parent(t1, cb[j]) = b
  BY <1>1
<1>4. /\ Len(ia) \in Nat /\ Len(ib) \in Nat /\ Len(ca) \in Nat /\ Len(cb) \in Nat
      /\ (~Leaf(t, a) => Len(ia) = Len(ca) /\ Len(ib) = Len(cb))
  BY <1>1
<1>5. SameRow(Childs(t, a), Childs(t, b), ca, cb) BY SameRowSelf
<1>6. /\ Lent(t, t1, a, b, Len(ca)) /\ MovedItems(t, t1, a, b)
      /\ Size(t1, a) = Len(ia) /\ Size(t1, b) = Len(ib)
  BY <1>2, <1>3, <1>4, <1>5, LentIs
<1>7. Cut(Len(ca), Kids(t, a) + Kids(t, b)) BY <1>1, <1>k DEF Cut
<1>8. t1.status = t.status BY DEF Handed
<1>9. Borrowed(t, t1, N, h, nx, pv, a, b) BY <1>6, <1>7, <1>8, BorrowedIs
<1> QED BY <1>6, <1>9

(* In whichever order the two neighbours are named.                        *)
LEMMA HandedEither ==
  ASSUME NEW t, NEW u, NEW a, NEW b, NEW p, NEW ia, NEW ca, NEW ib, NEW cb,
         Handed(t, u, b, a, p, ib, cb, ia, ca)
  PROVE  Handed(t, u, a, b, p, ia, ca, ib, cb)
<1>1. {a, b} = {b, a} /\ {a, b, p} = {b, a, p} OBVIOUS
<1> QED BY <1>1 DEF Handed

(* The first item, and the first child, of b go to a.                      *)
LEMMA FirstLent ==
  ASSUME NEW t, NEW N, NEW h, NEW nx, NEW pv, Good(t, N, h, nx, pv),
         NEW p \in N, NEW r, NEW a, NEW b, Siblings(t, a, b, p, r), ~Leaf(t, a),
         Size(t, b) >= 2,
         NEW t1, t1 = SetParents(
                        Handing(t, b, a, Tail(Items(t, b)), Tail(Childs(t, b)),
                                TakenFirst(Items(t, a), Items(t, b)), TakenFirst(Childs(t, a), Childs(t, b))),
                        <<Childs(t, b)[1]>>, a)
  PROVE  /\ Borrowed(t, t1, N, h, nx, pv, a, b)
         /\ Size(t1, a) = Size(t, a) + 1 /\ Size(t1, b) = Size(t, b) - 1
<1>g. t \in Trees /\ Shape(t, N, h) /\ Links(t, N, h, nx, pv) /\ Matched(t, N) BY DEF Good
<1>s. /\ N \subseteq Pages /\ 0 \notin Pages /\ \A x \in Pages : Kids(t, x) \in Nat
      /\ \A x \in N : \A j \in 1 .. Kids(t, x) : Kid(t, x, j) \in N /\ Parent(t, Kid(t, x, j)) = x
      /\ \A x \in N : \A j, l \in 1 .. Kids(t, x) : Kid(t, x, j) = Kid(t, x, l) => j = l
  BY <1>g, ShapeFacts
<1>b. /\ a \in N /\ b \in N /\ a # b /\ p # a /\ p # b
      /\ Kids(t, a) = 0 <=> Kids(t, b) = 0
  BY <1>g, SiblingFacts
<1>k. Size(t, a) = Kids(t, a) /\ Kids(t, b) >= 2 /\ Kids(t, a) # 0 /\ Size(t, b) = Kids(t, b)
  <2>1. Kids(t, a) # 0 /\ Kids(t, b) # 0 BY <1>g, <1>b DEF Matched
  <2> QED BY <2>1, <1>g, <1>b DEF Matched
<1>p. a \in Pages /\ b \in Pages /\ p \in Pages \ {a, b} BY <1>b, <1>s
<1>f. /\ Items(t, a) \in Seq(Entries) /\ Items(t, b) \in Seq(Entries)
      /\ Childs(t, a) \in Seq(Pages) /\ Childs(t, b) \in Seq(Pages)
      /\ Len(Items(t, a)) = Size(t, a) /\ Len(Items(t, b)) = Size(t, b)
      /\ Len(Childs(t, a)) = Kids(t, a) /\ Len(Childs(t, b)) = Kids(t, b)
      /\ \A j : Childs(t, a)[j] = Kid(t, a, j) /\ Childs(t, b)[j] = Kid(t, b, j)
  BY <1>g, <1>p, SeqFields
<1> DEFINE ia == TakenFirst(Items(t, a), Items(t, b))
           ca == TakenFirst(Childs(t, a), Childs(t, b))
           ib == Tail(Items(t, b))
           cb == Tail(Childs(t, b))
           c == Childs(t, b)[1]
           u == Handing(t, b, a, ib, cb, ia, ca)
<1>t. t1 = SetParents(u, <<c>>, a) OBVIOUS
<1>d. /\ ia = TakenFirst(Items(t, a), Items(t, b)) /\ ib = Tail(Items(t, b))
      /\ ca = TakenFirst(Childs(t, a), Childs(t, b)) /\ cb = Tail(Childs(t, b))
      /\ c = Childs(t, b)[1]
  OBVIOUS
<1> HIDE DEF ia, ca, ib, cb, c
<1>u. u = Handing(t, b, a, ib, cb, ia, ca) OBVIOUS
<1> HIDE DEF u
<1>l. /\ Items(t, a) \in Seq(Entries) /\ Items(t, b) \in Seq(Entries) /\ Len(Items(t, b)) >= 1
      /\ Childs(t, a) \in Seq(Pages) /\ Childs(t, b) \in Seq(Pages) /\ Len(Childs(t, b)) >= 1
  BY <1>f, <1>k
<1>1. /\ ia \in Seq(Entries) /\ ib \in Seq(Entries)
      /\ Len(ia) = Len(Items(t, a)) + 1 /\ Len(ib) = Len(Items(t, b)) - 1
      /\ SameRow(Items(t, a), Items(t, b), ia, ib)
  <2>1. IsFirstGiven(Entries, Items(t, a), Items(t, b), ia, ib, Items(t, b)[1])
    BY <1>d, <1>l, FirstGiven
  <2> QED BY <2>1 DEF IsFirstGiven
<1>2. /\ ca \in Seq(Pages) /\ cb \in Seq(Pages) /\ c \in Pages
      /\ Len(ca) = Len(Childs(t, a)) + 1 /\ Len(cb) = Len(Childs(t, b)) - 1
      /\ \A j \in 1 .. Len(Childs(t, a)) : ca[j] = Childs(t, a)[j]
      /\ ca[Len(Childs(t, a)) + 1] = c
      /\ \A j \in 1 .. Len(Childs(t, b)) - 1 : cb[j] = Childs(t, b)[j + 1]
      /\ SameRow(Childs(t, a), Childs(t, b), ca, cb)
  <2>1. IsFirstGiven(Pages, Childs(t, a), Childs(t, b), ca, cb, c) BY <1>d, <1>l, FirstGiven
  <2> QED BY <2>1 DEF IsFirstGiven
<1>c. c = Kid(t, b, 1) /\ Parent(t, c) = b
  <2>1. 1 \in 1 .. Kids(t, b) BY <1>k, <1>s, <1>p
  <2>2. c = Kid(t, b, 1) BY <1>d, <1>f
  <2> QED BY <2>1, <2>2, <1>s, <1>b
<1>3. Handed(t, u, b, a, p, ib, cb, ia, ca) /\ \A x \in Pages : Parent(u, x) = Parent(t, x)
  BY <1>1, <1>2, <1>b, <1>g, <1>p, <1>u, HandingMade
<1>4. Handed(t, u, a, b, p, ia, ca, ib, cb) BY <1>3, HandedEither
<1>5. Handed(t, t1, a, b, p, ia, ca, ib, cb) /\ MovedTo(t, t1, <<c>>, a)
  <2>1. <<c>> \in Seq(Pages) /\ a \in Nat BY <1>2, <1>p DEF Pages
  <2> QED BY <2>1, <1>3, <1>4, <1>g, <1>p, <1>t, ParentsMade
<1>6. /\ Parent(t1, c) = a
      /\ \A x \in Pages : c # x => Parent(t1, x) = Parent(t, x)
  <2>1. Len(<<c>>) = 1 /\ <<c>>[1] = c /\ \A j \in 1 .. 1 : j = 1 OBVIOUS
  <2>2. /\ \A j \in 1 .. Len(<<c>>) : Parent(t1, <<c>>[j]) = a
        /\ \A x \in Pages : (\A j \in 1 .. Len(<<c>>) : <<c>>[j] # x) => Parent(t1, x) = Parent(t, x)
    BY <1>5 DEF MovedTo
  <2> QED BY <2>1, <2>2
<1>7. \A j \in 1 .. Len(ca) : Parent(t1, ca[j]) = a
  <2>1. SUFFICES ASSUME NEW j \in 1 .. Len(ca) PROVE Parent(t1, ca[j]) = a OBVIOUS
  <2>0. Len(ca) = Kids(t, a) + 1 /\ Len(Childs(t, a)) = Kids(t, a) /\ Kids(t, a) \in Nat BY <1>2, <1>f, <1>s, <1>p
  <2>2. CASE j = Kids(t, a) + 1 BY <2>0, <2>2, <1>2, <1>6
  <2>3. CASE j # Kids(t, a) + 1
    <3>1. j \in 1 .. Kids(t, a) BY <2>0, <2>3
    <3>2. ca[j] = Kid(t, a, j) BY <2>0, <3>1, <1>2, <1>f
    <3>3. ca[j] \in Pages /\ Parent(t, ca[j]) = a BY <3>1, <3>2, <1>s, <1>b
    <3>4. ca[j] # c BY <3>3, <1>c, <1>b
    <3> QED BY <3>3, <3>4, <1>6
  <2> QED BY <2>2, <2>3
<1>8. \A j \in 1 .. Len(cb) : Parent(t1, cb[j]) = b
  <2>1. SUFFICES ASSUME NEW j \in 1 .. Len(cb) PROVE Parent(t1, cb[j]) = b OBVIOUS
  <2>2. j + 1 \in 1 .. Kids(t, b) /\ j + 1 # 1 /\ 1 \in 1 .. Kids(t, b) /\ j \in 1 .. Len(Childs(t, b)) - 1
    <3>1. Len(cb) = Kids(t, b) - 1 /\ Len(Childs(t, b)) = Kids(t, b) BY <1>2, <1>f
    <3>2. Kids(t, b) \in Nat /\ Kids(t, b) >= 2 BY <1>k, <1>s, <1>p
    <3>3. j \in 1 .. Kids(t, b) - 1 BY <3>1
    <3> QED BY <3>1, <3>2, <3>3
  <2>3. cb[j] = Kid(t, b, j + 1) BY <2>2, <1>2, <1>f
  <2>4. cb[j] # c /\ cb[j] \in Pages /\ Parent(t, cb[j]) = b BY <2>2, <2>3, <1>c, <1>s, <1>b
  <2> QED BY <2>4, <1>6
<1>9. \A x \in Pages : Parent(t, x) \notin {a, b} => Parent(t1, x) = Parent(t, x) BY <1>6, <1>c
<1>10. /\ Len(ia) \in Nat /\ Len(ib) \in Nat /\ Len(ca) \in Nat /\ Len(cb) \in Nat
       /\ Len(ia) = Len(ca) /\ Len(ib) = Len(cb)
  BY <1>1, <1>2, <1>f, <1>k
<1>11. /\ Lent(t, t1, a, b, Len(ca)) /\ MovedItems(t, t1, a, b)
       /\ Size(t1, a) = Len(ia) /\ Size(t1, b) = Len(ib)
  <2>1. SameRow(Items(t, a), Items(t, b), ia, ib) /\ SameRow(Childs(t, a), Childs(t, b), ca, cb)
    BY <1>1, <1>2
  <2>2. Handed(t, t1, a, b, p, ia, ca, ib, cb) BY <1>5
  <2> QED BY <2>1, <2>2, <1>7, <1>8, <1>9, <1>10, LentIs
<1>12. Cut(Len(ca), Kids(t, a) + Kids(t, b)) BY <1>2, <1>f, <1>k, <1>s, <1>p DEF Cut
<1>13. t1.status = t.status BY <1>5 DEF Handed
<1>14. Borrowed(t, t1, N, h, nx, pv, a, b) BY <1>11, <1>12, <1>13, BorrowedIs
<1> QED BY <1>14, <1>11, <1>1, <1>f

(* After an operation has stopped with the tree t2.                        *)
Kept(t, t2, N, h, nx, pv) ==
  /\ Good(t2, N, h, nx, pv)
  /\ OverSized(t2, N, 0)
  /\ SameEntries(t, t2) /\ t2.entryNum = t.entryNum

(* Setting separators keeps all that counts.                               *)
LEMMA InnerKept ==
  ASSUME NEW t, NEW t2, NEW t3, NEW N, NEW h, NEW nx, NEW pv, Kept(t, t2, N, h, nx, pv), InnerItems(t2, t3)
  PROVE  Kept(t, t3, N, h, nx, pv)
<1>1. Good(t2, N, h, nx, pv) /\ OverSized(t2, N, 0) /\ SameEntries(t, t2) /\ t2.entryNum = t.entryNum
  BY DEF Kept
<1>2. /\ Good(t3, N, h, nx, pv)
      /\ SameEntries(t2, t3)
      /\ t3.root = t2.root /\ t3.entryNum = t2.entryNum
      /\ \A x \in Pages : Size(t3, x) = Size(t2, x) /\ Leaf(t3, x) = Leaf(t2, x)
  BY <1>1, InnerItemsKept
<1>3. /\ \A x \in N : Size(t2, x) <= IF x = 0 THEN EntryLimit + 1 ELSE EntryLimit
      /\ \A x \in N \ {t2.root} : Size(t2, x) >= MinItems
      /\ ~Leaf(t2, t2.root) => Size(t2, t2.root) >= 2
  BY <1>1 DEF OverSized
<1>4. N \subseteq Pages /\ t2.root \in N
  <2>1. Shape(t2, N, h) BY <1>1 DEF Good
  <2> QED BY <2>1, ShapeFacts
<1>5. OverSized(t3, N, 0) BY <1>2, <1>3, <1>4 DEF OverSized
<1>6. SameEntries(t, t3) BY <1>1, <1>2, SameEntriesStep
<1> QED BY <1>1, <1>2, <1>5, <1>6 DEF Kept

(* A borrow ends the operation.                                            *)
LEMMA BorrowDone ==
  ASSUME NEW t, NEW t1, NEW N, NEW h, NEW nx, NEW pv, Good(t, N, h, nx, pv),
         NEW a \in N \ {t.root}, NEW b \in N \ {t.root}, Borrowed(t, t1, N, h, nx, pv, a, b),
         NEW v \in {a, b}, UnderSized(t, N, v),
         Size(t1, a) \in MinItems .. EntryLimit, Size(t1, b) \in MinItems .. EntryLimit
  PROVE  Kept(t, UpdateToRoot(t1, v), N, h, nx, pv)
<1>1. /\ Good(t1, N, h, nx, pv) /\ SameEntries(t, t1)
      /\ SameHead(t, t1)
      /\ \A x \in Pages : Leaf(t1, x) = Leaf(t, x)
      /\ \A x \in Pages \ {a, b} : Size(t1, x) = Size(t, x)
  BY DEF Borrowed
<1>2. t1.root = t.root /\ t1.entryNum = t.entryNum BY <1>1 DEF SameHead
<1>3. N \subseteq Pages /\ t.root \in N /\ 0 \notin Pages
  <2>1. Shape(t, N, h) BY DEF Good
  <2> QED BY <2>1, ShapeFacts
<1>4. /\ \A x \in N : Size(t, x) <= EntryLimit
      /\ \A x \in N \ {t.root} : Size(t, x) >= IF x = v THEN MinItems - 1 ELSE MinItems
      /\ ~Leaf(t, t.root) => Size(t, t.root) >= IF t.root = v THEN 1 ELSE 2
  BY DEF UnderSized
<1>m. MinItems \in Nat /\ EntryLimit \in Nat BY MinItemsIs, EntryLimitAssumption
<1>5. \A x \in N : Size(t1, x) <= EntryLimit
  <2>1. SUFFICES ASSUME NEW x \in N PROVE Size(t1, x) <= EntryLimit OBVIOUS
  <2>2. CASE x \in {a, b} BY <2>2, <1>m
  <2>3. CASE x \notin {a, b} BY <2>3, <1>1, <1>3, <1>4
  <2> QED BY <2>2, <2>3
<1>6. \A x \in N \ {t.root} : Size(t1, x) >= MinItems
  <2>1. SUFFICES ASSUME NEW x \in N \ {t.root} PROVE Size(t1, x) >= MinItems OBVIOUS
  <2>2. CASE x \in {a, b} BY <2>2, <1>m
  <2>3. CASE x \notin {a, b} BY <2>3, <1>1, <1>3, <1>4
  <2> QED BY <2>2, <2>3
<1>7. ~Leaf(t1, t.root) => Size(t1, t.root) >= 2 BY <1>1, <1>3, <1>4
<1>8. OverSized(t1, N, 0) BY <1>2, <1>3, <1>5, <1>6, <1>7 DEF OverSized
<1>9. Kept(t, t1, N, h, nx, pv) BY <1>1, <1>2, <1>8 DEF Kept
<1>10. v \in N OBVIOUS
<1> DEFINE t2 == UpdateToRoot(t1, v)
<1>11. InnerItems(t1, t2) BY <1>1, <1>10, UpdateToRootIs
<1> HIDE DEF t2
<1>12. Kept(t, t2, N, h, nx, pv) BY <1>9, <1>11, InnerKept
<1> QED BY <1>12 DEF t2

(* Borrowing from the left sibling.                                        *)
LEMMA BorrowLeftKept ==
  ASSUME NEW t, NEW N, NEW h, NEW nx, NEW pv, Good(t, N, h, nx, pv),
         NEW v \in N, v # t.root, UnderSized(t, N, v), Size(t, v) < MinItems,
         NEW a, a = LeftSibling(t, v), CanLend(t, a)
  PROVE  Kept(t, BorrowLeft(t, a, v), N, h, nx, pv)
<1>g. t \in Trees /\ Shape(t, N, h) /\ Links(t, N, h, nx, pv) /\ Matched(t, N) BY DEF Good
<1>s. N \subseteq Pages /\ 0 \notin Pages /\ \A x \in N : Parent(t, x) = 0 => x = t.root
  BY <1>g, ShapeFacts
<1>m. MinItems \in Nat /\ MinItems >= 2 /\ MinItems < EntryLimit /\ EntryLimit \in Nat
  BY MinItemsIs, EntryLimitAssumption
<1> DEFINE p == Parent(t, v)
           r == Rank(t, v, p)
<1>1. a # 0 /\ Size(t, a) > MinItems BY DEF CanLend, NULL_NODE, Size
<1>2. Siblings(t, a, v, p, r - 1) /\ p \in N BY <1>1, <1>g, LeftSiblingIs
<1>p. p = Parent(t, v) OBVIOUS
<1> HIDE DEF p, r
<1>3. /\ a \in N /\ a # v /\ p # a /\ p # v
      /\ Kids(t, a) = 0 <=> Kids(t, v) = 0
      /\ Parent(t, a) = p
  BY <1>2, <1>g, SiblingFacts
<1>4. a # t.root
  <2>1. Parent(t, t.root) = 0 BY <1>g, ShapeFacts
  <2> QED BY <2>1, <1>2, <1>3, <1>s
<1>5. Size(t, a) \in Nat /\ Size(t, v) \in Nat BY <1>g, <1>s, <1>3, TreeTypes
<1>6. Size(t, a) <= EntryLimit /\ Size(t, v) >= MinItems - 1 BY <1>3 DEF UnderSized
<1>7. Leaf(t, a) = Leaf(t, v)
  <2>1. \A x \in {a, v} : Leaf(t, x) <=> Kids(t, x) = 0 BY <1>g, <1>3 DEF Matched
  <2>2. Leaf(t, a) \in BOOLEAN /\ Leaf(t, v) \in BOOLEAN BY <1>g, <1>3, <1>s DEF Trees, TreeNodes, Leaf
  <2> QED BY <2>1, <2>2, <1>3
<1>f. /\ Items(t, a) \in Seq(Entries) /\ Items(t, v) \in Seq(Entries)
      /\ Childs(t, a) \in Seq(Pages) /\ Childs(t, v) \in Seq(Pages)
      /\ Len(Items(t, a)) = Size(t, a) /\ Len(Items(t, v)) = Size(t, v)
  BY <1>g, <1>3, <1>s, SeqFields
<1> DEFINE e == Items(t, a)[Len(Items(t, a))]
           i == Rank(t, v, p)
<1>e. e \in Entries
  <2>1. Len(Items(t, a)) \in 1 .. Len(Items(t, a)) BY <1>f, <1>1, <1>m, <1>5
  <2> QED BY <2>1, <1>f
<1>8. CASE ~Leaf(t, v)
  <2> DEFINE t1 == SetParents(
                 SetItem(Handing(t, a, v, GivenLast(Items(t, a)), GivenLast(Childs(t, a)),
                                 TakenLast(Items(t, a), Items(t, v)),
                                 TakenLast(Childs(t, a), Childs(t, v))),
                         p, i, e),
                 <<Childs(t, a)[Len(Childs(t, a))]>>, v)
  <2>1. ~Leaf(t, a) /\ Size(t, a) >= 2 /\ Kids(t, a) = Size(t, a)
    <3>1. ~Leaf(t, a) BY <1>7, <1>8
    <3>2. Size(t, a) >= 2 BY <1>1, <1>m, <1>5
    <3> QED BY <3>1, <3>2, <1>g, <1>3 DEF Matched
  <2>2. BorrowLeft(t, a, v) = UpdateToRoot(t1, v) BY <1>8, <1>p, <2>1, BorrowLeftInner
  <2>3. /\ Borrowed(t, t1, N, h, nx, pv, a, v)
        /\ Size(t1, a) = Size(t, a) - 1 /\ Size(t1, v) = Size(t, v) + 1
    <3> HIDE DEF e, i
    <3> QED BY <1>2, <1>e, <2>1, LastLent
  <2> HIDE DEF t1
  <2>4. Size(t1, a) \in MinItems .. EntryLimit /\ Size(t1, v) \in MinItems .. EntryLimit
    BY <2>3, <1>1, <1>5, <1>6, <1>m
  <2>5. Kept(t, UpdateToRoot(t1, v), N, h, nx, pv) BY <2>3, <2>4, <1>3, <1>4, BorrowDone
  <2> QED BY <2>2, <2>5
<1>9. CASE Leaf(t, v)
  <2> DEFINE ia == GivenLast(Items(t, a))
             ib == TakenLast(Items(t, a), Items(t, v))
             ca == Childs(t, a)
             cb == <<>> \o Childs(t, v)
             u  == Handing(t, a, v, ia, ca, ib, cb)
             u2 == SetItem(u, p, i, e)
             t1 == SetParents(u2, <<>>, v)
  <2>1. Leaf(t, a) BY <1>7, <1>9
  <2>2. BorrowLeft(t, a, v) = UpdateToRoot(t1, v) BY <1>9, <1>p, BorrowLeftLeaf
  <2>d. /\ ia = GivenLast(Items(t, a)) /\ ib = TakenLast(Items(t, a), Items(t, v)) /\ ca = Childs(t, a)
        /\ u = Handing(t, a, v, ia, ca, ib, cb) /\ u2 = SetItem(u, p, i, e)
        /\ t1 = SetParents(u2, <<>>, v) /\ e = Items(t, a)[Len(Items(t, a))]
    OBVIOUS
  <2>c. cb = Childs(t, v) BY <1>f, ConcatNone
  <2> HIDE DEF ia, ib, ca, cb, u, u2, t1, e, i
  <2>3. Len(Items(t, a)) >= 1 BY <1>f, <1>1, <1>m, <1>5
  <2>4. IsLastGiven(Entries, Items(t, a), Items(t, v), ia, ib, e)
    BY <2>3, <2>d, <1>f, LastGiven
  <2>5. /\ ia \in Seq(Entries) /\ ib \in Seq(Entries)
        /\ Len(ia) = Len(Items(t, a)) - 1 /\ Len(ib) = Len(Items(t, v)) + 1
        /\ SameRow(Items(t, a), Items(t, v), ia, ib)
    BY <2>4 DEF IsLastGiven
  <2>p. a \in Pages /\ v \in Pages /\ a # v /\ p \in Pages \ {a, v} /\ v \in Nat BY <1>2, <1>3, <1>s DEF Pages
  <2>6. ca \in Seq(Pages) /\ cb \in Seq(Pages) BY <2>c, <2>d, <1>f
  <2>7. Handed(t, u, a, v, p, ia, ca, ib, cb) /\ \A x \in Pages : Parent(u, x) = Parent(t, x)
    BY <2>5, <2>6, <2>p, <2>d, <1>g, HandingMade
  <2>8. Handed(t, u2, a, v, p, ia, ca, ib, cb) /\ \A x \in Pages : Parent(u2, x) = Parent(u, x)
    BY <2>7, <2>p, <2>d, <1>g, <1>e, ItemMade
  <2>9. Handed(t, t1, a, v, p, ia, ca, ib, cb) /\ MovedTo(t, t1, <<>>, v)
    <3> DEFINE none == <<>>
    <3>1. none \in Seq(Pages) /\ t1 = SetParents(u2, none, v) BY <2>d
    <3>2. \A x \in Pages : Parent(u2, x) = Parent(t, x) BY <2>7, <2>8
    <3> HIDE DEF none
    <3>3. Handed(t, t1, a, v, p, ia, ca, ib, cb) /\ MovedTo(t, t1, none, v)
      BY <3>1, <3>2, <2>8, <2>p, <1>g, ParentsMade
    <3> QED BY <3>3 DEF none
  <2>10. /\ Borrowed(t, t1, N, h, nx, pv, a, v)
         /\ Size(t1, a) = Len(ia) /\ Size(t1, v) = Len(ib)
    BY <1>2, <2>1, <2>5, <2>c, <2>d, <2>9, LeafLent
  <2>11. Size(t1, a) \in MinItems .. EntryLimit /\ Size(t1, v) \in MinItems .. EntryLimit
    <3>1. Size(t1, a) = Size(t, a) - 1 /\ Size(t1, v) = Size(t, v) + 1 BY <2>10, <2>5, <1>f
    <3> QED BY <3>1, <1>1, <1>5, <1>6, <1>m
  <2>12. Kept(t, UpdateToRoot(t1, v), N, h, nx, pv) BY <2>10, <2>11, <1>3, <1>4, BorrowDone
  <2> QED BY <2>2, <2>12
<1> QED BY <1>8, <1>9

(* Borrowing from the right sibling.                                       *)
LEMMA BorrowRightKept ==
  ASSUME NEW t, NEW N, NEW h, NEW nx, NEW pv, Good(t, N, h, nx, pv),
         NEW v \in N, v # t.root, UnderSized(t, N, v), Size(t, v) < MinItems,
         NEW a, a = RightSibling(t, v), CanLend(t, a)
  PROVE  Kept(t, BorrowRight(t, v, a), N, h, nx, pv)
<1>g. t \in Trees /\ Shape(t, N, h) /\ Links(t, N, h, nx, pv) /\ Matched(t, N) BY DEF Good
<1>s. N \subseteq Pages /\ 0 \notin Pages /\ \A x \in N : Parent(t, x) = 0 => x = t.root
  BY <1>g, ShapeFacts
<1>m. MinItems \in Nat /\ MinItems >= 2 /\ MinItems < EntryLimit /\ EntryLimit \in Nat
  BY MinItemsIs, EntryLimitAssumption
<1> DEFINE p == Parent(t, v)
           r == Rank(t, v, p)
<1>1. a # 0 /\ Size(t, a) > MinItems BY DEF CanLend, NULL_NODE, Size
<1>2. Siblings(t, v, a, p, r) /\ p \in N BY <1>1, <1>g, RightSiblingIs
<1>p. p = Parent(t, v) OBVIOUS
<1> HIDE DEF p, r
<1>3. /\ a \in N /\ a # v /\ p # a /\ p # v
      /\ Kids(t, a) = 0 <=> Kids(t, v) = 0
      /\ Parent(t, a) = p
  BY <1>2, <1>g, SiblingFacts
<1>4. a # t.root
  <2>1. Parent(t, t.root) = 0 BY <1>g, ShapeFacts
  <2> QED BY <2>1, <1>2, <1>3, <1>s
<1>5. Size(t, a) \in Nat /\ Size(t, v) \in Nat BY <1>g, <1>s, <1>3, TreeTypes
<1>6. Size(t, a) <= EntryLimit /\ Size(t, v) >= MinItems - 1 BY <1>3 DEF UnderSized
<1>7. Leaf(t, a) = Leaf(t, v)
  <2>1. \A x \in {a, v} : Leaf(t, x) <=> Kids(t, x) = 0 BY <1>g, <1>3 DEF Matched
  <2>2. Leaf(t, a) \in BOOLEAN /\ Leaf(t, v) \in BOOLEAN BY <1>g, <1>3, <1>s DEF Trees, TreeNodes, Leaf
  <2> QED BY <2>1, <2>2, <1>3
<1>f. /\ Items(t, a) \in Seq(Entries) /\ Items(t, v) \in Seq(Entries)
      /\ Childs(t, a) \in Seq(Pages) /\ Childs(t, v) \in Seq(Pages)
      /\ Len(Items(t, a)) = Size(t, a) /\ Len(Items(t, v)) = Size(t, v)
  BY <1>g, <1>3, <1>s, SeqFields
<1>a. Append(Items(t, v), Items(t, a)[1]) = TakenFirst(Items(t, v), Items(t, a))
  <2>1. 1 \in 1 .. Len(Items(t, a)) BY <1>f, <1>1, <1>m, <1>5
  <2>2. Items(t, a)[1] \in Entries BY <2>1, <1>f
  <2> QED BY <2>2, <1>f, AppendIs DEF TakenFirst
<1>8. CASE ~Leaf(t, v)
  <2> DEFINE t1 == SetParents(
                 Handing(t, a, v, Tail(Items(t, a)), Tail(Childs(t, a)),
                         TakenFirst(Items(t, v), Items(t, a)), TakenFirst(Childs(t, v), Childs(t, a))),
                 <<Childs(t, a)[1]>>, v)
  <2>1. ~Leaf(t, a) /\ Size(t, a) >= 2 /\ Kids(t, a) = Size(t, a)
    <3>1. ~Leaf(t, a) BY <1>7, <1>8
    <3>2. Size(t, a) >= 2 BY <1>1, <1>m, <1>5
    <3> QED BY <3>1, <3>2, <1>g, <1>3 DEF Matched
  <2>2. BorrowRight(t, v, a) = UpdateToRoot(t1, v) BY <1>8, <1>a, BorrowRightInner
  <2>3. /\ Borrowed(t, t1, N, h, nx, pv, v, a)
        /\ Size(t1, a) = Size(t, a) - 1 /\ Size(t1, v) = Size(t, v) + 1
    <3> QED BY <1>2, <1>8, <2>1, FirstLent
  <2> HIDE DEF t1
  <2>4. Size(t1, a) \in MinItems .. EntryLimit /\ Size(t1, v) \in MinItems .. EntryLimit
    BY <2>3, <1>1, <1>5, <1>6, <1>m
  <2>5. Kept(t, UpdateToRoot(t1, v), N, h, nx, pv) BY <2>3, <2>4, <1>3, <1>4, BorrowDone
  <2> QED BY <2>2, <2>5
<1>9. CASE Leaf(t, v)
  <2> DEFINE ia == Tail(Items(t, a))
             ib == TakenFirst(Items(t, v), Items(t, a))
             ca == Childs(t, a)
             cb == Childs(t, v) \o <<>>
             e  == Items(t, a)[1]
             u  == Handing(t, a, v, ia, ca, ib, cb)
             t1 == SetParents(u, <<>>, v)
  <2>1. BorrowRight(t, v, a) = UpdateToRoot(t1, v) BY <1>9, <1>a, BorrowRightLeaf
  <2>d. /\ ia = Tail(Items(t, a)) /\ ib = TakenFirst(Items(t, v), Items(t, a)) /\ ca = Childs(t, a)
        /\ u = Handing(t, a, v, ia, ca, ib, cb)
        /\ t1 = SetParents(u, <<>>, v) /\ e = Items(t, a)[1]
    OBVIOUS
  <2>c. cb = Childs(t, v) BY <1>f, ConcatNone
  <2> HIDE DEF ia, ib, ca, cb, u, t1, e
  <2>3. Len(Items(t, a)) >= 1 BY <1>f, <1>1, <1>m, <1>5
  <2>4. IsFirstGiven(Entries, Items(t, v), Items(t, a), ib, ia, e)
    BY <2>3, <2>d, <1>f, FirstGiven
  <2>5. /\ ia \in Seq(Entries) /\ ib \in Seq(Entries)
        /\ Len(ia) = Len(Items(t, a)) - 1 /\ Len(ib) = Len(Items(t, v)) + 1
        /\ SameRow(Items(t, v), Items(t, a), ib, ia)
    BY <2>4 DEF IsFirstGiven
  <2>p. a \in Pages /\ v \in Pages /\ a # v /\ p \in Pages \ {a, v} /\ v \in Nat BY <1>2, <1>3, <1>s DEF Pages
  <2>6. ca \in Seq(Pages) /\ cb \in Seq(Pages) BY <2>c, <2>d, <1>f
  <2>7. Handed(t, u, a, v, p, ia, ca, ib, cb) /\ \A x \in Pages : Parent(u, x) = Parent(t, x)
    <3>1. u = Handing(t, a, v, ia, ca, ib, cb) BY <2>d
    <3>2. ia \in Seq(Entries) /\ ib \in Seq(Entries) BY <2>5
    <3>3. t \in Trees BY <1>g
    <3>4. a \in Pages /\ v \in Pages /\ a # v BY <2>p
    <3> QED BY <3>1, <3>2, <3>3, <3>4, <2>6, HandingMade
  <2>9. Handed(t, t1, a, v, p, ia, ca, ib, cb) /\ MovedTo(t, t1, <<>>, v)
    <3> DEFINE none == <<>>
    <3>1. none \in Seq(Pages) /\ t1 = SetParents(u, none, v) BY <2>d
    <3> HIDE DEF none
    <3>3. Handed(t, t1, a, v, p, ia, ca, ib, cb) /\ MovedTo(t, t1, none, v)
      BY <3>1, <2>7, <2>p, <1>g, ParentsMade
    <3> QED BY <3>3 DEF none
  <2>8. Handed(t, t1, v, a, p, ib, cb, ia, ca) BY <2>9, HandedEither
  <2>10. /\ Borrowed(t, t1, N, h, nx, pv, v, a)
         /\ Size(t1, v) = Len(ib) /\ Size(t1, a) = Len(ia)
    <3>1. ca = Childs(t, a) BY <2>d
    <3>2. MovedTo(t, t1, <<>>, v) BY <2>9
    <3>3. ia \in Seq(Entries) /\ ib \in Seq(Entries) /\ SameRow(Items(t, v), Items(t, a), ib, ia) BY <2>5
    <3> QED BY <1>2, <1>9, <3>1, <3>2, <3>3, <2>c, <2>8, LeafLent
  <2>11. Size(t1, a) \in MinItems .. EntryLimit /\ Size(t1, v) \in MinItems .. EntryLimit
    <3>1. Size(t1, a) = Size(t, a) - 1 /\ Size(t1, v) = Size(t, v) + 1 BY <2>10, <2>5, <1>f
    <3> QED BY <3>1, <1>1, <1>5, <1>6, <1>m
  <2>12. Kept(t, UpdateToRoot(t1, v), N, h, nx, pv) BY <2>10, <2>11, <1>3, <1>4, BorrowDone
  <2> QED BY <2>1, <2>12
<1> QED BY <1>8, <1>9

(* Two children in a row are not joined both ways round.                   *)
LEMMA SiblingOrder ==
  ASSUME NEW t, NEW N, NEW h, NEW nx, NEW pv, Shape(t, N, h), Links(t, N, h, nx, pv),
         NEW p \in N, NEW r, NEW v, NEW w, Siblings(t, v, w, p, r)
  PROVE  nx[w] # v
<1>1. /\ r \in Nat /\ 1 <= r /\ r < Kids(t, p) /\ Kids(t, p) \in Nat
      /\ Kid(t, p, r) = v /\ Kid(t, p, r + 1) = w
      /\ v \in N /\ w \in N
      /\ Parent(t, v) = p /\ Parent(t, w) = p
  BY SiblingFacts
<1>2. /\ \A x \in N : \A i \in 1 .. Kids(t, x) : Kid(t, x, i) \in N /\ Parent(t, Kid(t, x, i)) = x
      /\ \A x \in N : \A i, j \in 1 .. Kids(t, x) : Kid(t, x, i) = Kid(t, x, j) => i = j
      /\ 0 \notin Pages /\ N \subseteq Pages
  BY ShapeFacts
<1>3. /\ \A x \in N : \A i \in 1 .. Kids(t, x) - 1 : nx[Kid(t, x, i)] = Kid(t, x, i + 1)
      /\ \A x \in N : Kids(t, x) > 0 =>
           nx[Kid(t, x, Kids(t, x))] = IF nx[x] = 0 THEN 0 ELSE Kid(t, nx[x], 1)
      /\ \A x \in N : nx[x] # 0 => nx[x] \in N /\ (Kids(t, x) > 0 => Kids(t, nx[x]) > 0)
  BY LinkFacts
<1>4. nx[p] # p BY NotOwnNext
<1>5. CASE r + 1 < Kids(t, p)
  <2>1. r + 1 \in 1 .. Kids(t, p) - 1 /\ r + 2 \in 1 .. Kids(t, p) /\ r \in 1 .. Kids(t, p)
        /\ (r + 1) + 1 = r + 2 /\ r + 2 # r
    BY <1>1, <1>5
  <2>2. nx[w] = Kid(t, p, r + 2) BY <2>1, <1>1, <1>3
  <2> QED BY <2>1, <2>2, <1>1, <1>2
<1>6. CASE ~(r + 1 < Kids(t, p))
  <2>1. r + 1 = Kids(t, p) /\ Kids(t, p) > 0 BY <1>1, <1>6
  <2>2. nx[w] = IF nx[p] = 0 THEN 0 ELSE Kid(t, nx[p], 1)
    <3>1. Kid(t, p, Kids(t, p)) = w BY <2>1, <1>1
    <3> QED BY <3>1, <2>1, <1>3
  <2>3. CASE nx[p] = 0 BY <2>2, <2>3, <1>1, <1>2
  <2>4. CASE nx[p] # 0
    <3>1. nx[p] \in N /\ Kids(t, nx[p]) > 0 BY <2>1, <2>4, <1>3
    <3>2. Kids(t, nx[p]) \in Nat BY <3>1, <1>2, ShapeFacts
    <3>3. 1 \in 1 .. Kids(t, nx[p]) BY <3>1, <3>2
    <3>4. Parent(t, nx[w]) = nx[p] BY <2>2, <2>4, <3>1, <3>3, <1>2
    <3> QED BY <3>4, <1>1, <1>4
  <2> QED BY <2>3, <2>4
<1> QED BY <1>5, <1>6

(* removeLeafLink changes two links.                                       *)
Unlinked(t, t2, w) ==
  /\ t2 \in Trees /\ SameHead(t, t2) /\ t2.status = t.status
  /\ \A x \in Pages :
       /\ Items(t2, x) = Items(t, x) /\ Childs(t2, x) = Childs(t, x) /\ Leaf(t2, x) = Leaf(t, x)
       /\ Parent(t2, x) = Parent(t, x) /\ NextFree(t2, x) = NextFree(t, x)
       /\ Right(t2, x) = IF Leaf(t, w) /\ x = Left(t, w) THEN Right(t, w) ELSE Right(t, x)
       /\ Left(t2, x) = IF Leaf(t, w) /\ x = Right(t, w) THEN Left(t, w) ELSE Left(t, x)

(* removeLeafLink takes a leaf out of the row.                             *)
LEMMA RemoveLeafLinkIs ==
  ASSUME NEW t \in Trees, NEW w \in Pages, Leaf(t, w) => Left(t, w) # 0 /\ Left(t, w) # Right(t, w)
  PROVE  Unlinked(t, RemoveLeafLink(t, w), w)
<1> DEFINE n == t.node[w]
           l == Left(t, w)
           r == Right(t, w)
           nodes == [p \in Pages |->
             CASE p = l -> [t.node[p] EXCEPT !.right = r]
               [] p = r -> [t.node[p] EXCEPT !.left = l]
               [] OTHER -> t.node[p]]
           t2 == RemoveLeafLink(t, w)
<1>1. t.node \in [Pages -> TreeNodes] /\ l \in Nat /\ r \in Nat BY DEF Trees, TreeNodes, Left, Right
<1>2. CASE ~Leaf(t, w)
  <2>1. t2 = t BY <1>2 DEF RemoveLeafLink, Leaf
  <2>2. Unlinked(t, t, w) BY <1>2 DEF Unlinked, SameHead
  <2> HIDE DEF t2
  <2> QED BY <2>1, <2>2 DEF t2
<1>3. CASE Leaf(t, w)
  <2>1. l # 0 /\ l # r BY <1>3
  <2>2. t2 = [t EXCEPT !.right = t.right, !.node = nodes]
    BY <1>3, <2>1, Zenon DEF RemoveLeafLink, Leaf, Left, Right, NULL_NODE
  <2> HIDE DEF n, l, r, t2
  <2>3. \A x \in Pages :
          nodes[x] = IF x = l THEN [t.node[x] EXCEPT !.right = r]
                     ELSE IF x = r THEN [t.node[x] EXCEPT !.left = l] ELSE t.node[x]
    BY <2>1
  <2> HIDE DEF nodes
  <2>4. ASSUME NEW x \in Pages
        PROVE  /\ nodes[x] \in TreeNodes
               /\ nodes[x].items = t.node[x].items /\ nodes[x].childs = t.node[x].childs
               /\ nodes[x].leaf = t.node[x].leaf /\ nodes[x].parent = t.node[x].parent
               /\ nodes[x].next_free = t.node[x].next_free
               /\ nodes[x].right = IF x = l THEN r ELSE t.node[x].right
               /\ nodes[x].left = IF x = r THEN l ELSE t.node[x].left
    <3>1. t.node[x] \in TreeNodes BY <1>1
    <3>2. CASE x = l
      <4>1. nodes[x] = [t.node[x] EXCEPT !.right = r] BY <2>3, <3>2
      <4>2. x # r BY <3>2, <2>1
      <4> QED BY <4>1, <4>2, <3>1, <3>2, <1>1 DEF TreeNodes
    <3>3. CASE x # l /\ x = r
      <4>1. nodes[x] = [t.node[x] EXCEPT !.left = l] BY <2>3, <3>3
      <4> QED BY <4>1, <3>1, <3>3, <1>1 DEF TreeNodes
    <3>4. CASE x # l /\ x # r
      <4>1. nodes[x] = t.node[x] BY <2>3, <3>4
      <4> QED BY <4>1, <3>1, <3>4
    <3> QED BY <3>2, <3>3, <3>4
  <2>5. nodes \in [Pages -> TreeNodes]
    <3>1. nodes = [x \in Pages |-> nodes[x]] BY DEF nodes
    <3> QED BY <3>1, <2>4
  <2>6. t2 \in Trees /\ SameHead(t, t2) /\ t2.status = t.status /\ t2.node = nodes
    BY <2>2, <2>5 DEF Trees, SameHead
  <2>7. ASSUME NEW x \in Pages
        PROVE  /\ Items(t2, x) = Items(t, x) /\ Childs(t2, x) = Childs(t, x) /\ Leaf(t2, x) = Leaf(t, x)
               /\ Parent(t2, x) = Parent(t, x) /\ NextFree(t2, x) = NextFree(t, x)
               /\ Right(t2, x) = IF x = l THEN r ELSE Right(t, x)
               /\ Left(t2, x) = IF x = r THEN l ELSE Left(t, x)
    BY <2>4, <2>6 DEF Items, Childs, Leaf, Parent, NextFree, Left, Right
  <2>8. l = Left(t, w) /\ r = Right(t, w) BY DEF l, r
  <2> QED BY <2>6, <2>7, <2>8, <1>3 DEF Unlinked, t2
<1> QED BY <1>2, <1>3

(* The tree when all of w is in v and the page of w is free.               *)
Joining(t, v, w) ==
  LET p == Parent(t, v)
      r == Rank(t, w, p)
  IN  SetParents(Handing(t, p, v, RemoveAt(Items(t, p), r), RemoveAt(Childs(t, p), r),
                         Items(t, v) \o Items(t, w), Childs(t, v) \o Childs(t, w)),
                 Childs(t, w), v)

JoinedAll(t, v, w) == AddLink(RemoveLeafLink(Joining(t, v, w), w), w)

(* What merging does, up to the assertion about the separator.             *)
LEMMA MergeIs ==
  ASSUME NEW t, NEW v, NEW w, NEW p, p = Parent(t, v), NEW u, u = JoinedAll(t, v, w)
  PROVE  Merge(t, v, w)
           = IF LowersParent(u, v)
             THEN [SetItem(u, p, Rank(u, v, p), Items(u, v)[1]) EXCEPT !.status = "aborted"]
             ELSE u
BY Zenon DEF Merge, JoinedAll, Joining, Handing, Items, Childs

WithoutPage(N, w) == N \ {w}

LevelWithout(h, w) == [h EXCEPT ![w] = 0]

IsJoined(S, s1, s2, q) ==
  /\ q \in Seq(S) /\ Len(q) = Len(s1) + Len(s2)
  /\ \A i \in 1 .. Len(s1) + Len(s2) : q[i] = InRow(s1, s2, i)

(* Two sequences joined.                                                   *)
LEMMA JoinedSeq ==
  ASSUME NEW S, NEW s1 \in Seq(S), NEW s2 \in Seq(S), NEW q, q = s1 \o s2
  PROVE  IsJoined(S, s1, s2, q)
<1>1. /\ s1 \o s2 \in Seq(S) /\ Len(s1 \o s2) = Len(s1) + Len(s2)
      /\ \A i \in 1 .. Len(s1) + Len(s2) : (s1 \o s2)[i] = IF i <= Len(s1) THEN s1[i] ELSE s2[i - Len(s1)]
  BY ConcatProperties
<1> QED BY <1>1 DEF IsJoined, InRow

(* What t2 has in common with t and what has been moved, when w's items    *)
(* and children are v's and p has lost the item and the child behind r.    *)
Gathered(t, t2, v, w, p, r) ==
  /\ t2 \in Trees /\ t2.status = t.status
  /\ t2.root = t.root /\ t2.right = t.right /\ t2.pageNum = t.pageNum /\ t2.entryNum = t.entryNum
  /\ Kids(t2, v) = Kids(t, v) + Kids(t, w)
  /\ \A i \in 1 .. Kids(t, v) + Kids(t, w) : Kid(t2, v, i) = Both(t, v, w, i)
  /\ Kids(t2, p) = Kids(t, p) - 1 /\ Size(t2, p) = Size(t, p) - 1
  /\ \A i \in 1 .. r : Kid(t2, p, i) = Kid(t, p, i)
  /\ \A i \in r + 1 .. Kids(t, p) - 1 : Kid(t2, p, i) = Kid(t, p, i + 1)
  /\ \A x \in Pages \ {v, w, p} : Childs(t2, x) = Childs(t, x) /\ Items(t2, x) = Items(t, x)
  /\ \A i \in 1 .. Kids(t, v) + Kids(t, w) : Parent(t2, Both(t, v, w, i)) = v
  /\ \A x \in Pages \ {w} : Parent(t, x) # w => Parent(t2, x) = Parent(t, x)
  /\ Size(t2, v) = Size(t, v) + Size(t, w)
  /\ \A i \in 1 .. Size(t, v) + Size(t, w) :
       Item(t2, v, i) = IF i <= Size(t, v) THEN Item(t, v, i) ELSE Item(t, w, i - Size(t, v))
  /\ \A x \in Pages \ {w} : Leaf(t2, x) = Leaf(t, x)

(* Items and children of w are in v.                                       *)
LEMMA JoiningIs ==
  ASSUME NEW t, NEW N, NEW h, NEW nx, NEW pv, Good(t, N, h, nx, pv),
         NEW p \in N, NEW r, NEW v, NEW w, Siblings(t, v, w, p, r)
  PROVE  /\ Gathered(t, Joining(t, v, w), v, w, p, r)
         /\ Joining(t, v, w).nextFree = t.nextFree
         /\ \A x \in Pages : /\ Leaf(Joining(t, v, w), x) = Leaf(t, x)
                             /\ Left(Joining(t, v, w), x) = Left(t, x)
                             /\ Right(Joining(t, v, w), x) = Right(t, x)
                             /\ NextFree(Joining(t, v, w), x) = NextFree(t, x)
<1>g. t \in Trees /\ Shape(t, N, h) /\ Links(t, N, h, nx, pv) /\ Matched(t, N) BY DEF Good
<1>s. /\ N \subseteq Pages /\ 0 \notin Pages /\ \A x \in Pages : Kids(t, x) \in Nat
      /\ \A x \in N : \A j \in 1 .. Kids(t, x) : Kid(t, x, j) \in N /\ Parent(t, Kid(t, x, j)) = x
  BY <1>g, ShapeFacts
<1>b. /\ r \in Nat /\ 1 <= r /\ r < Kids(t, p) /\ Kids(t, p) \in Nat
      /\ Kid(t, p, r) = v /\ Kid(t, p, r + 1) = w
      /\ v \in N /\ w \in N /\ v # w /\ p # v /\ p # w
      /\ Parent(t, v) = p /\ Parent(t, w) = p
      /\ Kids(t, v) \in Nat /\ Kids(t, w) \in Nat
  BY <1>g, SiblingFacts
<1>p. p \in Pages /\ v \in Pages /\ w \in Pages BY <1>b, <1>s
<1>r. Rank(t, w, p) = r + 1
  <2>1. r + 1 \in 1 .. Kids(t, p) /\ w = Kid(t, p, r + 1) BY <1>b
  <2> QED BY <2>1, <1>g, RankOf
<1>k. Size(t, p) = Kids(t, p)
  <2>1. Kids(t, p) # 0 BY <1>b
  <2> QED BY <2>1, <1>g DEF Matched
<1> DEFINE ip == RemoveAt(Items(t, p), r + 1)
           cp == RemoveAt(Childs(t, p), r + 1)
           iv == Items(t, v) \o Items(t, w)
           cv == Childs(t, v) \o Childs(t, w)
           cw == Childs(t, w)
           u  == Handing(t, p, v, ip, cp, iv, cv)
           t2 == Joining(t, v, w)
<1>t. t2 = SetParents(u, cw, v)
  <2>1. Parent(t, v) = p BY <1>b
  <2> QED BY <2>1, <1>r DEF Joining
<1>d. /\ ip = RemoveAt(Items(t, p), r + 1) /\ cp = RemoveAt(Childs(t, p), r + 1)
      /\ iv = Items(t, v) \o Items(t, w) /\ cv = Childs(t, v) \o Childs(t, w) /\ cw = Childs(t, w)
  OBVIOUS
<1> HIDE DEF ip, cp, iv, cv, cw
<1>u. u = Handing(t, p, v, ip, cp, iv, cv) OBVIOUS
<1> HIDE DEF u, t2
<1>f. /\ Items(t, p) \in Seq(Entries) /\ Items(t, v) \in Seq(Entries) /\ Items(t, w) \in Seq(Entries)
      /\ Childs(t, p) \in Seq(Pages) /\ Childs(t, v) \in Seq(Pages) /\ Childs(t, w) \in Seq(Pages)
  BY <1>g, <1>p, SeqFields
<1>1. ip \in Seq(Entries) /\ Len(ip) = Size(t, p) - 1
  <2>1. r + 1 \in 1 .. Len(Items(t, p)) BY <1>b, <1>k DEF Size
  <2> QED BY <2>1, <1>d, <1>f, RemoveAtIs DEF Size
<1>2. /\ cp \in Seq(Pages) /\ Len(cp) = Kids(t, p) - 1
      /\ \A i \in 1 .. Kids(t, p) - 1 : cp[i] = IF i < r + 1 THEN Kid(t, p, i) ELSE Kid(t, p, i + 1)
  <2>1. r + 1 \in 1 .. Len(Childs(t, p)) BY <1>b DEF Kids
  <2> QED BY <2>1, <1>d, <1>f, RemoveAtIs DEF Kids, Kid
<1>3. /\ iv \in Seq(Entries) /\ Len(iv) = Size(t, v) + Size(t, w)
      /\ \A i \in 1 .. Size(t, v) + Size(t, w) :
           iv[i] = IF i <= Size(t, v) THEN Item(t, v, i) ELSE Item(t, w, i - Size(t, v))
  <2>1. IsJoined(Entries, Items(t, v), Items(t, w), iv) BY <1>d, <1>f, JoinedSeq
  <2> QED BY <2>1 DEF IsJoined, InRow, Size, Item
<1>4. /\ cv \in Seq(Pages) /\ Len(cv) = Kids(t, v) + Kids(t, w)
      /\ \A i \in 1 .. Kids(t, v) + Kids(t, w) : cv[i] = Both(t, v, w, i)
  <2>1. IsJoined(Pages, Childs(t, v), Childs(t, w), cv) BY <1>d, <1>f, JoinedSeq
  <2> QED BY <2>1 DEF IsJoined, InRow, Kids, Kid, Both
<1>5. /\ Handed(t, u, p, v, p, ip, cp, iv, cv) /\ \A x \in Pages : Parent(u, x) = Parent(t, x)
  <2>1. ip \in Seq(Entries) /\ iv \in Seq(Entries) /\ cp \in Seq(Pages) /\ cv \in Seq(Pages)
    BY <1>1, <1>2, <1>3, <1>4
  <2>2. t \in Trees /\ p \in Pages /\ v \in Pages /\ p # v BY <1>g, <1>p, <1>b
  <2> QED BY <2>1, <2>2, <1>u, HandingMade
<1>6. Handed(t, t2, p, v, p, ip, cp, iv, cv) /\ MovedTo(t, t2, cw, v)
  <2>1. cw \in Seq(Pages) /\ v \in Nat BY <1>d, <1>f, <1>p DEF Pages
  <2>2. t \in Trees /\ p \in Pages /\ v \in Pages BY <1>g, <1>p
  <2> QED BY <2>1, <2>2, <1>5, <1>t, ParentsMade
<1>7. /\ t2 \in Trees /\ SameHead(t, t2) /\ t2.status = t.status
      /\ Items(t2, p) = ip /\ Childs(t2, p) = cp /\ Items(t2, v) = iv /\ Childs(t2, v) = cv
      /\ \A x \in Pages \ {p, v} : Childs(t2, x) = Childs(t, x) /\ Items(t2, x) = Items(t, x)
      /\ \A x \in Pages : /\ Leaf(t2, x) = Leaf(t, x) /\ Left(t2, x) = Left(t, x)
                          /\ Right(t2, x) = Right(t, x) /\ NextFree(t2, x) = NextFree(t, x)
  BY <1>6 DEF Handed
<1>8. /\ \A i \in 1 .. Kids(t, w) : Parent(t2, Kid(t, w, i)) = v
      /\ \A x \in Pages : (\A i \in 1 .. Kids(t, w) : Kid(t, w, i) # x) => Parent(t2, x) = Parent(t, x)
  BY <1>6, <1>d DEF MovedTo, Kids, Kid
<1>9. \A x \in Pages : Parent(t, x) # w => Parent(t2, x) = Parent(t, x) BY <1>8, <1>s, <1>b
<1>10. \A i \in 1 .. Kids(t, v) + Kids(t, w) : Parent(t2, Both(t, v, w, i)) = v
  <2>1. SUFFICES ASSUME NEW i \in 1 .. Kids(t, v) + Kids(t, w) PROVE Parent(t2, Both(t, v, w, i)) = v OBVIOUS
  <2>2. CASE i <= Kids(t, v)
    <3>1. i \in 1 .. Kids(t, v) /\ Both(t, v, w, i) = Kid(t, v, i) BY <2>2, <1>b DEF Both
    <3>2. Kid(t, v, i) \in Pages /\ Parent(t, Kid(t, v, i)) = v BY <3>1, <1>b, <1>s
    <3> QED BY <3>1, <3>2, <1>b, <1>9
  <2>3. CASE ~(i <= Kids(t, v))
    <3>1. i - Kids(t, v) \in 1 .. Kids(t, w) /\ Both(t, v, w, i) = Kid(t, w, i - Kids(t, v))
      BY <2>3, <1>b DEF Both
    <3> QED BY <3>1, <1>8
  <2> QED BY <2>2, <2>3
<1>11. /\ Kids(t2, v) = Len(cv) /\ Kids(t2, p) = Len(cp) /\ Size(t2, v) = Len(iv) /\ Size(t2, p) = Len(ip)
       /\ \A i : Kid(t2, v, i) = cv[i] /\ Kid(t2, p, i) = cp[i] /\ Item(t2, v, i) = iv[i]
  BY <1>7 DEF Kids, Size, Kid, Item
<1>12. /\ \A i \in 1 .. r : Kid(t2, p, i) = Kid(t, p, i)
       /\ \A i \in r + 1 .. Kids(t, p) - 1 : Kid(t2, p, i) = Kid(t, p, i + 1)
  <2>1. \A i \in 1 .. r : i \in 1 .. Kids(t, p) - 1 /\ i < r + 1 BY <1>b
  <2>2. \A i \in r + 1 .. Kids(t, p) - 1 : i \in 1 .. Kids(t, p) - 1 /\ ~(i < r + 1) BY <1>b
  <2> QED BY <2>1, <2>2, <1>2, <1>11
<1>13. t2.root = t.root /\ t2.right = t.right /\ t2.nextFree = t.nextFree /\ t2.pageNum = t.pageNum
       /\ t2.entryNum = t.entryNum
  BY <1>7 DEF SameHead
<1>14. Gathered(t, t2, v, w, p, r)
  <2>1. /\ Kids(t2, v) = Kids(t, v) + Kids(t, w) /\ Kids(t2, p) = Kids(t, p) - 1
        /\ Size(t2, v) = Size(t, v) + Size(t, w) /\ Size(t2, p) = Size(t, p) - 1
    BY <1>1, <1>2, <1>3, <1>4, <1>11
  <2>2. /\ \A i \in 1 .. Kids(t, v) + Kids(t, w) : Kid(t2, v, i) = Both(t, v, w, i)
        /\ \A i \in 1 .. Size(t, v) + Size(t, w) :
             Item(t2, v, i) = IF i <= Size(t, v) THEN Item(t, v, i) ELSE Item(t, w, i - Size(t, v))
    BY <1>3, <1>4, <1>11
  <2>3. \A x \in Pages \ {v, w, p} : Childs(t2, x) = Childs(t, x) /\ Items(t2, x) = Items(t, x)
    BY <1>7
  <2> QED BY <2>1, <2>2, <2>3, <1>7, <1>9, <1>10, <1>12, <1>13 DEF Gathered
<1> QED BY <1>7, <1>13, <1>14 DEF t2

(* t2 is the tree after the merge of v and w, t3 the one before the page   *)
(* of w is freed and t1 the one with w still among the linked leaves.      *)
JoinedAs(t, t2, N, v, w, p, r) ==
  /\ Gathered(t, t2, v, w, p, r)
  /\ FreeList(t2, WithoutPage(N, w))
  /\ t2.node[w] = [EmptyNode EXCEPT !.next_free = NextFree(t2, w)]
  /\ \A x \in Pages : NextFree(t2, x) <= t2.pageNum
  /\ \A x \in Pages \ {w} :
       /\ Right(t2, x) = IF Leaf(t, w) /\ x = Left(t, w) THEN Right(t, w) ELSE Right(t, x)
       /\ Left(t2, x) = IF Leaf(t, w) /\ x = Right(t, w) THEN Left(t, w) ELSE Left(t, x)

(* u is t with the page p on the free list.                                *)
Freed(t, u, N, p) ==
  /\ u \in Trees
  /\ FreeList(u, N \ {p})
  /\ u.pageNum = t.pageNum
  /\ u.root = t.root /\ u.right = t.right
  /\ u.entryNum = t.entryNum /\ u.status = t.status
  /\ u.node[p] = [EmptyNode EXCEPT !.next_free = NextFree(u, p)]
  /\ \A x \in Pages \ {p} : u.node[x] = [t.node[x] EXCEPT !.next_free = NextFree(u, x)]
  /\ \A x \in Pages : NextFree(t, x) <= t.pageNum => NextFree(u, x) <= t.pageNum

(* The page given back is free.                                            *)
LEMMA AddLinkFrees ==
  ASSUME NEW t \in Trees, NEW N, FreeList(t, N), NEW p \in N
  PROVE  Freed(t, AddLink(t, p), N, p)
BY AddLinkIs DEF Freed

(* A node with the same fields is the same.                                *)
LEMMA SameFields ==
  ASSUME NEW t, NEW t2, NEW x, t2.node[x] = [t.node[x] EXCEPT !.next_free = NextFree(t2, x)],
         t.node[x] \in TreeNodes, NextFree(t2, x) \in Nat
  PROVE  /\ Items(t2, x) = Items(t, x) /\ Childs(t2, x) = Childs(t, x) /\ Leaf(t2, x) = Leaf(t, x)
         /\ Parent(t2, x) = Parent(t, x) /\ Left(t2, x) = Left(t, x) /\ Right(t2, x) = Right(t, x)
BY DEF Items, Childs, Leaf, Parent, Left, Right, TreeNodes

(* What the whole merge changes.                                           *)
LEMMA JoinedAllIs ==
  ASSUME NEW t, NEW N, NEW h, NEW nx, NEW pv, Good(t, N, h, nx, pv),
         NEW p \in N, NEW r, NEW v, NEW w, Siblings(t, v, w, p, r)
  PROVE  JoinedAs(t, JoinedAll(t, v, w), N, v, w, p, r)
<1>g. /\ t \in Trees /\ Shape(t, N, h) /\ Links(t, N, h, nx, pv) /\ Matched(t, N)
      /\ LeafLinks(t, N, nx, pv) /\ FreeList(t, N) /\ Blank(t, N)
  BY DEF Good
<1>s. N \subseteq Pages /\ 0 \notin Pages BY <1>g, ShapeFacts
<1>b. v \in N /\ w \in N /\ nx[v] = w /\ pv[w] = v BY <1>g, SiblingFacts
<1>w. w \in Pages /\ v \in Pages BY <1>b, <1>s
<1> DEFINE t1 == Joining(t, v, w)
           t3 == RemoveLeafLink(t1, w)
           t2 == JoinedAll(t, v, w)
<1>t. t2 = AddLink(t3, w) BY DEF JoinedAll
<1>1. /\ Gathered(t, t1, v, w, p, r)
      /\ t1.nextFree = t.nextFree
      /\ \A x \in Pages : /\ Leaf(t1, x) = Leaf(t, x) /\ Left(t1, x) = Left(t, x)
                          /\ Right(t1, x) = Right(t, x) /\ NextFree(t1, x) = NextFree(t, x)
  BY JoiningIs
<1> HIDE DEF t1, t2
<1>2. t1 \in Trees BY <1>1 DEF Gathered
<1>3. Leaf(t1, w) => Left(t1, w) # 0 /\ Left(t1, w) # Right(t1, w)
  <2>1. SUFFICES ASSUME Leaf(t, w) PROVE Left(t, w) # 0 /\ Left(t, w) # Right(t, w) BY <1>1, <1>w
  <2>2. Kids(t, w) = 0 BY <2>1, <1>b, <1>g DEF Matched
  <2>3. Right(t, w) = nx[w] /\ Left(t, w) = pv[w] BY <2>2, <1>b, <1>g DEF LeafLinks
  <2>4. nx[w] # v BY <1>g, SiblingOrder
  <2> QED BY <2>3, <2>4, <1>b, <1>s
<1>4. Unlinked(t1, t3, w) BY <1>2, <1>3, <1>w, RemoveLeafLinkIs
<1> HIDE DEF t3
<1>5. /\ t3 \in Trees /\ SameHead(t1, t3) /\ t3.status = t1.status
      /\ \A x \in Pages :
           /\ Items(t3, x) = Items(t1, x) /\ Childs(t3, x) = Childs(t1, x) /\ Leaf(t3, x) = Leaf(t1, x)
           /\ Parent(t3, x) = Parent(t1, x) /\ NextFree(t3, x) = NextFree(t1, x)
           /\ Right(t3, x) = IF Leaf(t1, w) /\ x = Left(t1, w) THEN Right(t1, w) ELSE Right(t1, x)
           /\ Left(t3, x) = IF Leaf(t1, w) /\ x = Right(t1, w) THEN Left(t1, w) ELSE Left(t1, x)
  BY <1>4 DEF Unlinked
<1>h. /\ t3.root = t1.root /\ t3.right = t1.right /\ t3.nextFree = t1.nextFree
      /\ t3.pageNum = t1.pageNum /\ t3.entryNum = t1.entryNum
  BY <1>5 DEF SameHead
<1>i. /\ t1.status = t.status /\ t1.root = t.root /\ t1.right = t.right /\ t1.pageNum = t.pageNum
      /\ t1.entryNum = t.entryNum
  BY <1>1 DEF Gathered
<1>6. FreeList(t3, N)
  <2>1. \A x \in Pages \ N : NextFree(t3, x) = NextFree(t, x) BY <1>1, <1>5
  <2> QED BY <2>1, <1>1, <1>h, <1>i, <1>g, FreeListKept
<1>7. Freed(t3, t2, N, w)
  <2>1. t3 \in Trees BY <1>5
  <2> QED BY <2>1, <1>6, <1>b, <1>t, AddLinkFrees
<1>8. /\ t2 \in Trees
      /\ FreeList(t2, N \ {w})
      /\ t2.pageNum = t3.pageNum
      /\ t2.root = t3.root /\ t2.right = t3.right
      /\ t2.entryNum = t3.entryNum /\ t2.status = t3.status
      /\ t2.node[w] = [EmptyNode EXCEPT !.next_free = NextFree(t2, w)]
      /\ \A x \in Pages \ {w} : t2.node[x] = [t3.node[x] EXCEPT !.next_free = NextFree(t2, x)]
      /\ \A x \in Pages : NextFree(t3, x) <= t3.pageNum => NextFree(t2, x) <= t3.pageNum
  BY <1>7 DEF Freed
<1>9. \A x \in Pages \ {w} :
        /\ Items(t2, x) = Items(t3, x) /\ Childs(t2, x) = Childs(t3, x) /\ Leaf(t2, x) = Leaf(t3, x)
        /\ Parent(t2, x) = Parent(t3, x) /\ Left(t2, x) = Left(t3, x) /\ Right(t2, x) = Right(t3, x)
  <2>1. SUFFICES ASSUME NEW x \in Pages \ {w}
                 PROVE  /\ Items(t2, x) = Items(t3, x) /\ Childs(t2, x) = Childs(t3, x)
                        /\ Leaf(t2, x) = Leaf(t3, x) /\ Parent(t2, x) = Parent(t3, x)
                        /\ Left(t2, x) = Left(t3, x) /\ Right(t2, x) = Right(t3, x)
    OBVIOUS
  <2>2. t3.node[x] \in TreeNodes BY <1>5 DEF Trees
  <2>3. NextFree(t2, x) \in Nat
    <3>1. t2.node[x] \in TreeNodes BY <1>8 DEF Trees
    <3> QED BY <3>1 DEF NextFree, TreeNodes
  <2>4. t2.node[x] = [t3.node[x] EXCEPT !.next_free = NextFree(t2, x)] BY <1>8
  <2> QED BY <2>2, <2>3, <2>4, SameFields
<1>10. \A x \in Pages : NextFree(t2, x) <= t2.pageNum
  <2>1. \A x \in Pages : NextFree(t3, x) <= t3.pageNum
    <3>1. \A x \in Pages : NextFree(t, x) <= t.pageNum BY <1>g DEF Blank
    <3> QED BY <3>1, <1>1, <1>5, <1>h, <1>i
  <2> QED BY <2>1, <1>8
<1>11. \A x \in Pages \ {w} :
        /\ Items(t2, x) = Items(t1, x) /\ Childs(t2, x) = Childs(t1, x) /\ Leaf(t2, x) = Leaf(t, x)
        /\ Parent(t2, x) = Parent(t1, x)
        /\ Right(t2, x) = IF Leaf(t, w) /\ x = Left(t, w) THEN Right(t, w) ELSE Right(t, x)
        /\ Left(t2, x) = IF Leaf(t, w) /\ x = Right(t, w) THEN Left(t, w) ELSE Left(t, x)
  BY <1>1, <1>5, <1>9, <1>w
<1>12. \A x \in Pages \ {w} :
        /\ Kids(t2, x) = Kids(t1, x) /\ Size(t2, x) = Size(t1, x)
        /\ \A i : Kid(t2, x, i) = Kid(t1, x, i) /\ Item(t2, x, i) = Item(t1, x, i)
  BY <1>11 DEF Kids, Size, Kid, Item
<1>13. p \in Pages \ {w} /\ v \in Pages \ {w}
  <2>1. p # w /\ v # w BY <1>g, SiblingFacts
  <2> QED BY <2>1, <1>s, <1>w
<1>14. \A i \in 1 .. Kids(t, v) + Kids(t, w) : Both(t, v, w, i) \in Pages \ {w}
  <2>1. SUFFICES ASSUME NEW i \in 1 .. Kids(t, v) + Kids(t, w) PROVE Both(t, v, w, i) \in Pages \ {w} OBVIOUS
  <2>2. Both(t, v, w, i) \in N /\ h[v] = h[Both(t, v, w, i)] + 1 /\ h[v] = h[w] /\ h[v] \in Nat
    BY <1>g, SiblingFacts
  <2>3. h[Both(t, v, w, i)] \in Nat
    <3>1. h \in [Pages -> Nat] BY <1>g, ShapeFacts
    <3> QED BY <3>1, <2>2, <1>s
  <2> QED BY <2>2, <2>3, <1>s
<1>15. Gathered(t, t2, v, w, p, r)
  <2>1. /\ Kids(t1, v) = Kids(t, v) + Kids(t, w)
        /\ \A i \in 1 .. Kids(t, v) + Kids(t, w) : Kid(t1, v, i) = Both(t, v, w, i)
        /\ Kids(t1, p) = Kids(t, p) - 1 /\ Size(t1, p) = Size(t, p) - 1
        /\ \A i \in 1 .. r : Kid(t1, p, i) = Kid(t, p, i)
        /\ \A i \in r + 1 .. Kids(t, p) - 1 : Kid(t1, p, i) = Kid(t, p, i + 1)
        /\ \A x \in Pages \ {v, w, p} : Childs(t1, x) = Childs(t, x) /\ Items(t1, x) = Items(t, x)
        /\ \A i \in 1 .. Kids(t, v) + Kids(t, w) : Parent(t1, Both(t, v, w, i)) = v
        /\ \A x \in Pages \ {w} : Parent(t, x) # w => Parent(t1, x) = Parent(t, x)
        /\ Size(t1, v) = Size(t, v) + Size(t, w)
        /\ \A i \in 1 .. Size(t, v) + Size(t, w) :
             Item(t1, v, i) = IF i <= Size(t, v) THEN Item(t, v, i) ELSE Item(t, w, i - Size(t, v))
    BY <1>1 DEF Gathered
  <2>2. /\ Kids(t2, v) = Kids(t, v) + Kids(t, w)
        /\ \A i \in 1 .. Kids(t, v) + Kids(t, w) : Kid(t2, v, i) = Both(t, v, w, i)
        /\ Kids(t2, p) = Kids(t, p) - 1 /\ Size(t2, p) = Size(t, p) - 1
        /\ \A i \in 1 .. r : Kid(t2, p, i) = Kid(t, p, i)
        /\ \A i \in r + 1 .. Kids(t, p) - 1 : Kid(t2, p, i) = Kid(t, p, i + 1)
        /\ Size(t2, v) = Size(t, v) + Size(t, w)
        /\ \A i \in 1 .. Size(t, v) + Size(t, w) :
             Item(t2, v, i) = IF i <= Size(t, v) THEN Item(t, v, i) ELSE Item(t, w, i - Size(t, v))
    BY <2>1, <1>12, <1>13
  <2>3. /\ \A i \in 1 .. Kids(t, v) + Kids(t, w) : Parent(t2, Both(t, v, w, i)) = v
        /\ \A x \in Pages \ {w} : Parent(t, x) # w => Parent(t2, x) = Parent(t, x)
    BY <2>1, <1>11, <1>14
  <2>4. /\ \A x \in Pages \ {v, w, p} : Childs(t2, x) = Childs(t, x) /\ Items(t2, x) = Items(t, x)
        /\ \A x \in Pages \ {w} : Leaf(t2, x) = Leaf(t, x)
    BY <2>1, <1>11
  <2>5. /\ t2 \in Trees /\ t2.status = t.status
        /\ t2.root = t.root /\ t2.right = t.right /\ t2.pageNum = t.pageNum /\ t2.entryNum = t.entryNum
    BY <1>5, <1>8, <1>h, <1>i
  <2> QED BY <2>2, <2>3, <2>4, <2>5 DEF Gathered
<1>16. FreeList(t2, WithoutPage(N, w)) BY <1>8 DEF WithoutPage
<1>17. JoinedAs(t, t2, N, v, w, p, r) BY <1>8, <1>10, <1>11, <1>15, <1>16 DEF JoinedAs
<1> QED BY <1>17 DEF t2

(* The pages that are no nodes stay empty.                                 *)
LEMMA JoinedBlank ==
  ASSUME NEW t, NEW t2, NEW N, NEW v, NEW w \in Pages, NEW p, NEW r, t2 \in Trees,
         JoinedAs(t, t2, N, v, w, p, r)
  PROVE  ~Leaf(t2, w) /\ Kids(t2, w) = 0 /\ Size(t2, w) = 0 /\ Parent(t2, w) = 0
         /\ Left(t2, w) = 0 /\ Right(t2, w) = 0
<1>1. t2.node[w] = [EmptyNode EXCEPT !.next_free = NextFree(t2, w)] BY DEF JoinedAs
<1> QED BY <1>1, EmptyNodeIs

(* After a merge w is no node, and its children and links are v's.         *)
LEMMA JoinedGood ==
  ASSUME NEW t, NEW t2, NEW N, NEW h, NEW nx, NEW pv, Good(t, N, h, nx, pv),
         NEW p \in N, NEW r, NEW v, NEW w, Siblings(t, v, w, p, r),
         JoinedAs(t, t2, N, v, w, p, r)
  PROVE  Good(t2, WithoutPage(N, w), LevelWithout(h, w), NextWithout(nx, v, w), PrevWithout(nx, pv, v, w))
<1> DEFINE N2 == WithoutPage(N, w)
<1>g. /\ t \in Trees /\ Shape(t, N, h) /\ Links(t, N, h, nx, pv) /\ Matched(t, N)
      /\ LeafLinks(t, N, nx, pv) /\ FreeList(t, N) /\ Blank(t, N)
  BY DEF Good
<1>s. N \subseteq Pages /\ 0 \notin Pages BY <1>g, ShapeFacts
<1>b. /\ v \in N /\ w \in N /\ nx[v] = w /\ pv[w] = v /\ v # w /\ p # v /\ p # w
      /\ Kids(t, v) \in Nat /\ Kids(t, w) \in Nat /\ r \in Nat /\ r < Kids(t, p) /\ 1 <= r
      /\ (Kids(t, v) = 0 <=> Kids(t, w) = 0) /\ Kids(t, p) \in Nat
  BY <1>g, SiblingFacts
<1>o. nx[w] # v BY <1>g, SiblingOrder
<1>w. w \in Pages /\ v \in Pages /\ p \in Pages BY <1>b, <1>s
<1>k. /\ t2 \in Trees /\ t2.root = t.root /\ t2.right = t.right
      /\ Kids(t2, v) = Kids(t, v) + Kids(t, w)
      /\ \A i \in 1 .. Kids(t, v) + Kids(t, w) : Kid(t2, v, i) = Both(t, v, w, i)
      /\ Kids(t2, p) = Kids(t, p) - 1 /\ Size(t2, p) = Size(t, p) - 1
      /\ \A i \in 1 .. r : Kid(t2, p, i) = Kid(t, p, i)
      /\ \A i \in r + 1 .. Kids(t, p) - 1 : Kid(t2, p, i) = Kid(t, p, i + 1)
      /\ \A x \in Pages \ {v, w, p} : Childs(t2, x) = Childs(t, x) /\ Items(t2, x) = Items(t, x)
      /\ \A i \in 1 .. Kids(t, v) + Kids(t, w) : Parent(t2, Both(t, v, w, i)) = v
      /\ \A x \in Pages \ {w} : Parent(t, x) # w => Parent(t2, x) = Parent(t, x)
      /\ Size(t2, v) = Size(t, v) + Size(t, w)
      /\ \A x \in Pages \ {w} : Leaf(t2, x) = Leaf(t, x)
  BY DEF JoinedAs, Gathered
<1>n. ~Leaf(t2, w) /\ Kids(t2, w) = 0 /\ Size(t2, w) = 0
  BY <1>k, <1>w, JoinedBlank
<1>l. /\ \A x \in Pages : NextFree(t2, x) <= t2.pageNum
      /\ FreeList(t2, N2)
      /\ t2.node[w] = [EmptyNode EXCEPT !.next_free = NextFree(t2, w)]
      /\ \A x \in Pages \ {w} :
           /\ Right(t2, x) = IF Leaf(t, w) /\ x = Left(t, w) THEN Right(t, w) ELSE Right(t, x)
           /\ Left(t2, x) = IF Leaf(t, w) /\ x = Right(t, w) THEN Left(t, w) ELSE Left(t, x)
  BY DEF JoinedAs
<1>m. \A x \in N : /\ Leaf(t, x) <=> Kids(t, x) = 0
                   /\ ~Leaf(t, x) => Size(t, x) = Kids(t, x) /\ Left(t, x) = 0 /\ Right(t, x) = 0
  BY <1>g DEF Matched
<1>x. \A x \in Pages \ {v, w, p} : Kids(t2, x) = Kids(t, x) /\ Size(t2, x) = Size(t, x)
        /\ \A i : Kid(t2, x, i) = Kid(t, x, i)
  BY <1>k DEF Kids, Kid, Size
<1>1. Joined(t, t2, v, w, p, r) BY <1>k, <1>n, <1>x DEF Joined
<1>2. /\ Shape(t2, N \ {w}, [h EXCEPT ![w] = 0])
      /\ Links(t2, N \ {w}, [h EXCEPT ![w] = 0], NextWithout(nx, v, w), PrevWithout(nx, pv, v, w))
  BY <1>g, <1>1, JoinedTree
<1>3. /\ Shape(t2, N2, LevelWithout(h, w))
      /\ Links(t2, N2, LevelWithout(h, w), NextWithout(nx, v, w), PrevWithout(nx, pv, v, w))
  BY <1>2 DEF WithoutPage, LevelWithout
<1>d. /\ N2 \subseteq Pages /\ \A x : x \in N2 <=> x \in N /\ x # w
  BY <1>s DEF WithoutPage
<1> HIDE DEF N2
(* The parent keeps a child. *)
<1>q. ~Leaf(t, p) /\ Kids(t2, p) > 0 /\ Kids(t, p) > 0
  BY <1>b, <1>k, <1>m
<1>z. \A x \in N2 : Kids(t2, x) = 0 <=> Kids(t, x) = 0
  <2>1. SUFFICES ASSUME NEW x \in N2 PROVE Kids(t2, x) = 0 <=> Kids(t, x) = 0 OBVIOUS
  <2>2. CASE x = v BY <2>2, <1>b, <1>k
  <2>3. CASE x = p BY <2>3, <1>q
  <2>4. CASE x \notin {v, p} BY <2>4, <1>d, <1>x
  <2> QED BY <2>2, <2>3, <2>4
<1>4. LeafLinks(t2, N2, NextWithout(nx, v, w), PrevWithout(nx, pv, v, w))
  <2>1. SUFFICES ASSUME NEW x \in N2, Kids(t2, x) = 0
                 PROVE  /\ Right(t2, x) = NextWithout(nx, v, w)[x]
                        /\ Left(t2, x) = PrevWithout(nx, pv, v, w)[x]
                        /\ PrevWithout(nx, pv, v, w)[x] = 0 => t2.right = x
    BY DEF LeafLinks
  <2>2. x \in N /\ x # w /\ x \in Pages /\ Kids(t, x) = 0 BY <2>1, <1>d, <1>z
  <2>3. /\ NextWithout(nx, v, w)[x] = IF x = v THEN nx[w] ELSE nx[x]
        /\ PrevWithout(nx, pv, v, w)[x] = IF x = nx[w] THEN v ELSE pv[x]
    BY <2>2 DEF NextWithout, PrevWithout
  <2>4. Right(t, x) = nx[x] /\ Left(t, x) = pv[x] /\ (pv[x] = 0 => t.right = x)
    BY <2>2, <1>g DEF LeafLinks
  <2>5. Leaf(t, w) => Right(t, w) = nx[w] /\ Left(t, w) = v
    BY <1>m, <1>b, <1>g DEF LeafLinks
  <2>6. /\ nx[w] # 0 => nx[w] \in N /\ pv[nx[w]] = w /\ (Kids(t, w) > 0 => Kids(t, nx[w]) > 0)
    BY <1>g, <1>b, LinkFacts
  <2>7. ~Leaf(t, w) => x # v /\ x # nx[w]
    <3>1. ASSUME ~Leaf(t, w) PROVE x # v /\ x # nx[w]
      <4>1. Kids(t, w) # 0 BY <3>1, <1>m, <1>b
      <4>2. x # v BY <4>1, <2>2, <1>b
      <4>3. x # nx[w] BY <4>1, <2>2, <2>6, <1>s, <1>b
      <4> QED BY <4>2, <4>3
    <3> QED BY <3>1
  <2>8. Right(t2, x) = NextWithout(nx, v, w)[x]
    BY <1>l, <2>2, <2>3, <2>4, <2>5, <2>7
  <2>9. Left(t2, x) = PrevWithout(nx, pv, v, w)[x]
    BY <1>l, <2>2, <2>3, <2>4, <2>5, <2>7
  <2>10. PrevWithout(nx, pv, v, w)[x] = 0 => t2.right = x
    <3>1. v # 0 BY <1>w, <1>s
    <3>2. t2.right = t.right BY <1>k
    <3> QED BY <3>1, <3>2, <2>3, <2>4
  <2> QED BY <2>8, <2>9, <2>10
<1>5. Matched(t2, N2)
  <2>1. SUFFICES ASSUME NEW x \in N2
                 PROVE  /\ Leaf(t2, x) <=> Kids(t2, x) = 0
                        /\ ~Leaf(t2, x) => Size(t2, x) = Kids(t2, x) /\ Left(t2, x) = 0 /\ Right(t2, x) = 0
    BY DEF Matched
  <2>2. x \in N /\ x # w /\ x \in Pages BY <1>d
  <2>3. Leaf(t2, x) = Leaf(t, x) BY <2>2, <1>k
  <2>4. Leaf(t2, x) <=> Kids(t2, x) = 0 BY <2>2, <2>3, <1>m, <1>z
  <2>5. ASSUME ~Leaf(t2, x) PROVE Size(t2, x) = Kids(t2, x)
    <3>1. ~Leaf(t, x) /\ Size(t, x) = Kids(t, x) BY <2>5, <2>2, <2>3, <1>m
    <3>2. CASE x = v
      <4>1. ~Leaf(t, w) BY <3>1, <3>2, <1>b, <1>m
      <4>2. Size(t, w) = Kids(t, w) BY <4>1, <1>b, <1>m
      <4> QED BY <4>2, <3>1, <3>2, <1>k
    <3>3. CASE x = p BY <3>1, <3>3, <1>k
    <3>4. CASE x \notin {v, p} BY <3>1, <3>4, <2>2, <1>x
    <3> QED BY <3>2, <3>3, <3>4
  <2>6. ASSUME ~Leaf(t2, x) PROVE Left(t2, x) = 0 /\ Right(t2, x) = 0
    <3>1. ~Leaf(t, x) /\ Left(t, x) = 0 /\ Right(t, x) = 0 BY <2>6, <2>2, <2>3, <1>m
    <3>2. Leaf(t, w) => x # v /\ x # nx[w]
      <4>1. ASSUME Leaf(t, w) PROVE x # v /\ x # nx[w]
        <5>1. Kids(t, w) = 0 /\ Kids(t, v) = 0 BY <4>1, <1>b, <1>m
        <5>2. x # v BY <5>1, <3>1, <1>b, <1>m
        <5>3. Kids(t, x) # 0 BY <2>2, <3>1, <1>m
        <5>4. nx[w] # x
          <6>1. SUFFICES ASSUME nx[w] = x PROVE FALSE OBVIOUS
          <6>2. x # 0 BY <2>2, <1>s
          <6>3. pv[x] = w /\ h[x] = h[w] BY <6>1, <6>2, <1>b, <1>g, LinkFacts
          <6>4. h[w] = 1 BY <5>1, <1>b, <1>g, ShapeFacts
          <6>5. h[x] = h[Kid(t, x, 1)] + 1 /\ Kid(t, x, 1) \in N
            <7>1. Kids(t, x) \in Nat BY <2>2, <1>g, ShapeFacts
            <7>2. 1 \in 1 .. Kids(t, x) BY <7>1, <5>3
            <7> QED BY <7>2, <2>2, <1>g, ShapeFacts
          <6>6. h[Kid(t, x, 1)] >= 1 /\ h[Kid(t, x, 1)] \in Nat BY <6>5, <1>g, ShapeFacts
          <6> QED BY <6>3, <6>4, <6>5, <6>6
        <5> QED BY <5>2, <5>4
      <4> QED BY <4>1
    <3>3. Leaf(t, w) => Left(t, w) = v /\ Right(t, w) = nx[w] BY <1>m, <1>b, <1>g DEF LeafLinks
    <3> QED BY <3>1, <3>2, <3>3, <2>2, <1>l
  <2> QED BY <2>4, <2>5, <2>6
<1>6. Blank(t2, N2)
  <2>1. SUFFICES ASSUME NEW x \in Pages \ N2
                 PROVE  t2.node[x] = [EmptyNode EXCEPT !.next_free = NextFree(t2, x)]
    BY <1>l DEF Blank
  <2>2. CASE x = w BY <2>2, <1>l
  <2>3. CASE x # w
    <3>1. x \notin N /\ x \in Pages BY <2>1, <2>3, <1>d
    <3>2. /\ ~Leaf(t, x) /\ Kids(t, x) = 0 /\ Size(t, x) = 0 /\ Parent(t, x) = 0
          /\ Left(t, x) = 0 /\ Right(t, x) = 0
      BY <3>1, <1>g, BlankIs
    <3>3. x \notin {v, w, p} BY <3>1, <1>b
    <3>4. Kids(t2, x) = 0 /\ Size(t2, x) = 0 BY <3>1, <3>2, <3>3, <1>x
    <3>5. ~Leaf(t2, x) BY <3>1, <3>2, <2>3, <1>k
    <3>6. Parent(t2, x) = 0
      <4>1. Parent(t, x) # w BY <3>2, <1>w, <1>s
      <4> QED BY <4>1, <3>1, <3>2, <2>3, <1>k
    <3>7. Left(t2, x) = 0 /\ Right(t2, x) = 0
      <4>1. Leaf(t, w) => x # Left(t, w) /\ x # Right(t, w)
        <5>1. Leaf(t, w) => Left(t, w) = v /\ Right(t, w) = nx[w] BY <1>m, <1>b, <1>g DEF LeafLinks
        <5>2. nx[w] \in N \cup {0} BY <1>b, <1>g, LinkFacts
        <5> QED BY <5>1, <5>2, <3>1, <3>3, <1>s
      <4> QED BY <4>1, <3>1, <3>2, <2>3, <1>l
    <3> QED BY <3>1, <3>4, <3>5, <3>6, <3>7, <1>k, EmptyNodeIs
  <2> QED BY <2>2, <2>3
<1> QED BY <1>k, <1>3, <1>4, <1>5, <1>6, <1>l DEF Good, N2

(* A merge keeps the entries.                                              *)
LEMMA JoinedEntries ==
  ASSUME NEW t, NEW t2, NEW N, NEW h, NEW nx, NEW pv, Good(t, N, h, nx, pv),
         NEW p \in N, NEW r, NEW v, NEW w, Siblings(t, v, w, p, r),
         JoinedAs(t, t2, N, v, w, p, r)
  PROVE  SameEntries(t, t2)
<1>g. /\ t \in Trees /\ Shape(t, N, h) /\ Links(t, N, h, nx, pv) /\ Matched(t, N)
  BY DEF Good
<1>s. N \subseteq Pages /\ 0 \notin Pages BY <1>g, ShapeFacts
<1>b. /\ v \in N /\ w \in N /\ v # w /\ p # v /\ p # w
      /\ (Kids(t, v) = 0 <=> Kids(t, w) = 0) /\ Kids(t, p) \in Nat /\ r \in Nat /\ 1 <= r /\ r < Kids(t, p)
  BY <1>g, SiblingFacts
<1>w. w \in Pages /\ v \in Pages /\ p \in Pages BY <1>b, <1>s
<1>m. \A x \in N : Leaf(t, x) <=> Kids(t, x) = 0
  BY <1>g DEF Matched
<1>k. /\ t2 \in Trees
      /\ \A x \in Pages \ {v, w, p} : Items(t2, x) = Items(t, x)
      /\ Size(t2, v) = Size(t, v) + Size(t, w)
      /\ \A i \in 1 .. Size(t, v) + Size(t, w) :
           Item(t2, v, i) = IF i <= Size(t, v) THEN Item(t, v, i) ELSE Item(t, w, i - Size(t, v))
      /\ \A x \in Pages \ {w} : Leaf(t2, x) = Leaf(t, x)
  BY DEF JoinedAs, Gathered
<1>n. ~Leaf(t2, w)
  BY <1>k, <1>w, JoinedBlank
<1>p. ~Leaf(t, p) /\ ~Leaf(t2, p) BY <1>b, <1>m, <1>k, <1>w
<1>z. Size(t, v) \in Nat /\ Size(t, w) \in Nat BY <1>g, <1>w, TreeTypes
<1>1. LeafSize(t2, w) = 0 BY <1>n DEF LeafSize
<1>2. LeafSize(t2, v) = LeafSize(t, v) + LeafSize(t, w)
  <2>1. Leaf(t, v) <=> Leaf(t, w) BY <1>b, <1>m
  <2>2. Leaf(t2, v) = Leaf(t, v) BY <1>k, <1>b, <1>w
  <2> QED BY <2>1, <2>2, <1>k, <1>z DEF LeafSize
<1>3. \A x \in Pages \ {v, w} :
        /\ LeafSize(t2, x) = LeafSize(t, x)
        /\ \A i \in 1 .. LeafSize(t, x) : Item(t2, x, i) = Item(t, x, i)
  <2>1. SUFFICES ASSUME NEW x \in Pages \ {v, w}
                 PROVE  /\ LeafSize(t2, x) = LeafSize(t, x)
                        /\ \A i \in 1 .. LeafSize(t, x) : Item(t2, x, i) = Item(t, x, i)
    OBVIOUS
  <2>2. CASE x = p BY <2>2, <1>p DEF LeafSize
  <2>3. CASE x # p
    <3>1. Items(t2, x) = Items(t, x) /\ Leaf(t2, x) = Leaf(t, x) BY <2>3, <1>k
    <3> QED BY <3>1 DEF LeafSize, Size, Item
  <2> QED BY <2>2, <2>3
<1>4. \A i \in 1 .. LeafSize(t, v) + LeafSize(t, w) : Row(t2, v, w, i) = Row(t, v, w, i)
  <2>1. SUFFICES ASSUME NEW i \in 1 .. LeafSize(t, v) + LeafSize(t, w)
                 PROVE  Row(t2, v, w, i) = Row(t, v, w, i)
    OBVIOUS
  <2>2. LeafSize(t, v) \in Nat /\ LeafSize(t, w) \in Nat BY <1>z DEF LeafSize
  <2>3. i <= LeafSize(t2, v) BY <2>1, <2>2, <1>2
  <2>4. Row(t2, v, w, i) = Item(t2, v, i) BY <2>3 DEF Row
  <2>5. Leaf(t, v) /\ Leaf(t, w)
    <3>1. Leaf(t, v) <=> Leaf(t, w) BY <1>b, <1>m
    <3>2. ~Leaf(t, v) => LeafSize(t, v) + LeafSize(t, w) = 0 BY <3>1 DEF LeafSize
    <3> QED BY <3>1, <3>2, <2>1
  <2>6. LeafSize(t, v) = Size(t, v) /\ LeafSize(t, w) = Size(t, w) BY <2>5 DEF LeafSize
  <2> QED BY <2>1, <2>4, <2>6, <1>k DEF Row
<1>5. MovedItems(t, t2, v, w)
  <2>1. LeafSize(t2, v) + LeafSize(t2, w) = LeafSize(t, v) + LeafSize(t, w)
    <3>1. LeafSize(t, v) + LeafSize(t, w) \in Nat BY <1>z DEF LeafSize
    <3> QED BY <3>1, <1>1, <1>2
  <2> QED BY <2>1, <1>3, <1>4, <1>b, <1>w DEF MovedItems
<1> QED BY <1>5, <1>g, <1>k, MovedItemsKept

(* After a merge below p, where p may have an item too few.                *)
Merged(t, t2, N, h, p) ==
  \E N2, h2, nx2, pv2 :
    /\ Good(t2, N2, h2, nx2, pv2)
    /\ UnderSized(t2, N2, p)
    /\ SameEntries(t, t2) /\ t2.entryNum = t.entryNum
    /\ p \in N2 /\ h2[p] = h[p] /\ h2[t2.root] = h[t.root]
    /\ t2.status \in {t.status, "aborted"}

(* The sizes after a merge.                                                *)
LEMMA JoinedSizes ==
  ASSUME NEW t, NEW t2, NEW N, NEW h, NEW nx, NEW pv, Good(t, N, h, nx, pv),
         NEW p \in N, NEW r, NEW v, NEW w, Siblings(t, v, w, p, r),
         JoinedAs(t, t2, N, v, w, p, r),
         NEW a \in {v, w}, UnderSized(t, N, a), Size(t, a) < MinItems,
         NEW b \in {v, w} \ {a}, Size(t, b) <= MinItems
  PROVE  /\ UnderSized(t2, WithoutPage(N, w), p)
         /\ Size(t2, v) >= 1
<1>g. /\ t \in Trees /\ Shape(t, N, h) /\ Links(t, N, h, nx, pv) /\ Matched(t, N)
  BY DEF Good
<1>s. N \subseteq Pages /\ 0 \notin Pages BY <1>g, ShapeFacts
<1>b. /\ v \in N /\ w \in N /\ v # w /\ p # v /\ p # w /\ v # t.root /\ w # t.root
      /\ Kids(t, p) \in Nat /\ r \in Nat /\ 1 <= r /\ r < Kids(t, p)
  BY <1>g, SiblingFacts
<1>w. w \in Pages /\ v \in Pages /\ p \in Pages BY <1>b, <1>s
<1>k. /\ t2 \in Trees /\ t2.root = t.root
      /\ \A x \in Pages \ {v, w, p} : Items(t2, x) = Items(t, x)
      /\ Size(t2, v) = Size(t, v) + Size(t, w)
      /\ Size(t2, p) = Size(t, p) - 1
      /\ \A x \in Pages \ {w} : Leaf(t2, x) = Leaf(t, x)
  BY DEF JoinedAs, Gathered
<1>z. \A x \in N : Size(t, x) \in Nat BY <1>g, <1>s, TreeTypes
<1>u. /\ \A x \in N : Size(t, x) <= EntryLimit
      /\ \A x \in N \ {t.root} : Size(t, x) >= IF x = a THEN MinItems - 1 ELSE MinItems
      /\ ~Leaf(t, t.root) => Size(t, t.root) >= 2
  <2>1. t.root # a BY <1>b
  <2> QED BY <2>1 DEF UnderSized
<1>e. MinItems \in Nat /\ EntryLimit \in Nat /\ MinItems >= 2 /\ 2 * MinItems <= EntryLimit + 1
  BY MinItemsIs, EntryLimitAssumption
<1>1. Size(t2, v) \in Nat /\ Size(t2, v) >= MinItems /\ Size(t2, v) <= EntryLimit
  <2>1. a \in N \ {t.root} /\ b \in N \ {t.root} /\ a # b BY <1>b
  <2>2. Size(t, a) >= MinItems - 1 /\ Size(t, b) >= MinItems BY <2>1, <1>u
  <2>3. Size(t, a) \in Nat /\ Size(t, b) \in Nat BY <2>1, <1>z
  <2>4. Size(t2, v) = Size(t, a) + Size(t, b) BY <2>3, <1>k
  <2> QED BY <2>2, <2>3, <2>4, <1>e
<1>d. \A x : x \in WithoutPage(N, w) <=> x \in N /\ x # w
  BY DEF WithoutPage
<1>x. \A x \in Pages \ {v, w, p} : Size(t2, x) = Size(t, x)
  BY <1>k DEF Size
<1>2. \A x \in WithoutPage(N, w) : Size(t2, x) <= EntryLimit
  <2>1. SUFFICES ASSUME NEW x \in N, x # w PROVE Size(t2, x) <= EntryLimit BY <1>d
  <2>2. Size(t, x) <= EntryLimit /\ Size(t, x) \in Nat BY <1>u, <1>z
  <2>3. CASE x = v BY <2>3, <1>1
  <2>4. CASE x = p BY <2>2, <2>4, <1>k, <1>e
  <2>5. CASE x \notin {v, p} BY <2>2, <2>5, <2>1, <1>x, <1>s
  <2> QED BY <2>3, <2>4, <2>5
<1>3. \A x \in WithoutPage(N, w) \ {t2.root} : Size(t2, x) >= IF x = p THEN MinItems - 1 ELSE MinItems
  <2>1. SUFFICES ASSUME NEW x \in N, x # w, x # t.root
                 PROVE  Size(t2, x) >= IF x = p THEN MinItems - 1 ELSE MinItems
    BY <1>d, <1>k
  <2>3. CASE x = v BY <2>3, <1>1, <1>b
  <2>4. CASE x = p
    <3>1. p # a BY <1>b
    <3>2. Size(t, p) >= MinItems /\ Size(t, p) \in Nat BY <3>1, <2>1, <2>4, <1>u, <1>z
    <3> QED BY <3>2, <2>4, <1>k, <1>e
  <2>5. CASE x \notin {v, p}
    <3>1. x # a BY <2>1, <2>5
    <3>2. Size(t, x) >= MinItems BY <3>1, <2>1, <1>u
    <3>3. Size(t2, x) = Size(t, x) BY <2>1, <2>5, <1>x, <1>s
    <3> QED BY <3>2, <3>3, <2>5
  <2> QED BY <2>3, <2>4, <2>5
<1>4. ~Leaf(t2, t2.root) => Size(t2, t2.root) >= IF t2.root = p THEN 1 ELSE 2
  <2>1. t.root \in N BY <1>g, ShapeFacts
  <2>2. t2.root = t.root /\ t.root \in Pages \ {v, w} BY <2>1, <1>s, <1>k, <1>b
  <2>3. Leaf(t2, t2.root) = Leaf(t, t.root) BY <2>2, <1>k
  <2>4. Size(t, t.root) \in Nat BY <2>1, <1>z
  <2>5. CASE t.root = p BY <2>2, <2>3, <2>4, <2>5, <1>u, <1>k
  <2>6. CASE t.root # p
    <3>1. Size(t2, t2.root) = Size(t, t.root) BY <2>2, <2>6, <1>x
    <3> QED BY <3>1, <2>2, <2>3, <2>6, <1>u
  <2> QED BY <2>5, <2>6
<1>5. UnderSized(t2, WithoutPage(N, w), p) BY <1>2, <1>3, <1>4 DEF UnderSized
<1>6. Size(t2, v) >= 1 BY <1>1, <1>e
<1> QED BY <1>5, <1>6

(* Separators do not matter for the sizes.                                 *)
LEMMA UnderSizedKept ==
  ASSUME NEW t, NEW t2, NEW N, NEW h, NEW nx, NEW pv, Good(t, N, h, nx, pv),
         NEW v, InnerItems(t, t2), UnderSized(t, N, v)
  PROVE  UnderSized(t2, N, v)
<1>1. t2.root = t.root /\ \A x \in Pages : Size(t2, x) = Size(t, x) /\ Leaf(t2, x) = Leaf(t, x)
  BY InnerItemsKept
<1>2. N \subseteq Pages /\ t.root \in N BY ShapeFacts DEF Good
<1>3. /\ \A x \in N : Size(t2, x) = Size(t, x) /\ Leaf(t2, x) = Leaf(t, x)
  BY <1>1, <1>2
<1> QED BY <1>1, <1>2, <1>3 DEF UnderSized

(* A merge with or without the failure of the assertion.                   *)
LEMMA MergedFrom ==
  ASSUME NEW t, NEW t2, NEW t3, NEW N, NEW h, NEW p, NEW N2, NEW h2, NEW nx2, NEW pv2,
         Good(t2, N2, h2, nx2, pv2), UnderSized(t2, N2, p), SameEntries(t, t2),
         t2.entryNum = t.entryNum, p \in N2, h2[p] = h[p], h2[t2.root] = h[t.root],
         InnerItems(t2, t3), t3.status \in {t.status, "aborted"}
  PROVE  Merged(t, t3, N, h, p)
<1>1. Good(t3, N2, h2, nx2, pv2) /\ SameEntries(t2, t3) /\ t3.root = t2.root /\ t3.entryNum = t2.entryNum
  BY InnerItemsKept
<1>2. UnderSized(t3, N2, p) BY UnderSizedKept
<1>3. SameEntries(t, t3) BY <1>1, SameEntriesStep
<1>4. h2[t3.root] = h[t.root] BY <1>1
<1>5. t3.entryNum = t.entryNum BY <1>1
<1>6. /\ Good(t3, N2, h2, nx2, pv2) /\ UnderSized(t3, N2, p)
      /\ SameEntries(t, t3) /\ t3.entryNum = t.entryNum
      /\ p \in N2 /\ h2[p] = h[p] /\ h2[t3.root] = h[t.root]
      /\ t3.status \in {t.status, "aborted"}
  BY <1>1, <1>2, <1>3, <1>4, <1>5
<1> QED BY <1>6 DEF Merged

(* Merging two neighbours.                                                 *)
LEMMA MergeKept ==
  ASSUME NEW t, NEW N, NEW h, NEW nx, NEW pv, Good(t, N, h, nx, pv),
         NEW p \in N, NEW r, NEW v, NEW w, Siblings(t, v, w, p, r),
         NEW a \in {v, w}, UnderSized(t, N, a), Size(t, a) < MinItems,
         NEW b \in {v, w} \ {a}, Size(t, b) <= MinItems
  PROVE  Merged(t, Merge(t, v, w), N, h, p)
<1> DEFINE u == JoinedAll(t, v, w)
           N2 == WithoutPage(N, w)
           h2 == LevelWithout(h, w)
           nx2 == NextWithout(nx, v, w)
           pv2 == PrevWithout(nx, pv, v, w)
           t3 == Merge(t, v, w)
<1>g. t \in Trees /\ Shape(t, N, h) /\ Links(t, N, h, nx, pv) BY DEF Good
<1>s. N \subseteq Pages /\ 0 \notin Pages /\ t.root \in N /\ h \in [Pages -> Nat] BY <1>g, ShapeFacts
<1>b. /\ v \in N /\ w \in N /\ v # w /\ p # v /\ p # w /\ v # t.root /\ w # t.root
      /\ Parent(t, v) = p /\ Kids(t, p) \in Nat /\ r \in Nat /\ 1 <= r /\ r < Kids(t, p)
  BY <1>g, SiblingFacts
<1>w. v \in Pages /\ w \in Pages /\ p \in Pages BY <1>b, <1>s
<1>j. JoinedAs(t, u, N, v, w, p, r) BY JoinedAllIs
<1>3. t3 = IF LowersParent(u, v)
           THEN [SetItem(u, p, Rank(u, v, p), Items(u, v)[1]) EXCEPT !.status = "aborted"]
           ELSE u
  BY <1>b, MergeIs
<1> HIDE DEF u, t3
<1>4. Good(u, N2, h2, nx2, pv2) BY <1>j, JoinedGood
<1>5. SameEntries(t, u) BY <1>j, JoinedEntries
<1>6. UnderSized(u, N2, p) /\ Size(u, v) >= 1 BY <1>j, JoinedSizes
<1>7. p \in N2 /\ h2[p] = h[p] /\ h2[t.root] = h[t.root]
  BY <1>b, <1>s, <1>w DEF WithoutPage, LevelWithout
<1>8. u.root = t.root /\ u.entryNum = t.entryNum /\ u.status = t.status /\ u \in Trees /\ Leaf(u, p) = Leaf(t, p)
  BY <1>j, <1>b, <1>w DEF JoinedAs, Gathered
<1>9. ~Leaf(u, p)
  <2>1. Matched(t, N) BY DEF Good
  <2>2. Kids(t, p) # 0 BY <1>b
  <2> QED BY <2>1, <2>2, <1>8 DEF Matched
<1> HIDE DEF N2, h2, nx2, pv2
<1>10. InnerItems(u, t3) /\ t3.status \in {t.status, "aborted"}
  <2>1. CASE ~LowersParent(u, v)
    <3>1. t3 = u BY <2>1, <1>3
    <3> QED BY <3>1, <1>8, SameItems
  <2>2. CASE LowersParent(u, v)
    <3> DEFINE u2 == SetItem(u, p, Rank(u, v, p), Items(u, v)[1])
    <3>1. t3 = [u2 EXCEPT !.status = "aborted"] BY <2>2, <1>3
    <3>2. Items(u, v)[1] \in Entries
      <4>1. Size(u, v) \in Nat /\ \A i \in 1 .. Size(u, v) : Item(u, v, i) \in Entries
        BY <1>8, <1>w, TreeTypes
      <4>2. Item(u, v, 1) \in Entries BY <4>1, <1>6
      <4> QED BY <4>2 DEF Item
    <3>3. InnerItems(u, u2) BY <3>2, <1>8, <1>9, <1>w, SeparatorSet
    <3> HIDE DEF u2
    <3> QED BY <3>1, <3>3, StatusSet
  <2> QED BY <2>1, <2>2
<1>11. h2[u.root] = h[t.root] BY <1>7, <1>8
<1> QED BY <1>4, <1>5, <1>6, <1>7, <1>8, <1>10, <1>11, MergedFrom DEF t3

(* The node a has an item too few and no sibling that can lend it one.     *)
LEMMA MergeSiblingKept ==
  ASSUME NEW t, NEW N, NEW h, NEW nx, NEW pv, Good(t, N, h, nx, pv),
         NEW a \in N, a # t.root, UnderSized(t, N, a), Merges(t, a)
  PROVE  Merged(t, MergeSibling(t, a), N, h, Parent(t, a)) /\ Parent(t, a) \in N
<1>g. t \in Trees /\ Shape(t, N, h) /\ Links(t, N, h, nx, pv) /\ Matched(t, N) BY DEF Good
<1>s. N \subseteq Pages BY <1>g, ShapeFacts
<1>m. Size(t, a) < MinItems /\ ~CanLend(t, LeftSibling(t, a)) /\ ~CanLend(t, RightSibling(t, a))
  BY DEF Merges, Size
<1>e. MinItems \in Nat BY MinItemsIs
<1>1. CASE LeftSibling(t, a) # 0
  <2> DEFINE v == LeftSibling(t, a)
  <2>1. Siblings(t, v, a, Parent(t, a), Rank(t, a, Parent(t, a)) - 1) /\ Parent(t, a) \in N
    BY <1>1, <1>g, LeftSiblingIs
  <2>2. MergeSibling(t, a) = Merge(t, v, a) BY <1>1 DEF MergeSibling, NULL_NODE
  <2>3. v \in N /\ v # a BY <2>1, <1>g, SiblingFacts
  <2>4. Size(t, v) <= MinItems
    <3>1. ~(Size(t, v) > MinItems) BY <1>m, <1>1 DEF CanLend, Size, NULL_NODE
    <3>2. Size(t, v) \in Nat BY <2>3, <1>s, <1>g, TreeTypes
    <3> QED BY <3>1, <3>2, <1>e
  <2> HIDE DEF v
  <2>5. v \in {v, a} \ {a} /\ a \in {v, a} BY <2>3
  <2> QED BY <2>1, <2>2, <2>4, <2>5, <1>m, MergeKept
<1>2. CASE LeftSibling(t, a) = 0
  <2> DEFINE w == RightSibling(t, a)
  <2>0. w # 0
    <3>1. Kids(t, Parent(t, a)) >= 2
      <4> DEFINE p == Parent(t, a)
      <4>1. p \in N /\ p # a BY <1>g, RankIs
      <4>2. Kids(t, p) \in Nat /\ Kids(t, p) > 0
        <5>1. Rank(t, a, p) \in 1 .. Kids(t, p) BY <1>g, RankIs
        <5>2. Kids(t, p) \in Nat BY <4>1, <1>g, ShapeFacts
        <5> QED BY <5>1, <5>2
      <4>3. ~Leaf(t, p) /\ Size(t, p) = Kids(t, p) BY <4>1, <4>2, <1>g DEF Matched
      <4>4. Size(t, p) >= 2
        <5>1. CASE p = t.root BY <5>1, <4>1, <4>3 DEF UnderSized
        <5>2. CASE p # t.root
          <6>1. Size(t, p) >= MinItems BY <5>2, <4>1 DEF UnderSized
          <6> QED BY <6>1, <4>2, <4>3, MinItemsIs
        <5> QED BY <5>1, <5>2
      <4> QED BY <4>3, <4>4
    <3> QED BY <3>1, <1>2, <1>g, SiblingExists
  <2>1. Siblings(t, a, w, Parent(t, a), Rank(t, a, Parent(t, a))) /\ Parent(t, a) \in N
    BY <2>0, <1>g, RightSiblingIs
  <2>2. MergeSibling(t, a) = Merge(t, a, w) BY <1>2 DEF MergeSibling, NULL_NODE
  <2>3. w \in N /\ w # a BY <2>1, <1>g, SiblingFacts
  <2>4. Size(t, w) <= MinItems
    <3>1. ~(Size(t, w) > MinItems) BY <1>m, <2>0 DEF CanLend, Size, NULL_NODE
    <3>2. Size(t, w) \in Nat BY <2>3, <1>s, <1>g, TreeTypes
    <3> QED BY <3>1, <3>2, <1>e
  <2> HIDE DEF w
  <2>5. w \in {a, w} \ {a} /\ a \in {a, w} BY <2>3
  <2> QED BY <2>1, <2>2, <2>4, <2>5, <1>m, MergeKept
<1> QED BY <1>1, <1>2

(* t with the child c as the root.                                         *)
Lowered(t, c) == [t EXCEPT !.root = c, !.node[c].parent = NULL_NODE]

LoweredTo(t, u, c) ==
  /\ u \in Trees /\ u.root = c /\ u.right = t.right /\ u.nextFree = t.nextFree
  /\ u.pageNum = t.pageNum /\ u.entryNum = t.entryNum /\ u.status = t.status
  /\ \A x \in Pages :
       /\ Items(u, x) = Items(t, x) /\ Childs(u, x) = Childs(t, x) /\ Leaf(u, x) = Leaf(t, x)
       /\ Left(u, x) = Left(t, x) /\ Right(u, x) = Right(t, x) /\ NextFree(u, x) = NextFree(t, x)
       /\ Parent(u, x) = IF x = c THEN 0 ELSE Parent(t, x)

(* What making a child the root changes.                                   *)
LEMMA LoweredIs ==
  ASSUME NEW t \in Trees, NEW c \in Pages
  PROVE  LoweredTo(t, Lowered(t, c), c)
<1> DEFINE u == Lowered(t, c)
           m == [t.node[c] EXCEPT !.parent = 0]
           nodes == [t.node EXCEPT ![c] = m]
<1>1. t.node[c] \in TreeNodes /\ t.node \in [Pages -> TreeNodes] BY DEF Trees
<1>c. c \in Nat BY DEF Pages
<1>2. m \in TreeNodes BY <1>1 DEF TreeNodes
<1>0. u = [t EXCEPT !.root = c, !.node = nodes] BY DEF Lowered, NULL_NODE
<1>5. \A x \in Pages : nodes[x] = IF x = c THEN m ELSE t.node[x] BY <1>1
<1>6. /\ m.items = t.node[c].items /\ m.childs = t.node[c].childs /\ m.leaf = t.node[c].leaf
      /\ m.left = t.node[c].left /\ m.right = t.node[c].right /\ m.next_free = t.node[c].next_free
      /\ m.parent = 0
  BY <1>1 DEF TreeNodes
<1> HIDE DEF m
<1>8. nodes \in [Pages -> TreeNodes] BY <1>1, <1>2
<1> HIDE DEF nodes, u
<1>3. /\ u \in Trees /\ u.root = c /\ u.right = t.right /\ u.nextFree = t.nextFree /\ u.node = nodes
      /\ u.pageNum = t.pageNum /\ u.entryNum = t.entryNum /\ u.status = t.status
  BY <1>0, <1>8, <1>c DEF Trees
<1>7. \A x \in Pages :
       /\ Items(u, x) = Items(t, x) /\ Childs(u, x) = Childs(t, x) /\ Leaf(u, x) = Leaf(t, x)
       /\ Left(u, x) = Left(t, x) /\ Right(u, x) = Right(t, x) /\ NextFree(u, x) = NextFree(t, x)
       /\ Parent(u, x) = IF x = c THEN 0 ELSE Parent(t, x)
  BY <1>3, <1>5, <1>6 DEF Items, Childs, Leaf, Left, Right, NextFree, Parent
<1> QED BY <1>3, <1>7 DEF LoweredTo, u

(* t2 is t without its root q, whose only child c is the root.             *)
Shortened(t, t2, N, q, c) ==
  /\ t2 \in Trees /\ t2.root = c /\ t2.right = t.right
  /\ t2.pageNum = t.pageNum /\ t2.entryNum = t.entryNum /\ t2.status = t.status
  /\ FreeList(t2, WithoutPage(N, q))
  /\ t2.node[q] = [EmptyNode EXCEPT !.next_free = NextFree(t2, q)]
  /\ \A x \in Pages : NextFree(t2, x) <= t2.pageNum
  /\ \A x \in Pages \ {q} :
       /\ Items(t2, x) = Items(t, x) /\ Childs(t2, x) = Childs(t, x) /\ Leaf(t2, x) = Leaf(t, x)
       /\ Left(t2, x) = Left(t, x) /\ Right(t2, x) = Right(t, x)
       /\ Parent(t2, x) = IF x = c THEN 0 ELSE Parent(t, x)

(* The old root is taken off.                                              *)
LEMMA ShrinkRootIs ==
  ASSUME NEW t, NEW N, NEW h, NEW nx, NEW pv, Good(t, N, h, nx, pv),
         NEW q, q = t.root, NEW c, c = Childs(t, q)[1], c \in Pages
  PROVE  Shortened(t, ShrinkRoot(t, q), N, q, c)
<1>g. t \in Trees /\ Shape(t, N, h) /\ FreeList(t, N) /\ Blank(t, N) BY DEF Good
<1>q. q \in N /\ q \in Pages BY <1>g, ShapeFacts
<1> DEFINE u  == Lowered(t, c)
           t2 == ShrinkRoot(t, q)
<1>1. t2 = AddLink(u, q) BY DEF ShrinkRoot, Lowered
<1>2. LoweredTo(t, u, c) BY <1>g, LoweredIs
<1> HIDE DEF u, t2
<1>3. /\ u \in Trees /\ u.root = c /\ u.right = t.right /\ u.nextFree = t.nextFree
      /\ u.pageNum = t.pageNum /\ u.entryNum = t.entryNum /\ u.status = t.status
  BY <1>2 DEF LoweredTo
<1>4. \A x \in Pages :
       /\ Items(u, x) = Items(t, x) /\ Childs(u, x) = Childs(t, x) /\ Leaf(u, x) = Leaf(t, x)
       /\ Left(u, x) = Left(t, x) /\ Right(u, x) = Right(t, x) /\ NextFree(u, x) = NextFree(t, x)
       /\ Parent(u, x) = IF x = c THEN 0 ELSE Parent(t, x)
  BY <1>2 DEF LoweredTo
<1>5. FreeList(u, N)
  <2>1. \A x \in Pages \ N : NextFree(u, x) = NextFree(t, x) BY <1>4
  <2> QED BY <2>1, <1>3, <1>g, FreeListKept
<1>6. Freed(u, t2, N, q)
  <2>1. u \in Trees BY <1>3
  <2> QED BY <2>1, <1>1, <1>5, <1>q, AddLinkFrees
<1>7. /\ t2 \in Trees
      /\ FreeList(t2, N \ {q})
      /\ t2.pageNum = u.pageNum
      /\ t2.root = u.root /\ t2.right = u.right
      /\ t2.entryNum = u.entryNum /\ t2.status = u.status
      /\ t2.node[q] = [EmptyNode EXCEPT !.next_free = NextFree(t2, q)]
      /\ \A x \in Pages \ {q} : t2.node[x] = [u.node[x] EXCEPT !.next_free = NextFree(t2, x)]
      /\ \A x \in Pages : NextFree(u, x) <= u.pageNum => NextFree(t2, x) <= u.pageNum
  BY <1>6 DEF Freed
<1>8. \A x \in Pages \ {q} :
        /\ Items(t2, x) = Items(u, x) /\ Childs(t2, x) = Childs(u, x) /\ Leaf(t2, x) = Leaf(u, x)
        /\ Parent(t2, x) = Parent(u, x) /\ Left(t2, x) = Left(u, x) /\ Right(t2, x) = Right(u, x)
  <2>1. SUFFICES ASSUME NEW x \in Pages \ {q}
                 PROVE  /\ Items(t2, x) = Items(u, x) /\ Childs(t2, x) = Childs(u, x)
                        /\ Leaf(t2, x) = Leaf(u, x) /\ Parent(t2, x) = Parent(u, x)
                        /\ Left(t2, x) = Left(u, x) /\ Right(t2, x) = Right(u, x)
    OBVIOUS
  <2>2. u.node[x] \in TreeNodes BY <1>3 DEF Trees
  <2>3. NextFree(t2, x) \in Nat
    <3>1. t2.node[x] \in TreeNodes BY <1>7 DEF Trees
    <3> QED BY <3>1 DEF NextFree, TreeNodes
  <2>4. t2.node[x] = [u.node[x] EXCEPT !.next_free = NextFree(t2, x)] BY <1>7
  <2> QED BY <2>2, <2>3, <2>4, SameFields
<1>9. \A x \in Pages : NextFree(t2, x) <= t2.pageNum
  <2>1. \A x \in Pages : NextFree(t, x) <= t.pageNum BY <1>g DEF Blank
  <2> QED BY <2>1, <1>3, <1>4, <1>7
<1>10. FreeList(t2, WithoutPage(N, q)) BY <1>7 DEF WithoutPage
<1>11. \A x \in Pages \ {q} :
       /\ Items(t2, x) = Items(t, x) /\ Childs(t2, x) = Childs(t, x) /\ Leaf(t2, x) = Leaf(t, x)
       /\ Left(t2, x) = Left(t, x) /\ Right(t2, x) = Right(t, x)
       /\ Parent(t2, x) = IF x = c THEN 0 ELSE Parent(t, x)
  BY <1>4, <1>8
<1>12. /\ t2 \in Trees /\ t2.root = c /\ t2.right = t.right
       /\ t2.pageNum = t.pageNum /\ t2.entryNum = t.entryNum /\ t2.status = t.status
       /\ t2.node[q] = [EmptyNode EXCEPT !.next_free = NextFree(t2, q)]
  BY <1>3, <1>7
<1> QED BY <1>9, <1>10, <1>11, <1>12 DEF Shortened, t2

(* A root with one child gives way to it.                                  *)
LEMMA ShrinkRootKept ==
  ASSUME NEW t, NEW N, NEW h, NEW nx, NEW pv, Good(t, N, h, nx, pv),
         NEW q, q = t.root, UnderSized(t, N, q), ~Leaf(t, q), Size(t, q) = 1
  PROVE  Kept(t, ShrinkRoot(t, q), WithoutPage(N, q), LevelWithout(h, q), nx, pv)
<1> DEFINE c  == Kid(t, q, 1)
           t2 == ShrinkRoot(t, q)
           N2 == WithoutPage(N, q)
<1>g. /\ t \in Trees /\ Shape(t, N, h) /\ Links(t, N, h, nx, pv) /\ Matched(t, N)
      /\ LeafLinks(t, N, nx, pv) /\ FreeList(t, N) /\ Blank(t, N)
  BY DEF Good
<1>s. N \subseteq Pages /\ 0 \notin Pages /\ q \in N /\ Parent(t, q) = 0 BY <1>g, ShapeFacts
<1>1. Kids(t, q) = 1 BY <1>s, <1>g DEF Matched
<1>2. c \in N /\ c # q /\ c # 0 /\ Parent(t, c) = q
  <2>1. c \in N /\ Parent(t, c) = q BY <1>1, <1>s, <1>g, ShapeFacts
  <2> QED BY <2>1, <1>s
<1>3. Shortened(t, t2, N, q, c)
  <2>1. c = Childs(t, q)[1] BY DEF Kid
  <2>2. c \in Pages BY <1>2, <1>s
  <2> QED BY <2>1, <2>2, ShrinkRootIs
<1> HIDE DEF c, t2
<1>4. /\ t2 \in Trees /\ t2.root = c /\ t2.right = t.right /\ t2.entryNum = t.entryNum
      /\ FreeList(t2, N2)
      /\ t2.node[q] = [EmptyNode EXCEPT !.next_free = NextFree(t2, q)]
      /\ \A x \in Pages : NextFree(t2, x) <= t2.pageNum
      /\ \A x \in Pages \ {q} :
           /\ Items(t2, x) = Items(t, x) /\ Childs(t2, x) = Childs(t, x) /\ Leaf(t2, x) = Leaf(t, x)
           /\ Left(t2, x) = Left(t, x) /\ Right(t2, x) = Right(t, x)
           /\ Parent(t2, x) = IF x = c THEN 0 ELSE Parent(t, x)
  BY <1>3 DEF Shortened
<1>5. ~Leaf(t2, q) /\ Kids(t2, q) = 0 /\ Size(t2, q) = 0 BY <1>4, <1>s, EmptyNodeIs
<1>6. \A x \in Pages \ {q} : /\ Kids(t2, x) = Kids(t, x) /\ Size(t2, x) = Size(t, x)
                             /\ \A i : Kid(t2, x, i) = Kid(t, x, i) /\ Item(t2, x, i) = Item(t, x, i)
  BY <1>4 DEF Kids, Size, Kid, Item
<1>7. Shrunk(t, t2, q, c)
  <2>1. c \in Pages \ {q} BY <1>2, <1>s
  <2>2. Parent(t2, c) = 0 BY <2>1, <1>4
  <2>3. \A x \in Pages \ {q, c} : Parent(t2, x) = Parent(t, x) BY <1>4
  <2> QED BY <2>2, <2>3, <1>4, <1>5, <1>6 DEF Shrunk
<1>8. /\ Shape(t2, N \ {q}, [h EXCEPT ![q] = 0])
      /\ Links(t2, N \ {q}, [h EXCEPT ![q] = 0], nx, pv)
  <2>1. c = Kid(t, q, 1) BY DEF c
  <2> QED BY <2>1, <1>1, <1>7, <1>g, ShrunkTree
<1>9. Shape(t2, N2, LevelWithout(h, q)) /\ Links(t2, N2, LevelWithout(h, q), nx, pv)
  BY <1>8 DEF WithoutPage, LevelWithout
<1>d. \A x : x \in N2 <=> x \in N /\ x # q BY DEF WithoutPage
<1> HIDE DEF N2
<1>n. \A x \in N2 : x \in N /\ x \in Pages \ {q} BY <1>d, <1>s
<1>10. LeafLinks(t2, N2, nx, pv)
  <2>1. SUFFICES ASSUME NEW x \in N2, Kids(t2, x) = 0
                 PROVE  Right(t2, x) = nx[x] /\ Left(t2, x) = pv[x] /\ (pv[x] = 0 => t2.right = x)
    BY DEF LeafLinks
  <2>2. x \in N /\ x \in Pages \ {q} BY <1>n
  <2>3. Kids(t, x) = 0 BY <2>1, <2>2, <1>6
  <2>4. Right(t, x) = nx[x] /\ Left(t, x) = pv[x] /\ (pv[x] = 0 => t.right = x)
    BY <2>2, <2>3, <1>g DEF LeafLinks
  <2> QED BY <2>2, <2>4, <1>4
<1>11. Matched(t2, N2)
  <2>1. SUFFICES ASSUME NEW x \in N2
                 PROVE  /\ Leaf(t2, x) <=> Kids(t2, x) = 0
                        /\ ~Leaf(t2, x) => Size(t2, x) = Kids(t2, x) /\ Left(t2, x) = 0 /\ Right(t2, x) = 0
    BY DEF Matched
  <2>2. x \in N /\ x \in Pages \ {q} BY <1>n
  <2>3. /\ Leaf(t, x) <=> Kids(t, x) = 0
        /\ ~Leaf(t, x) => Size(t, x) = Kids(t, x) /\ Left(t, x) = 0 /\ Right(t, x) = 0
    BY <2>2, <1>g DEF Matched
  <2> QED BY <2>2, <2>3, <1>4, <1>6
<1>12. Blank(t2, N2)
  <2>1. SUFFICES ASSUME NEW x \in Pages \ N2
                 PROVE  t2.node[x] = [EmptyNode EXCEPT !.next_free = NextFree(t2, x)]
    BY <1>4 DEF Blank
  <2>2. CASE x = q BY <2>2, <1>4
  <2>3. CASE x # q
    <3>1. x \notin N /\ x \in Pages /\ x # c BY <2>1, <2>3, <1>d, <1>2
    <3>2. /\ ~Leaf(t, x) /\ Kids(t, x) = 0 /\ Size(t, x) = 0 /\ Parent(t, x) = 0
          /\ Left(t, x) = 0 /\ Right(t, x) = 0
      BY <3>1, <1>g, BlankIs
    <3> QED BY <3>1, <3>2, <2>3, <1>4, <1>6, EmptyNodeIs
  <2> QED BY <2>2, <2>3
<1>13. Good(t2, N2, LevelWithout(h, q), nx, pv) BY <1>4, <1>9, <1>10, <1>11, <1>12 DEF Good
<1>14. OverSized(t2, N2, 0)
  <2>1. \A x \in N2 : Size(t2, x) = Size(t, x) /\ x \in N /\ x # q BY <1>n, <1>6
  <2>2. \A x \in N : Size(t, x) <= EntryLimit BY DEF UnderSized
  <2>3. \A x \in N : x # q => Size(t, x) >= MinItems BY DEF UnderSized
  <2>4. c \in N2 BY <1>2, <1>d
  <2>5. Size(t2, c) >= 2
    <3>1. Size(t, c) >= MinItems BY <2>3, <1>2
    <3>2. Size(t, c) \in Nat BY <1>2, <1>s, <1>g, TreeTypes
    <3>3. Size(t2, c) = Size(t, c) BY <2>1, <2>4
    <3> QED BY <3>1, <3>2, <3>3, MinItemsIs
  <2>6. 0 \notin N2 BY <1>s, <1>d
  <2> QED BY <2>1, <2>2, <2>3, <2>5, <2>6, <1>4 DEF OverSized
<1>15. SameEntries(t, t2)
  <2>1. SUFFICES ASSUME NEW x \in Pages
                 PROVE  /\ LeafSize(t2, x) = LeafSize(t, x)
                        /\ \A i \in 1 .. LeafSize(t, x) : Item(t2, x, i) = Item(t, x, i)
    BY LeavesKept
  <2>2. CASE x = q BY <2>2, <1>5 DEF LeafSize
  <2>3. CASE x # q BY <2>3, <1>4, <1>6 DEF LeafSize
  <2> QED BY <2>2, <2>3
<1> QED BY <1>4, <1>13, <1>14, <1>15 DEF Kept, t2, N2

(* A tree kept good and with its sizes is sound.                           *)
LEMMA KeptSound ==
  ASSUME NEW t, NEW t2, NEW N, NEW h, NEW nx, NEW pv, Kept(t, t2, N, h, nx, pv)
  PROVE  Sound(t2, t, FALSE)
BY DEF Kept, Sound

(* The sizes are right when no node has an item too few.                   *)
LEMMA FullSized ==
  ASSUME NEW t, NEW N, NEW h, NEW nx, NEW pv, Good(t, N, h, nx, pv), NEW v \in N, UnderSized(t, N, v),
         v # t.root => Size(t, v) >= MinItems,
         v = t.root => Leaf(t, v) \/ Size(t, v) >= 2
  PROVE  Kept(t, t, N, h, nx, pv)
<1>1. /\ \A x \in N : Size(t, x) <= EntryLimit
      /\ \A x \in N \ {t.root} : Size(t, x) >= IF x = v THEN MinItems - 1 ELSE MinItems
      /\ ~Leaf(t, t.root) => Size(t, t.root) >= IF t.root = v THEN 1 ELSE 2
  BY DEF UnderSized
<1>2. 0 \notin N BY ShapeFacts DEF Good
<1>3. \A x \in N \ {t.root} : Size(t, x) >= MinItems
  <2>1. SUFFICES ASSUME NEW x \in N \ {t.root} PROVE Size(t, x) >= MinItems OBVIOUS
  <2>2. CASE x = v BY <2>2
  <2>3. CASE x # v BY <2>3, <1>1
  <2> QED BY <2>2, <2>3
<1>4. ~Leaf(t, t.root) => Size(t, t.root) >= 2 BY <1>1
<1>5. OverSized(t, N, 0) BY <1>1, <1>2, <1>3, <1>4 DEF OverSized
<1>6. SameEntries(t, t) BY DEF SameEntries
<1> QED BY <1>5, <1>6 DEF Kept

(* A call of solveUnderflow that is the last leaves the tree as it should  *)
(* be.                                                                     *)
LEMMA LastUnderflowSound ==
  ASSUME NEW t, NEW N, NEW h, NEW nx, NEW pv, Good(t, N, h, nx, pv),
         NEW v \in N, UnderSized(t, N, v), ~Merges(t, v)
  PROVE  Sound(LastUnderflow(t, v), t, FALSE)
<1>g. t \in Trees /\ Shape(t, N, h) BY DEF Good
<1>s. /\ N \subseteq Pages /\ 0 \notin Pages /\ t.root \in N /\ Parent(t, t.root) = 0
      /\ \A x \in N \ {t.root} : Parent(t, x) \in N
  BY <1>g, ShapeFacts
<1>z. Size(t, v) \in Nat BY <1>g, <1>s, TreeTypes
<1>e. MinItems \in Nat /\ MinItems >= 2 BY MinItemsIs
<1>r. Parent(t, v) = 0 <=> v = t.root BY <1>s
<1>1. CASE Size(t, v) >= MinItems
  <2>1. LastUnderflow(t, v) = UpdateParents(t, v) BY <1>1 DEF LastUnderflow, Size
  <2>2. InnerItems(t, UpdateParents(t, v)) BY UpdateParentsIs
  <2>3. Kept(t, t, N, h, nx, pv)
    <3>1. Size(t, v) >= 2 BY <1>1, <1>z, <1>e
    <3> QED BY <3>1, <1>1, FullSized
  <2>4. Kept(t, UpdateParents(t, v), N, h, nx, pv) BY <2>2, <2>3, InnerKept
  <2> QED BY <2>1, <2>4, KeptSound
<1>2. CASE ~(Size(t, v) >= MinItems) /\ v = t.root /\ Size(t, v) = 1 /\ ~Leaf(t, v)
  <2>1. LastUnderflow(t, v) = ShrinkRoot(t, v) BY <1>2, <1>r DEF LastUnderflow, Size, Leaf, NULL_NODE
  <2>2. Kept(t, ShrinkRoot(t, v), WithoutPage(N, v), LevelWithout(h, v), nx, pv)
    BY <1>2, ShrinkRootKept
  <2> QED BY <2>1, <2>2, KeptSound
<1>3. CASE ~(Size(t, v) >= MinItems) /\ v = t.root /\ ~(Size(t, v) = 1 /\ ~Leaf(t, v))
  <2>1. LastUnderflow(t, v) = t BY <1>3, <1>r DEF LastUnderflow, Size, Leaf, NULL_NODE
  <2>2. Leaf(t, v) \/ Size(t, v) >= 2
    <3>1. ~Leaf(t, v) => Size(t, v) >= 1 BY <1>3 DEF UnderSized
    <3> QED BY <3>1, <1>3, <1>z
  <2>3. Kept(t, t, N, h, nx, pv) BY <2>2, <1>3, FullSized
  <2> QED BY <2>1, <2>3, KeptSound
<1>4. CASE ~(Size(t, v) >= MinItems) /\ v # t.root /\ CanLend(t, LeftSibling(t, v))
  <2>1. LastUnderflow(t, v) = BorrowLeft(t, LeftSibling(t, v), v)
    BY <1>4, <1>r DEF LastUnderflow, Size, NULL_NODE
  <2>2. Size(t, v) < MinItems BY <1>4, <1>z, <1>e
  <2>3. Kept(t, BorrowLeft(t, LeftSibling(t, v), v), N, h, nx, pv) BY <2>2, <1>4, BorrowLeftKept
  <2> QED BY <2>1, <2>3, KeptSound
<1>5. CASE ~(Size(t, v) >= MinItems) /\ v # t.root /\ ~CanLend(t, LeftSibling(t, v))
  <2>1. LastUnderflow(t, v) = BorrowRight(t, v, RightSibling(t, v))
    BY <1>5, <1>r DEF LastUnderflow, Size, NULL_NODE
  <2>2. Size(t, v) < MinItems BY <1>5, <1>z, <1>e
  <2>3. CanLend(t, RightSibling(t, v)) BY <2>2, <1>5, <1>r DEF Merges, Size, NULL_NODE
  <2>4. Kept(t, BorrowRight(t, v, RightSibling(t, v)), N, h, nx, pv)
    BY <2>2, <2>3, <1>5, BorrowRightKept
  <2> QED BY <2>1, <2>4, KeptSound
<1> QED BY <1>1, <1>2, <1>3, <1>4, <1>5

(* A tree on which an operation has come to an end: the sizes are only     *)
(* right when it has not failed.                                           *)
Settled(t, t0) ==
  \E N, h, nx, pv : /\ Good(t, N, h, nx, pv)
                    /\ t.status = "ok" => OverSized(t, N, 0)
                    /\ SameEntries(t0, t) /\ t.entryNum = t0.entryNum

Descending(t, v, N, h, H, n) ==
  v \in N /\ h[v] = n + 1 /\ h[t.root] = H /\ UnderSized(t, N, v)

UnderflowKeeps(t0, H, n, c) ==
  \/ c.at = 0 /\ Settled(c.tree, t0)
  \/ /\ c.at # 0
     /\ \E N, h, nx, pv :
          /\ Good(c.tree, N, h, nx, pv)
          /\ SameEntries(t0, c.tree) /\ c.tree.entryNum = t0.entryNum
          /\ c.tree.status = "ok" /\ Descending(c.tree, c.at, N, h, H, n)

(* The operation goes on from a tree with the same entries.                *)
LEMMA SettledStep ==
  ASSUME NEW t0, NEW t, NEW t2, SameEntries(t0, t), t.entryNum = t0.entryNum, Sound(t2, t, FALSE)
  PROVE  Settled(t2, t0)
<1>1. PICK N, h, nx, pv : Good(t2, N, h, nx, pv) /\ OverSized(t2, N, 0)
                          /\ SameEntries(t, t2) /\ t2.entryNum = t.entryNum
  BY DEF Sound
<1>2. SameEntries(t0, t2) /\ t2.entryNum = t0.entryNum BY <1>1, SameEntriesStep
<1> QED BY <1>1, <1>2 DEF Settled

(* A call that is the last.                                                *)
LEMMA UnderflowStops ==
  ASSUME NEW t, NEW v, v # 0, ~Merges(t, v)
  PROVE  Underflow([tree |-> t, at |-> v]) = [tree |-> LastUnderflow(t, v), at |-> 0]
BY DEF Underflow, NULL_NODE

(* A call that merges.                                                     *)
LEMMA UnderflowMerges ==
  ASSUME NEW t, NEW v, v # 0, Merges(t, v)
  PROVE  Underflow([tree |-> t, at |-> v])
           = [tree |-> MergeSibling(t, v),
              at |-> IF MergeSibling(t, v).status = "ok" THEN Parent(t, v) ELSE 0]
BY DEF Underflow, NULL_NODE

(* A sound tree is a tree.                                                 *)
LEMMA SoundTree ==
  ASSUME NEW t, NEW t0, Settled(t, t0)
  PROVE  t \in Trees
BY DEF Settled, Good

(* Each call keeps the tree good and climbs a level, or is the last.       *)
LEMMA UnderflowStep ==
  ASSUME NEW t0, NEW H \in Nat, NEW n \in Nat, NEW c \in CallRecords, UnderflowKeeps(t0, H, n, c)
  PROVE  Underflow(c) \in CallRecords /\ UnderflowKeeps(t0, H, n + 1, Underflow(c))
<1> DEFINE t == c.tree
           v == c.at
<1>2. t \in Trees /\ v \in Nat /\ c = [tree |-> t, at |-> v] BY DEF CallRecords
<1>a. CASE v = 0
  <2>1. Underflow(c) = c BY <1>a DEF Underflow, NULL_NODE
  <2>2. UnderflowKeeps(t0, H, n + 1, c) BY <1>a DEF UnderflowKeeps
  <2> QED BY <2>1, <2>2
<1>b. CASE v # 0
  <2>1. PICK N, h, nx, pv :
          /\ Good(t, N, h, nx, pv)
          /\ SameEntries(t0, t) /\ t.entryNum = t0.entryNum
          /\ t.status = "ok" /\ Descending(t, v, N, h, H, n)
    BY <1>b DEF UnderflowKeeps
  <2> HIDE DEF t, v
  <2>2. v \in N /\ h[v] = n + 1 /\ h[t.root] = H /\ UnderSized(t, N, v)
    BY <2>1 DEF Descending
  <2>g. Shape(t, N, h) /\ t \in Trees BY <2>1 DEF Good
  <2>s. N \subseteq Pages /\ 0 \notin Pages /\ Parent(t, t.root) = 0 BY <2>g, ShapeFacts
  <2>3. CASE ~Merges(t, v)
    <3> DEFINE t2 == LastUnderflow(t, v)
    <3>1. Underflow(c) = [tree |-> t2, at |-> 0] BY <2>3, <1>b, <1>2, UnderflowStops
    <3>2. Sound(t2, t, FALSE) BY <2>1, <2>2, <2>3, LastUnderflowSound
    <3> HIDE DEF t2
    <3>3. Settled(t2, t0) BY <2>1, <3>2, SettledStep
    <3>4. t2 \in Trees BY <3>3, SoundTree
    <3>5. Underflow(c) \in CallRecords BY <3>1, <3>4 DEF CallRecords
    <3>6. UnderflowKeeps(t0, H, n + 1, [tree |-> t2, at |-> 0]) BY <3>3 DEF UnderflowKeeps
    <3> QED BY <3>1, <3>5, <3>6
  <2>4. CASE Merges(t, v)
    <3> DEFINE t2 == MergeSibling(t, v)
               p  == Parent(t, v)
    <3>1. Underflow(c) = [tree |-> t2, at |-> IF t2.status = "ok" THEN p ELSE 0]
      BY <2>4, <1>b, <1>2, UnderflowMerges
    <3>2. v # t.root BY <2>4, <2>s DEF Merges, NULL_NODE
    <3>3. Merged(t, t2, N, h, p) /\ p \in N BY <2>1, <2>2, <2>4, <3>2, MergeSiblingKept
    <3>4. h[p] = h[v] + 1 BY <2>g, <2>2, <3>2, RankIs
    <3> HIDE DEF t2, p
    <3>5. PICK N2, h2, nx2, pv2 :
            /\ Good(t2, N2, h2, nx2, pv2)
            /\ UnderSized(t2, N2, p)
            /\ SameEntries(t, t2) /\ t2.entryNum = t.entryNum
            /\ p \in N2 /\ h2[p] = h[p] /\ h2[t2.root] = h[t.root]
            /\ t2.status \in {t.status, "aborted"}
      BY <3>3 DEF Merged
    <3>6. SameEntries(t0, t2) /\ t2.entryNum = t0.entryNum BY <3>5, <2>1, SameEntriesStep
    <3>7. t2 \in Trees BY <3>5 DEF Good
    <3>8. p \in Nat /\ p # 0 BY <3>3, <2>s DEF Pages
    <3>9. CASE t2.status = "ok"
      <4>1. Underflow(c) = [tree |-> t2, at |-> p] BY <3>1, <3>9
      <4>2. h2[p] = (n + 1) + 1 BY <3>5, <3>4, <2>2
      <4>3. Descending(t2, p, N2, h2, H, n + 1) BY <4>2, <3>5, <2>2 DEF Descending
      <4>4. UnderflowKeeps(t0, H, n + 1, [tree |-> t2, at |-> p])
        BY <4>3, <3>5, <3>6, <3>8, <3>9 DEF UnderflowKeeps
      <4>5. Underflow(c) \in CallRecords BY <4>1, <3>7, <3>8 DEF CallRecords
      <4> QED BY <4>1, <4>4, <4>5
    <3>10. CASE t2.status # "ok"
      <4>1. Underflow(c) = [tree |-> t2, at |-> 0] BY <3>1, <3>10
      <4>2. Settled(t2, t0) BY <3>5, <3>6, <3>10 DEF Settled
      <4>3. UnderflowKeeps(t0, H, n + 1, [tree |-> t2, at |-> 0]) BY <4>2 DEF UnderflowKeeps
      <4>4. Underflow(c) \in CallRecords BY <4>1, <3>7 DEF CallRecords
      <4> QED BY <4>1, <4>3, <4>4
    <3> QED BY <3>9, <3>10
  <2> QED BY <2>3, <2>4
<1> QED BY <1>a, <1>b

(* solveUnderflow, called for a leaf that may have an item too few.        *)
LEMMA SolveUnderflowSettled ==
  ASSUME NEW t, NEW N, NEW h, NEW nx, NEW pv, Good(t, N, h, nx, pv),
         NEW v \in N, h[v] = 1, UnderSized(t, N, v), t.status = "ok"
  PROVE  Settled(SolveUnderflow(t, v), t)
<1> DEFINE H == h[t.root]
           I == {s \in Nat \X CallRecords : UnderflowKeeps(t, H, s[1], s[2])}
           b == [tree |-> t, at |-> v]
<1>g. t \in Trees /\ Shape(t, N, h) BY DEF Good
<1>s. /\ N \subseteq Pages /\ 0 \notin Pages /\ t.root \in N /\ h \in [Pages -> Nat] BY <1>g, ShapeFacts
<1>h. H \in Nat BY <1>s
<1>v. v \in Nat /\ v # 0 BY <1>s DEF Pages
<1>1. Calls(t) = H + 1
  <2>1. Height(t)[t.root] = h[t.root] BY <1>g, <1>s, HeightIs
  <2> QED BY <2>1 DEF Calls
<1>d. h[t.root] = H OBVIOUS
<1> HIDE DEF H
<1>2. UnderflowKeeps(t, H, 0, b)
  <2>1. b.tree = t /\ b.at = v OBVIOUS
  <2> HIDE DEF b
  <2>3. Descending(t, v, N, h, H, 0) BY <1>d DEF Descending
  <2>4. SameEntries(t, t) BY DEF SameEntries
  <2> QED BY <2>1, <2>3, <2>4, <1>v DEF UnderflowKeeps
<1>3. b \in CallRecords BY <1>g, <1>v DEF CallRecords
<1>4. <<0, b>> \in I BY <1>2, <1>3
<1>5. \A n \in 0 .. Calls(t) - 1 : \A c \in CallRecords : <<n, c>> \in I => <<n + 1, Underflow(c)>> \in I
  <2>1. SUFFICES ASSUME NEW n \in Nat, NEW c \in CallRecords, UnderflowKeeps(t, H, n, c)
                 PROVE  Underflow(c) \in CallRecords /\ UnderflowKeeps(t, H, n + 1, Underflow(c))
    BY <1>1, <1>h
  <2> QED BY <2>1, <1>h, UnderflowStep
<1>6. I \subseteq Nat \X CallRecords OBVIOUS
<1>7. \E c \in CallRecords : <<Calls(t), c>> \in I /\ SolveUnderflow(t, v) = c.tree
  <2> HIDE DEF I
  <2>1. Calls(t) \in Nat BY <1>1, <1>h
  <2> QED BY <2>1, <1>g, <1>v, <1>4, <1>5, <1>6, SolveUnderflowIs
<1>8. PICK c \in CallRecords : <<Calls(t), c>> \in I /\ SolveUnderflow(t, v) = c.tree BY <1>7
<1>9. UnderflowKeeps(t, H, H + 1, c) BY <1>8, <1>1
<1>11. c.at = 0
  <2>1. SUFFICES ASSUME c.at # 0 PROVE FALSE OBVIOUS
  <2>2. PICK N2, h2, nx2, pv2 : /\ Good(c.tree, N2, h2, nx2, pv2)
                                /\ Descending(c.tree, c.at, N2, h2, H, H + 1)
    BY <2>1, <1>9 DEF UnderflowKeeps
  <2>3. c.at \in N2 /\ h2[c.at] = (H + 1) + 1 /\ h2[c.tree.root] = H BY <2>2 DEF Descending
  <2>4. Shape(c.tree, N2, h2) BY <2>2 DEF Good
  <2>5. N2 \subseteq Pages BY <2>4, ShapeFacts
  <2>6. h2 \in [Pages -> 0 .. h2[c.tree.root]] BY <2>4, RootHighest
  <2>7. h2[c.at] \in 0 .. h2[c.tree.root] BY <2>3, <2>5, <2>6
  <2> QED BY <2>3, <2>7, <1>h
<1> QED BY <1>8, <1>9, <1>11 DEF UnderflowKeeps

==============================================================================
