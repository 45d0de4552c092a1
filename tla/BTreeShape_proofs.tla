-------------------------- MODULE BTreeShape_proofs --------------------------
(***************************************************************************)
(* The pages of an index file as a tree, for every set of entries, limit   *)
(* of items in a node and size of the file: what the nodes, their levels,  *)
(* the rows of the levels and the free list are, what the changes of a     *)
(* node, a split, a merge, a borrow and a new root do to them, and what it *)
(* means that the leaves have the same entries.                            *)
(*                                                                         *)
(* The nodes N, the level h of each, and the neighbours nx and pv of each  *)
(* on its level are not fields of the file: they are what the proofs say   *)
(* of the pages.                                                           *)
(***************************************************************************)
EXTENDS BTree, FiniteSetTheorems, SequenceTheorems, WellFoundedInduction, TLAPS

(* A set of numbers has a least one.                                       *)
LEMMA LeastExists ==
  ASSUME NEW S \in SUBSET Nat, S # {}
  PROVE  \E n \in S : \A m \in S : n <= m
<1> DEFINE R == {ss \in Nat \X Nat : ss[1] < ss[2]}
<1>1. IsWellFoundedOn(R, Nat)
  BY NatLessThanWellFounded DEF OpToRel
<1>2. PICK n \in S : \A m \in S : <<m, n>> \notin R
  <2> HIDE DEF R
  <2> QED
    BY <1>1, WFMin
<1>3. \A m \in S : m \in Nat /\ n \in Nat /\ ~(m < n)
  BY <1>2
<1> QED
  BY <1>3

(* A set of numbers with 0 and the successor of each is all of them.       *)
LEMMA Induction ==
  ASSUME NEW S \in SUBSET Nat, 0 \in S, \A n \in S : n + 1 \in S
  PROVE  S = Nat
<1> SUFFICES ASSUME Nat \ S # {} PROVE FALSE
  OBVIOUS
<1>1. PICK n \in Nat \ S : \A m \in Nat \ S : n <= m
  <2> DEFINE T == Nat \ S
  <2>1. T \in SUBSET Nat /\ T # {}
    OBVIOUS
  <2> HIDE DEF T
  <2>2. \E n \in T : \A m \in T : n <= m
    BY <2>1, LeastExists
  <2> QED BY <2>2 DEF T
<1>2. n # 0 /\ n - 1 \in Nat /\ ~(n <= n - 1)
  BY <1>1
<1>3. n - 1 \in S
  BY <1>1, <1>2
<1> QED
  BY <1>1, <1>2, <1>3

IsRecursion(S, X, b, h, G) ==
  /\ X # {}
  /\ b \in Nat
  /\ h \in [S -> 0 .. b]
  /\ G \in [S \X [S -> X] -> X]
  /\ \A v \in S : \A f, g \in [S -> X] :
       (\A w \in S : h[w] < h[v] => f[w] = g[w]) => G[<<v, f>>] = G[<<v, g>>]

(* A recursion over levels defines a function: what G answers for v        *)
(* depends only on what the function is below v.                           *)
LEMMA RecursionExists ==
  ASSUME NEW S, NEW X, NEW b, NEW h, NEW G, IsRecursion(S, X, b, h, G)
  PROVE  \E f \in [S -> X] : \A v \in S : f[v] = G[<<v, f>>]
<1> USE DEF IsRecursion
<1> DEFINE Upto(n, f) == \A v \in S : h[v] < n => f[v] = G[<<v, f>>]
           T == {n \in Nat : \E f \in [S -> X] : Upto(n, f)}
<1>1. 0 \in T
  <2>1. PICK x \in X : TRUE
    OBVIOUS
  <2>2. [v \in S |-> x] \in [S -> X]
    OBVIOUS
  <2>3. Upto(0, [v \in S |-> x])
    OBVIOUS
  <2> QED
    BY <2>2, <2>3
<1>2. ASSUME NEW n \in T
      PROVE  n + 1 \in T
  <2>1. PICK f \in [S -> X] : Upto(n, f)
    BY <1>2
  <2> DEFINE g == [v \in S |-> IF h[v] < n THEN f[v] ELSE G[<<v, f>>]]
  <2>2. g \in [S -> X]
    OBVIOUS
  <2>3. ASSUME NEW v \in S, h[v] < n + 1
        PROVE  g[v] = G[<<v, g>>]
    <3>1. g[v] = G[<<v, f>>]
      BY <2>1
    <3>2. \A w \in S : h[w] < h[v] => f[w] = g[w]
      <4>1. \A w \in S : h[w] \in Nat
        OBVIOUS
      <4> QED BY <2>3, <4>1
    <3> HIDE DEF g
    <3>3. G[<<v, f>>] = G[<<v, g>>]
      BY <3>2, <2>2
    <3> QED
      BY <3>1, <3>3
  <2> HIDE DEF g
  <2>4. Upto(n + 1, g)
    BY <2>3
  <2> QED
    BY <2>2, <2>4
<1>3. T = Nat
  <2> HIDE DEF T
  <2>1. T \in SUBSET Nat
    BY DEF T
  <2> QED
    BY <1>1, <1>2, <2>1, Induction
<1>4. PICK f \in [S -> X] : Upto(b + 1, f)
  <2>1. b + 1 \in T
    <3> HIDE DEF T
    <3> QED
      BY <1>3
  <2> QED BY <2>1
<1>5. \A v \in S : h[v] < b + 1
  OBVIOUS
<1> QED
  BY <1>4, <1>5

(***************************************************************************)
(* Sequences                                                               *)
(***************************************************************************)

(* What the community operators on sequences do, place by place.           *)
LEMMA InsertAtIs ==
  ASSUME NEW S, NEW s \in Seq(S), NEW r \in 1 .. Len(s) + 1, NEW e \in S
  PROVE  /\ InsertAt(s, r, e) \in Seq(S)
         /\ Len(InsertAt(s, r, e)) = Len(s) + 1
         /\ \A i \in 1 .. Len(s) + 1 :
              InsertAt(s, r, e)[i] = IF i < r THEN s[i] ELSE IF i = r THEN e ELSE s[i - 1]
<1> DEFINE a == SubSeq(s, 1, r - 1)
           b == SubSeq(s, r, Len(s))
<1>1. Len(s) \in Nat /\ r \in Nat /\ r >= 1 /\ r <= Len(s) + 1
      /\ \A i \in 1 .. Len(s) : s[i] \in S
  BY LenProperties, ElementOfSeq
<1>2. a \in Seq(S) /\ Len(a) = r - 1 /\ \A i \in 1 .. r - 1 : a[i] = s[i]
  <2>1. \A i \in 1 .. r - 1 : s[i] \in S
    BY <1>1
  <2> QED
    BY <1>1, <2>1, SubSeqProperties
<1>3. b \in Seq(S) /\ Len(b) = Len(s) - r + 1 /\ \A i \in 1 .. Len(s) - r + 1 : b[i] = s[r + i - 1]
  <2>1. \A i \in r .. Len(s) : s[i] \in S
    BY <1>1
  <2> QED
    BY <1>1, <2>1, SubSeqProperties
<1>4. <<e>> \in Seq(S) /\ Len(<<e>>) = 1 /\ <<e>>[1] = e
  OBVIOUS
<1> DEFINE c == a \o <<e>>
<1> HIDE DEF a, b
<1>5. c \in Seq(S) /\ Len(c) = r /\ \A i \in 1 .. r : c[i] = IF i < r THEN s[i] ELSE e
  BY <1>1, <1>2, <1>4, ConcatProperties
<1> HIDE DEF c
<1>6. /\ c \o b \in Seq(S)
      /\ Len(c \o b) = Len(s) + 1
      /\ \A i \in 1 .. Len(s) + 1 : (c \o b)[i] = IF i <= r THEN c[i] ELSE b[i - r]
  <2>1. Len(c) + Len(b) = Len(s) + 1
    BY <1>1, <1>3, <1>5
  <2>2. /\ c \o b \in Seq(S)
        /\ Len(c \o b) = Len(c) + Len(b)
        /\ \A i \in 1 .. Len(c) + Len(b) : (c \o b)[i] = IF i <= Len(c) THEN c[i] ELSE b[i - Len(c)]
    BY <1>3, <1>5, ConcatProperties
  <2> QED
    BY <1>5, <2>1, <2>2
<1>7. InsertAt(s, r, e) = c \o b
  BY DEF InsertAt, a, b, c
<1> DEFINE d == c \o b
<1> HIDE DEF d
<1>8. ASSUME NEW i \in 1 .. Len(s) + 1
      PROVE  d[i] = IF i < r THEN s[i] ELSE IF i = r THEN e ELSE s[i - 1]
  <2>1. i <= r => i \in 1 .. r
    BY <1>1
  <2>2. i > r => i - r \in 1 .. Len(s) - r + 1 /\ r + (i - r) - 1 = i - 1
    BY <1>1
  <2>3. CASE i <= r
    BY <1>1, <1>5, <1>6, <2>1, <2>3 DEF d
  <2>4. CASE i > r
    <3>1. d[i] = b[i - r]
      BY <1>1, <1>6, <2>4 DEF d
    <3>2. b[i - r] = s[i - 1]
      BY <1>3, <2>2, <2>4
    <3> QED
      BY <1>1, <2>4, <3>1, <3>2
  <2> QED
    BY <1>1, <2>3, <2>4
<1> QED
  BY <1>6, <1>7, <1>8 DEF d

(* A sequence without its element at r.                                    *)
LEMMA RemoveAtIs ==
  ASSUME NEW S, NEW s \in Seq(S), NEW r \in 1 .. Len(s)
  PROVE  /\ RemoveAt(s, r) \in Seq(S)
         /\ Len(RemoveAt(s, r)) = Len(s) - 1
         /\ \A i \in 1 .. Len(s) - 1 : RemoveAt(s, r)[i] = IF i < r THEN s[i] ELSE s[i + 1]
<1> DEFINE a == SubSeq(s, 1, r - 1)
           b == SubSeq(s, r + 1, Len(s))
<1>1. Len(s) \in Nat /\ r \in Nat /\ r >= 1 /\ r <= Len(s)
      /\ \A i \in 1 .. Len(s) : s[i] \in S
  BY LenProperties, ElementOfSeq
<1>2. a \in Seq(S) /\ Len(a) = r - 1 /\ \A i \in 1 .. r - 1 : a[i] = s[i]
  <2>1. \A i \in 1 .. r - 1 : s[i] \in S
    BY <1>1
  <2> QED
    BY <1>1, <2>1, SubSeqProperties
<1>3. b \in Seq(S) /\ Len(b) = Len(s) - r /\ \A i \in 1 .. Len(s) - r : b[i] = s[r + i]
  <2>1. \A i \in r + 1 .. Len(s) : s[i] \in S
    BY <1>1
  <2> QED
    BY <1>1, <2>1, SubSeqProperties
<1> HIDE DEF a, b
<1>4. /\ a \o b \in Seq(S)
      /\ Len(a \o b) = Len(s) - 1
      /\ \A i \in 1 .. Len(s) - 1 : (a \o b)[i] = IF i <= r - 1 THEN a[i] ELSE b[i - (r - 1)]
  BY <1>1, <1>2, <1>3, ConcatProperties
<1>5. RemoveAt(s, r) = a \o b
  BY DEF RemoveAt, a, b
<1> DEFINE d == a \o b
<1> HIDE DEF d
<1>6. ASSUME NEW i \in 1 .. Len(s) - 1
      PROVE  d[i] = IF i < r THEN s[i] ELSE s[i + 1]
  <2>1. i < r => i \in 1 .. r - 1
    BY <1>1
  <2>2. i >= r => i - (r - 1) \in 1 .. Len(s) - r /\ r + (i - (r - 1)) = i + 1
    BY <1>1
  <2>3. CASE i < r
    BY <1>1, <1>2, <1>4, <2>1, <2>3 DEF d
  <2>4. CASE i >= r
    <3>1. d[i] = b[i - (r - 1)]
      BY <1>1, <1>4, <2>4 DEF d
    <3>2. b[i - (r - 1)] = s[i + 1]
      BY <1>3, <2>2, <2>4
    <3> QED
      BY <1>1, <2>4, <3>1, <3>2
  <2> QED
    BY <1>1, <2>3, <2>4
<1> QED
  BY <1>4, <1>5, <1>6 DEF d

(* The two parts of a sequence.                                            *)
LEMMA HalvesAre ==
  ASSUME NEW S, NEW s \in Seq(S), NEW n \in 1 .. Len(s)
  PROVE  /\ SubSeq(s, 1, n) \in Seq(S)
         /\ Len(SubSeq(s, 1, n)) = n
         /\ \A i \in 1 .. n : SubSeq(s, 1, n)[i] = s[i]
         /\ SubSeq(s, n + 1, Len(s)) \in Seq(S)
         /\ Len(SubSeq(s, n + 1, Len(s))) = Len(s) - n
         /\ \A i \in 1 .. Len(s) - n : SubSeq(s, n + 1, Len(s))[i] = s[n + i]
<1>1. Len(s) \in Nat /\ n \in Nat /\ n >= 1 /\ n <= Len(s)
      /\ \A i \in 1 .. Len(s) : s[i] \in S
  BY LenProperties, ElementOfSeq
<1>2. \A i \in 1 .. n : s[i] \in S
  BY <1>1
<1>3. \A i \in n + 1 .. Len(s) : s[i] \in S
  BY <1>1
<1>4. SubSeq(s, 1, n) \in Seq(S) /\ Len(SubSeq(s, 1, n)) = n
      /\ \A i \in 1 .. n : SubSeq(s, 1, n)[i] = s[i]
  BY <1>1, <1>2, SubSeqProperties
<1> QED
  BY <1>1, <1>3, <1>4, SubSeqProperties

(* A sequence behind an element.                                           *)
LEMMA ConsIs ==
  ASSUME NEW S, NEW s \in Seq(S), NEW e \in S
  PROVE  /\ <<e>> \o s \in Seq(S)
         /\ Len(<<e>> \o s) = Len(s) + 1
         /\ \A i \in 1 .. Len(s) + 1 : (<<e>> \o s)[i] = IF i = 1 THEN e ELSE s[i - 1]
<1>1. <<e>> \in Seq(S) /\ Len(<<e>>) = 1 /\ <<e>>[1] = e
  OBVIOUS
<1>2. Len(s) \in Nat
  BY LenProperties
<1> QED
  BY <1>1, <1>2, ConcatProperties

Kids(t, v)    == Len(Childs(t, v))

Kid(t, v, i)  == Childs(t, v)[i]

Size(t, v)    == Len(Items(t, v))

Item(t, v, i) == Items(t, v)[i]

Leaf(t, v)    == t.node[v].leaf

Left(t, v)    == t.node[v].left

Right(t, v)   == t.node[v].right

(***************************************************************************)
(* Trees of pages: N are the nodes, h gives the level of each.             *)
(***************************************************************************)

ShapeNodes(t, N) ==
  /\ N \subseteq Pages
  /\ t.root \in N
  /\ Parent(t, t.root) = NULL_NODE
  /\ \A v \in Pages : Kids(t, v) \in Nat
  /\ \A v \in Pages \ N : Kids(t, v) = 0

ShapeDown(t, N) ==
  \A v \in N : \A i \in 1 .. Kids(t, v) :
    Kid(t, v, i) \in N /\ Parent(t, Kid(t, v, i)) = v

ShapeOnce(t, N) ==
  \A v \in N : \A i, j \in 1 .. Kids(t, v) : Kid(t, v, i) = Kid(t, v, j) => i = j

IsChild(t, p, v) == \E i \in 1 .. Kids(t, p) : Kid(t, p, i) = v

ShapeUp(t, N) ==
  \A v \in N \ {t.root} : Parent(t, v) \in N /\ IsChild(t, Parent(t, v), v)

ShapeLevels(t, N, h) ==
  /\ h \in [Pages -> Nat]
  /\ \A v \in Pages \ N : h[v] = 0
  /\ \A v \in N : /\ h[v] >= 1
                  /\ Kids(t, v) = 0 => h[v] = 1
                  /\ \A i \in 1 .. Kids(t, v) : h[v] = h[Kid(t, v, i)] + 1

Shape(t, N, h) ==
  ShapeNodes(t, N) /\ ShapeDown(t, N) /\ ShapeOnce(t, N) /\ ShapeUp(t, N) /\ ShapeLevels(t, N, h)

(* t2 is t with the last children of v, from place k + 1 on, under a new   *)
(* node u, which is the child behind v of v's parent p.                    *)
Parted(t, t2, v, u, p, r, k) ==
  /\ t2.root = t.root
  /\ Kids(t2, v) = k
  /\ \A i \in 1 .. k : Kid(t2, v, i) = Kid(t, v, i)
  /\ Kids(t2, u) = Kids(t, v) - k
  /\ \A i \in 1 .. Kids(t, v) - k : Kid(t2, u, i) = Kid(t, v, k + i)
  /\ Kids(t2, p) = Kids(t, p) + 1
  /\ \A i \in 1 .. r : Kid(t2, p, i) = Kid(t, p, i)
  /\ Kid(t2, p, r + 1) = u
  /\ \A i \in r + 2 .. Kids(t, p) + 1 : Kid(t2, p, i) = Kid(t, p, i - 1)
  /\ \A x \in Pages \ {v, u, p} : Kids(t2, x) = Kids(t, x)
  /\ \A x \in Pages \ {v, u, p} : \A i \in 1 .. Kids(t, x) : Kid(t2, x, i) = Kid(t, x, i)
  /\ Parent(t2, u) = p
  /\ \A j \in k + 1 .. Kids(t, v) : Parent(t2, Kid(t, v, j)) = u
  /\ \A x \in Pages \ {u} :
       (\A j \in k + 1 .. Kids(t, v) : Kid(t, v, j) # x) => Parent(t2, x) = Parent(t, x)

(* What a part of the tree is cut into.                                    *)
Cut(k, n) == k \in Nat /\ ((k = 0 /\ n = 0) \/ (1 <= k /\ k < n))

(* A part of the children under a new node: the pages are still a tree.    *)
LEMMA PartedShape ==
  ASSUME NEW t, NEW t2, NEW N, NEW h, Shape(t, N, h),
         NEW v \in N, NEW u \in Pages \ N, NEW p \in N,
         NEW r \in 1 .. Kids(t, p), Kid(t, p, r) = v,
         NEW k, Cut(k, Kids(t, v)),
         Parted(t, t2, v, u, p, r, k)
  PROVE  Shape(t2, N \cup {u}, [h EXCEPT ![u] = h[v]])
<1> DEFINE N2 == N \cup {u}
           h2 == [h EXCEPT ![u] = h[v]]
<1>n. /\ N \subseteq Pages /\ u \notin N /\ u \in Pages
      /\ t.root \in N /\ Parent(t, t.root) = 0 /\ 0 \notin Pages
      /\ \A x \in Pages : Kids(t, x) \in Nat
      /\ \A x \in Pages \ N : Kids(t, x) = 0
  BY DEF Shape, ShapeNodes, Pages, NULL_NODE
<1>d. \A x \in N : \A i \in 1 .. Kids(t, x) : Kid(t, x, i) \in N /\ Parent(t, Kid(t, x, i)) = x
  BY DEF Shape, ShapeDown
<1>o. \A x \in N : \A i, j \in 1 .. Kids(t, x) : Kid(t, x, i) = Kid(t, x, j) => i = j
  BY DEF Shape, ShapeOnce
<1>u. \A x \in N \ {t.root} : Parent(t, x) \in N /\ \E i \in 1 .. Kids(t, Parent(t, x)) : Kid(t, Parent(t, x), i) = x
  BY DEF Shape, ShapeUp, IsChild
<1>h. /\ h \in [Pages -> Nat]
      /\ \A x \in Pages \ N : h[x] = 0
      /\ \A x \in N : h[x] >= 1 /\ (Kids(t, x) = 0 => h[x] = 1)
      /\ \A x \in N : \A i \in 1 .. Kids(t, x) : h[x] = h[Kid(t, x, i)] + 1
  BY DEF Shape, ShapeLevels
<1>k. k \in Nat /\ ((k = 0 /\ Kids(t, v) = 0) \/ (1 <= k /\ k < Kids(t, v)))
  BY DEF Cut
<1>r. r \in Nat /\ 1 <= r /\ r <= Kids(t, p) /\ Kid(t, p, r) = v /\ Kids(t, p) \in Nat
  BY <1>n
<1>a. t2.root = t.root
  BY DEF Parted
<1>b. Kids(t2, v) = k /\ \A i \in 1 .. k : Kid(t2, v, i) = Kid(t, v, i)
  BY DEF Parted
<1>c. /\ Kids(t2, u) = Kids(t, v) - k
      /\ \A i \in 1 .. Kids(t, v) - k : Kid(t2, u, i) = Kid(t, v, k + i)
  BY DEF Parted
<1>e. /\ Kids(t2, p) = Kids(t, p) + 1
      /\ \A i \in 1 .. r : Kid(t2, p, i) = Kid(t, p, i)
      /\ Kid(t2, p, r + 1) = u
      /\ \A i \in r + 2 .. Kids(t, p) + 1 : Kid(t2, p, i) = Kid(t, p, i - 1)
  BY DEF Parted
<1>f. /\ \A x \in Pages \ {v, u, p} : Kids(t2, x) = Kids(t, x)
      /\ \A x \in Pages \ {v, u, p} : \A i \in 1 .. Kids(t, x) : Kid(t2, x, i) = Kid(t, x, i)
  BY DEF Parted
<1>g. /\ Parent(t2, u) = p
      /\ \A j \in k + 1 .. Kids(t, v) : Parent(t2, Kid(t, v, j)) = u
      /\ \A x \in Pages \ {u} :
           (\A j \in k + 1 .. Kids(t, v) : Kid(t, v, j) # x) => Parent(t2, x) = Parent(t, x)
  BY DEF Parted
<1>v. Parent(t, v) = p /\ h[p] = h[v] + 1 /\ p # v /\ v # t.root /\ v # u /\ p # u
      /\ Kids(t, v) \in Nat
  BY <1>n, <1>d, <1>h, <1>r
<1>3. \A x \in Pages : h2[x] = IF x = u THEN h[v] ELSE h[x]
  BY <1>h
<1>4. h2 \in [Pages -> Nat] /\ N2 \subseteq Pages
  BY <1>h, <1>n
<1> HIDE DEF h2
\* A page that is no child of v keeps its parent.
<1>m. ASSUME NEW x \in Pages, x # u, Parent(t, x) # v
      PROVE  Parent(t2, x) = Parent(t, x)
  <2>1. \A j \in k + 1 .. Kids(t, v) : Kid(t, v, j) # x
    BY <1>d, <1>k, <1>v, <1>m
  <2> QED
    BY <2>1, <1>g, <1>m
\* Each child in the new tree, with its old place.
<1>5. ASSUME NEW x \in N2, NEW i \in 1 .. Kids(t2, x)
      PROVE  /\ Kid(t2, x, i) \in N2 /\ Parent(t2, Kid(t2, x, i)) = x
             /\ h2[x] = h2[Kid(t2, x, i)] + 1
  <2>1. CASE x = v
    <3>1. i \in 1 .. k /\ i \in 1 .. Kids(t, v) /\ Kid(t2, x, i) = Kid(t, v, i)
      BY <1>b, <1>k, <1>v, <2>1
    <3>2. Kid(t, v, i) \in N /\ Parent(t, Kid(t, v, i)) = v /\ h[v] = h[Kid(t, v, i)] + 1
      BY <3>1, <1>d, <1>h
    <3>3. \A j \in k + 1 .. Kids(t, v) : Kid(t, v, j) # Kid(t, v, i)
      <4>1. \A j \in k + 1 .. Kids(t, v) : j \in 1 .. Kids(t, v) /\ j # i
        BY <3>1, <1>k, <1>v
      <4> QED BY <4>1, <3>1, <1>o
    <3>4. Kid(t, v, i) \in Pages \ {u}
      BY <3>2, <1>n
    <3>5. Parent(t2, Kid(t, v, i)) = v
      BY <3>2, <3>3, <3>4, <1>g
    <3> QED
      BY <1>3, <1>n, <1>v, <2>1, <3>1, <3>2, <3>4, <3>5
  <2>2. CASE x = u
    <3>1. k + i \in k + 1 .. Kids(t, v) /\ k + i \in 1 .. Kids(t, v) /\ Kid(t2, x, i) = Kid(t, v, k + i)
      BY <1>c, <1>k, <1>v, <2>2
    <3>2. Kid(t, v, k + i) \in N /\ h[v] = h[Kid(t, v, k + i)] + 1
      BY <3>1, <1>d, <1>h
    <3>3. Parent(t2, Kid(t, v, k + i)) = u
      BY <3>1, <1>g
    <3>4. Kid(t, v, k + i) \in Pages \ {u}
      BY <3>2, <1>n
    <3> QED
      BY <1>3, <1>n, <2>2, <3>1, <3>2, <3>3, <3>4
  <2>3. CASE x = p
    <3>2. CASE i = r + 1
      <4>1. Kid(t2, x, i) = u
        BY <2>3, <1>e, <3>2
      <4> QED
        BY <1>n, <1>v, <1>3, <1>g, <2>3, <4>1
    <3>3. CASE i # r + 1
      <4>1. PICK j \in 1 .. Kids(t, p) : Kid(t2, x, i) = Kid(t, p, j)
        <5>1. CASE i <= r
          <6>1. i \in 1 .. r /\ i \in 1 .. Kids(t, p)
            BY <1>e, <1>r, <2>3, <5>1
          <6> QED BY <6>1, <1>e, <2>3
        <5>2. CASE i > r
          <6>1. i \in r + 2 .. Kids(t, p) + 1 /\ i - 1 \in 1 .. Kids(t, p)
            BY <1>e, <1>r, <2>3, <3>3, <5>2
          <6> QED BY <6>1, <1>e, <2>3
        <5> QED
          BY <1>e, <1>r, <2>3, <5>1, <5>2
      <4>2. Kid(t, p, j) \in N /\ Parent(t, Kid(t, p, j)) = p /\ h[p] = h[Kid(t, p, j)] + 1
        BY <1>d, <1>h
      <4>3. Kid(t, p, j) \in Pages \ {u} /\ Parent(t2, Kid(t, p, j)) = p
        BY <4>2, <1>n, <1>m, <1>v
      <4> QED
        BY <1>n, <1>v, <1>3, <2>3, <4>1, <4>2, <4>3
    <3> QED
      BY <3>2, <3>3
  <2>4. CASE x \notin {v, u, p}
    <3>1. x \in N /\ x \in Pages \ {v, u, p} /\ i \in 1 .. Kids(t, x) /\ Kid(t2, x, i) = Kid(t, x, i)
      BY <1>n, <1>f, <2>4
    <3>2. Kid(t, x, i) \in N /\ Parent(t, Kid(t, x, i)) = x /\ h[x] = h[Kid(t, x, i)] + 1
      BY <3>1, <1>d, <1>h
    <3>3. Kid(t, x, i) \in Pages \ {u} /\ Parent(t2, Kid(t, x, i)) = x
      BY <2>4, <3>2, <1>n, <1>m
    <3> QED
      BY <1>n, <1>3, <2>4, <3>1, <3>2, <3>3
  <2> QED
    BY <2>1, <2>2, <2>3, <2>4
<1>6. ShapeNodes(t2, N2)
  <2>2. Parent(t2, t2.root) = NULL_NODE
    BY <1>n, <1>a, <1>m DEF NULL_NODE
  <2>3. \A x \in Pages : Kids(t2, x) \in Nat
    <3>1. Kids(t, v) \in Nat /\ Kids(t, p) \in Nat /\ Kids(t, v) - k \in Nat BY <1>n, <1>k, <1>v
    <3> QED BY <3>1, <1>n, <1>b, <1>c, <1>e, <1>f, <1>k, <1>v
  <2>4. \A x \in Pages \ N2 : Kids(t2, x) = 0
    BY <1>n, <1>f
  <2> QED
    BY <1>4, <1>a, <1>n, <2>2, <2>3, <2>4 DEF ShapeNodes
<1>7. ShapeDown(t2, N2)
  BY <1>5 DEF ShapeDown
<1>8. ShapeLevels(t2, N2, h2)
  <2>1. \A x \in Pages \ N2 : h2[x] = 0
    BY <1>3, <1>h
  <2>2. \A x \in N2 : h2[x] >= 1
    BY <1>3, <1>4, <1>h
  <2>3. ASSUME NEW x \in N2, Kids(t2, x) = 0
        PROVE  h2[x] = 1
    <3>2. CASE x \in {v, u}
      <4>1. Kids(t, v) = 0
        BY <3>2, <2>3, <1>b, <1>c, <1>k, <1>v
      <4> QED
        BY <4>1, <3>2, <1>3, <1>4, <1>h, <1>v
    <3>3. CASE x = p
      BY <1>e, <1>r, <2>3, <3>3
    <3>4. CASE x \notin {v, u, p}
      BY <1>n, <1>3, <1>f, <1>h, <2>3, <3>4
    <3> QED
      BY <3>2, <3>3, <3>4
  <2> QED
    BY <1>4, <1>5, <2>1, <2>2, <2>3 DEF ShapeLevels
<1>9. ShapeOnce(t2, N2)
  <2> SUFFICES ASSUME NEW x \in N2, NEW i \in 1 .. Kids(t2, x), NEW j \in 1 .. Kids(t2, x),
                      Kid(t2, x, i) = Kid(t2, x, j)
               PROVE  i = j
    BY DEF ShapeOnce
  <2>1. CASE x = v
    <3>1. i \in 1 .. k /\ j \in 1 .. k /\ i \in 1 .. Kids(t, v) /\ j \in 1 .. Kids(t, v)
      BY <1>b, <1>k, <1>v, <2>1
    <3> QED
      BY <1>o, <1>b, <2>1, <3>1
  <2>2. CASE x = u
    <3>1. /\ k + i \in 1 .. Kids(t, v) /\ k + j \in 1 .. Kids(t, v)
          /\ Kid(t2, x, i) = Kid(t, v, k + i) /\ Kid(t2, x, j) = Kid(t, v, k + j)
      BY <1>c, <1>k, <1>v, <2>2
    <3>2. k + i = k + j
      BY <1>o, <3>1
    <3> QED
      BY <3>2, <1>k
  <2>3. CASE x = p
    <3> DEFINE old(m) == IF m <= r THEN m ELSE m - 1
    <3>1. ASSUME NEW m \in 1 .. Kids(t2, x)
          PROVE  /\ m = r + 1 => Kid(t2, x, m) = u
                 /\ m # r + 1 => old(m) \in 1 .. Kids(t, p) /\ Kid(t2, x, m) = Kid(t, p, old(m))
      <4>1. m <= r => m \in 1 .. r /\ m \in 1 .. Kids(t, p)
        BY <1>r
      <4>2. m > r /\ m # r + 1 => m \in r + 2 .. Kids(t, p) + 1 /\ m - 1 \in 1 .. Kids(t, p)
        BY <1>r, <1>e, <2>3
      <4> QED
        BY <1>r, <1>e, <2>3, <4>1, <4>2
    <3>2. \A m \in 1 .. Kids(t, p) : Kid(t, p, m) # u
      BY <1>n, <1>d
    <3>3. CASE i = r + 1 \/ j = r + 1
      <4> HIDE DEF old
      <4> QED BY <3>1, <3>2, <3>3
    <3>4. CASE i # r + 1 /\ j # r + 1
      <4>1. old(i) = old(j)
        <5> HIDE DEF old
        <5> QED BY <1>o, <3>1, <3>4
      <4> QED
        BY <1>r, <3>4, <4>1
    <3> QED
      BY <3>3, <3>4
  <2>4. CASE x \notin {v, u, p}
    BY <1>n, <1>o, <1>f, <2>4
  <2> QED
    BY <2>1, <2>2, <2>3, <2>4
<1>10. ShapeUp(t2, N2)
  <2> SUFFICES ASSUME NEW x \in N2, x # t.root
               PROVE  Parent(t2, x) \in N2 /\ \E i \in 1 .. Kids(t2, Parent(t2, x)) : Kid(t2, Parent(t2, x), i) = x
    BY <1>a DEF ShapeUp, IsChild
  <2>1. CASE x = u
    <3>1. r + 1 \in 1 .. Kids(t2, p)
      BY <1>e, <1>r
    <3> QED
      BY <2>1, <3>1, <1>e, <1>g
  <2>2. CASE x # u /\ \E j \in k + 1 .. Kids(t, v) : Kid(t, v, j) = x
    <3>1. PICK j \in k + 1 .. Kids(t, v) : Kid(t, v, j) = x
      BY <2>2
    <3>2. /\ j - k \in 1 .. Kids(t2, u) /\ j - k \in 1 .. Kids(t, v) - k
          /\ k + (j - k) = j
      BY <1>c, <1>k, <1>v
    <3>4. Kid(t2, u, j - k) = x
      BY <1>c, <3>1, <3>2
    <3>3. Parent(t2, x) = u
      BY <1>g, <3>1
    <3> QED
      BY <3>2, <3>3, <3>4
  <2>3. CASE x # u /\ \A j \in k + 1 .. Kids(t, v) : Kid(t, v, j) # x
    <3> DEFINE q == Parent(t, x)
    <3>1. Parent(t2, x) = q /\ x \in N
      BY <1>n, <1>g, <2>3
    <3>2. q \in N
      BY <3>1, <1>u
    <3>3. PICK i \in 1 .. Kids(t, q) : Kid(t, q, i) = x
      BY <3>1, <1>u
    <3> HIDE DEF q
    <3>4. \E j \in 1 .. Kids(t2, q) : Kid(t2, q, j) = x
      <4>1. CASE q = v
        <5>1. i \in 1 .. k
          BY <1>k, <1>v, <2>3, <3>3, <4>1
        <5> QED BY <5>1, <1>b, <3>3, <4>1
      <4>2. CASE q = p
        <5>1. CASE i <= r
          <6>1. i \in 1 .. Kids(t2, p) /\ i \in 1 .. r
            BY <1>r, <1>e, <5>1, <4>2
          <6> QED BY <6>1, <1>e, <3>3, <4>2
        <5>2. CASE i > r
          <6>1. i + 1 \in r + 2 .. Kids(t, p) + 1 /\ (i + 1) - 1 = i /\ i + 1 \in 1 .. Kids(t2, p)
            BY <1>r, <1>e, <5>2, <4>2
          <6>2. Kid(t2, p, i + 1) = x
            BY <6>1, <1>e, <3>3, <4>2
          <6> QED BY <6>1, <6>2, <4>2
        <5> QED
          BY <1>r, <4>2, <5>1, <5>2
      <4>3. CASE q \notin {v, p}
        BY <1>n, <1>f, <3>2, <3>3, <4>3
      <4> QED
        BY <4>1, <4>2, <4>3
    <3> QED
      BY <3>1, <3>2, <3>4
  <2> QED
    BY <2>1, <2>2, <2>3
<1> QED
  BY <1>6, <1>7, <1>8, <1>9, <1>10 DEF Shape, h2

LinkEnds(t, N, h, nx, pv) ==
  /\ nx[t.root] = 0 /\ pv[t.root] = 0
  /\ \A v \in N : /\ nx[v] \in N \cup {0} /\ pv[v] \in N \cup {0}
                  /\ nx[v] # 0 => pv[nx[v]] = v /\ h[nx[v]] = h[v]
                  /\ pv[v] # 0 => nx[pv[v]] = v

LinkKids(t, N, nx) ==
  /\ \A v \in N : \A i \in 1 .. Kids(t, v) - 1 : nx[Kid(t, v, i)] = Kid(t, v, i + 1)
  /\ \A v \in N : Kids(t, v) > 0 =>
       nx[Kid(t, v, Kids(t, v))] = IF nx[v] = 0 THEN 0 ELSE Kid(t, nx[v], 1)

Links(t, N, h, nx, pv) == LinkEnds(t, N, h, nx, pv) /\ LinkKids(t, N, nx)

NextWith(nx, v, u) == [x \in Pages |-> IF x = v THEN u ELSE IF x = u THEN nx[v] ELSE nx[x]]

PrevWith(nx, pv, v, u) == [x \in Pages |-> IF x = u THEN v ELSE IF x = nx[v] THEN u ELSE pv[x]]

(* What a shape says, with its definitions expanded.                       *)
LEMMA ShapeFacts ==
  ASSUME NEW t, NEW N, NEW h, Shape(t, N, h)
  PROVE  /\ N \subseteq Pages /\ t.root \in N /\ Parent(t, t.root) = 0 /\ 0 \notin Pages
         /\ \A x \in Pages : Kids(t, x) \in Nat
         /\ \A x \in Pages \ N : Kids(t, x) = 0
         /\ \A x \in N : \A i \in 1 .. Kids(t, x) : Kid(t, x, i) \in N /\ Parent(t, Kid(t, x, i)) = x
         /\ \A x \in N : \A i, j \in 1 .. Kids(t, x) : Kid(t, x, i) = Kid(t, x, j) => i = j
         /\ \A x \in N \ {t.root} :
              Parent(t, x) \in N /\ \E i \in 1 .. Kids(t, Parent(t, x)) : Kid(t, Parent(t, x), i) = x
         /\ h \in [Pages -> Nat]
         /\ \A x \in Pages \ N : h[x] = 0
         /\ \A x \in N : h[x] >= 1 /\ (Kids(t, x) = 0 => h[x] = 1)
         /\ \A x \in N : \A i \in 1 .. Kids(t, x) : h[x] = h[Kid(t, x, i)] + 1
<1>1. /\ N \subseteq Pages /\ t.root \in N /\ Parent(t, t.root) = 0 /\ 0 \notin Pages
      /\ \A x \in Pages : Kids(t, x) \in Nat
      /\ \A x \in Pages \ N : Kids(t, x) = 0
  BY DEF Shape, ShapeNodes, Pages, NULL_NODE
<1>2. \A x \in N : \A i \in 1 .. Kids(t, x) : Kid(t, x, i) \in N /\ Parent(t, Kid(t, x, i)) = x
  BY DEF Shape, ShapeDown
<1>3. \A x \in N : \A i, j \in 1 .. Kids(t, x) : Kid(t, x, i) = Kid(t, x, j) => i = j
  BY DEF Shape, ShapeOnce
<1>4. \A x \in N \ {t.root} : Parent(t, x) \in N /\ \E i \in 1 .. Kids(t, Parent(t, x)) : Kid(t, Parent(t, x), i) = x
  BY DEF Shape, ShapeUp, IsChild
<1>5. /\ h \in [Pages -> Nat]
      /\ \A x \in Pages \ N : h[x] = 0
      /\ \A x \in N : h[x] >= 1 /\ (Kids(t, x) = 0 => h[x] = 1)
      /\ \A x \in N : \A i \in 1 .. Kids(t, x) : h[x] = h[Kid(t, x, i)] + 1
  BY DEF Shape, ShapeLevels
<1> QED
  BY <1>1, <1>2, <1>3, <1>4, <1>5

(* And the rows of its levels have the new node behind v.                  *)
LEMMA PartedLinks ==
  ASSUME NEW t, NEW t2, NEW N, NEW h, NEW nx, NEW pv,
         Shape(t, N, h), Links(t, N, h, nx, pv),
         NEW v \in N, NEW u \in Pages \ N, NEW p \in N,
         NEW r \in 1 .. Kids(t, p), Kid(t, p, r) = v,
         NEW k, Cut(k, Kids(t, v)),
         Parted(t, t2, v, u, p, r, k)
  PROVE  Links(t2, N \cup {u}, [h EXCEPT ![u] = h[v]], NextWith(nx, v, u), PrevWith(nx, pv, v, u))
<1> DEFINE N2 == N \cup {u}
           h2 == [h EXCEPT ![u] = h[v]]
           n2 == NextWith(nx, v, u)
           p2 == PrevWith(nx, pv, v, u)
<1>s. /\ N \subseteq Pages /\ t.root \in N /\ Parent(t, t.root) = 0 /\ 0 \notin Pages
      /\ \A x \in Pages : Kids(t, x) \in Nat
      /\ \A x \in N : \A i \in 1 .. Kids(t, x) : Kid(t, x, i) \in N /\ Parent(t, Kid(t, x, i)) = x
      /\ \A x \in N : \A i, j \in 1 .. Kids(t, x) : Kid(t, x, i) = Kid(t, x, j) => i = j
      /\ h \in [Pages -> Nat]
      /\ \A x \in N : h[x] >= 1 /\ (Kids(t, x) = 0 => h[x] = 1)
      /\ \A x \in N : \A i \in 1 .. Kids(t, x) : h[x] = h[Kid(t, x, i)] + 1
  BY ShapeFacts
<1>l. /\ nx[t.root] = 0 /\ pv[t.root] = 0
      /\ \A x \in N : /\ nx[x] \in N \cup {0} /\ pv[x] \in N \cup {0}
                      /\ nx[x] # 0 => pv[nx[x]] = x /\ h[nx[x]] = h[x]
                      /\ pv[x] # 0 => nx[pv[x]] = x
  BY DEF Links, LinkEnds
<1>q. /\ \A x \in N : \A i \in 1 .. Kids(t, x) - 1 : nx[Kid(t, x, i)] = Kid(t, x, i + 1)
      /\ \A x \in N : Kids(t, x) > 0 =>
           nx[Kid(t, x, Kids(t, x))] = IF nx[x] = 0 THEN 0 ELSE Kid(t, nx[x], 1)
  BY DEF Links, LinkKids
<1>k. k \in Nat /\ ((k = 0 /\ Kids(t, v) = 0) \/ (1 <= k /\ k < Kids(t, v)))
  BY DEF Cut
<1>r. r \in Nat /\ 1 <= r /\ r <= Kids(t, p) /\ Kid(t, p, r) = v /\ Kids(t, p) \in Nat
  BY <1>s
<1>b. Kids(t2, v) = k /\ \A i \in 1 .. k : Kid(t2, v, i) = Kid(t, v, i)
  BY DEF Parted
<1>c. /\ Kids(t2, u) = Kids(t, v) - k
      /\ \A i \in 1 .. Kids(t, v) - k : Kid(t2, u, i) = Kid(t, v, k + i)
  BY DEF Parted
<1>e. /\ Kids(t2, p) = Kids(t, p) + 1
      /\ \A i \in 1 .. r : Kid(t2, p, i) = Kid(t, p, i)
      /\ Kid(t2, p, r + 1) = u
      /\ \A i \in r + 2 .. Kids(t, p) + 1 : Kid(t2, p, i) = Kid(t, p, i - 1)
  BY DEF Parted
<1>f. /\ \A x \in Pages \ {v, u, p} : Kids(t2, x) = Kids(t, x)
      /\ \A x \in Pages \ {v, u, p} : \A i \in 1 .. Kids(t, x) : Kid(t2, x, i) = Kid(t, x, i)
      /\ t2.root = t.root
  BY DEF Parted
<1>v. /\ h[p] = h[v] + 1 /\ p # v /\ v # t.root /\ v # u /\ p # u /\ u # t.root /\ u \notin N
      /\ Kids(t, v) \in Nat /\ h[v] \in Nat
  BY <1>s, <1>r
<1>h. \A x \in Pages : h2[x] = IF x = u THEN h[v] ELSE h[x]
  BY <1>s
<1>n. \A x \in N2 : n2[x] = IF x = v THEN u ELSE IF x = u THEN nx[v] ELSE nx[x]
  BY <1>s DEF NextWith
<1>p. \A x \in N2 : p2[x] = IF x = u THEN v ELSE IF x = nx[v] THEN u ELSE pv[x]
  BY <1>s DEF PrevWith
<1> HIDE DEF h2, n2, p2
<1>1. LinkEnds(t2, N2, h2, n2, p2)
  <2>1. n2[t2.root] = 0 /\ p2[t2.root] = 0
    <3>1. t.root # nx[v]
      BY <1>l, <1>s
    <3> QED BY <3>1, <1>f, <1>l, <1>n, <1>p, <1>s, <1>v
  <2>2. ASSUME NEW x \in N2
        PROVE  /\ n2[x] \in N2 \cup {0}
               /\ n2[x] # 0 => p2[n2[x]] = x /\ h2[n2[x]] = h2[x]
    <3>1. CASE x = v
      BY <3>1, <1>n, <1>p, <1>h, <1>v, <1>s
    <3>2. CASE x = u
      BY <3>2, <1>n, <1>p, <1>h, <1>v, <1>l, <1>s
    <3>3. CASE x \in N \ {v}
      <4>1. nx[x] # 0 => nx[x] # nx[v]
        BY <3>3, <1>l
      <4> QED
        BY <4>1, <3>3, <1>n, <1>p, <1>h, <1>v, <1>l, <1>s
    <3> QED
      BY <3>1, <3>2, <3>3
  <2>3. ASSUME NEW x \in N2
        PROVE  p2[x] \in N2 \cup {0} /\ (p2[x] # 0 => n2[p2[x]] = x)
    <3>1. CASE x = u
      BY <3>1, <1>n, <1>p, <1>v
    <3>2. CASE x = nx[v] /\ x \in N
      BY <3>2, <1>n, <1>p, <1>v
    <3>3. CASE x \in N /\ x # nx[v]
      BY <3>3, <1>n, <1>p, <1>v, <1>l
    <3> QED
      BY <3>1, <3>2, <3>3
  <2> QED
    BY <2>1, <2>2, <2>3 DEF LinkEnds
\* A child of a node other than p keeps its neighbour.
<1>2. ASSUME NEW x \in N, x # p, NEW i \in 1 .. Kids(t, x)
      PROVE  n2[Kid(t, x, i)] = nx[Kid(t, x, i)]
  <2>1. Kid(t, x, i) \in N /\ Parent(t, Kid(t, x, i)) = x /\ Parent(t, v) = p
    BY <1>s, <1>r
  <2> QED
    BY <2>1, <1>2, <1>n, <1>v
\* The first child of a node stays, but for the new node.
<1>3. ASSUME NEW x \in N, Kids(t, x) > 0
      PROVE  Kid(t2, x, 1) = Kid(t, x, 1)
  <2>1. CASE x = v
    BY <2>1, <1>3, <1>b, <1>k, <1>v
  <2>2. CASE x = p
    BY <2>2, <1>e, <1>r
  <2>3. CASE x \notin {v, p}
    BY <2>3, <1>3, <1>f, <1>s, <1>v
  <2> QED
    BY <2>1, <2>2, <2>3
<1>4. \A x \in N : nx[x] # 0 => nx[x] \in N /\ (Kids(t, x) > 0 => Kids(t, nx[x]) > 0)
  <2> SUFFICES ASSUME NEW x \in N, nx[x] # 0, Kids(t, x) > 0
               PROVE  Kids(t, nx[x]) > 0
    BY <1>l
  <2>1. h[x] = h[Kid(t, x, 1)] + 1 /\ Kid(t, x, 1) \in N
    BY <1>s
  <2>2. h[x] > 1
    BY <2>1, <1>s
  <2>3. nx[x] \in N /\ h[nx[x]] > 1
    BY <2>2, <1>l
  <2> QED
    BY <2>3, <1>s
<1>5. ASSUME NEW x \in N2, NEW i \in 1 .. Kids(t2, x) - 1
      PROVE  n2[Kid(t2, x, i)] = Kid(t2, x, i + 1)
  <2>1. CASE x = v
    <3>1. i \in 1 .. k /\ i + 1 \in 1 .. k /\ i \in 1 .. Kids(t, v) - 1 /\ i \in 1 .. Kids(t, v)
      BY <2>1, <1>b, <1>k, <1>v
    <3> QED
      BY <2>1, <3>1, <1>2, <1>b, <1>q, <1>v
  <2>2. CASE x = u
    <3>1. /\ i \in 1 .. Kids(t, v) - k /\ i + 1 \in 1 .. Kids(t, v) - k
          /\ k + i \in 1 .. Kids(t, v) - 1 /\ k + i \in 1 .. Kids(t, v) /\ (k + i) + 1 = k + (i + 1)
      BY <2>2, <1>c, <1>k, <1>v
    <3>2. n2[Kid(t, v, k + i)] = Kid(t, v, k + (i + 1))
      BY <3>1, <1>2, <1>q, <1>v
    <3> QED
      BY <2>2, <3>1, <3>2, <1>c
  <2>3. CASE x = p
    <3>1. CASE i < r
      <4>1. i \in 1 .. r /\ i + 1 \in 1 .. r /\ i \in 1 .. Kids(t, p) - 1 /\ i \in 1 .. Kids(t, p) /\ i # r
            /\ r \in 1 .. Kids(t, p)
        BY <3>1, <1>r
      <4>2. Kid(t, p, i) \in N /\ Kid(t, p, i) # v
        BY <4>1, <1>s, <1>r
      <4> QED
        BY <2>3, <4>1, <4>2, <1>e, <1>q, <1>n, <1>v
    <3>2. CASE i = r
      BY <2>3, <3>2, <1>e, <1>r, <1>n
    <3>3. CASE i = r + 1
      <4>1. i + 1 \in r + 2 .. Kids(t, p) + 1 /\ (i + 1) - 1 = r + 1 /\ r \in 1 .. Kids(t, p) - 1
        BY <2>3, <3>3, <1>e, <1>r
      <4>2. Kid(t2, p, i) = u /\ Kid(t2, p, i + 1) = Kid(t, p, r + 1)
        BY <4>1, <3>3, <1>e
      <4> QED
        BY <2>3, <4>1, <4>2, <1>q, <1>n, <1>r, <1>v
    <3>4. CASE i > r + 1
      <4>1. /\ i \in r + 2 .. Kids(t, p) + 1 /\ i + 1 \in r + 2 .. Kids(t, p) + 1
            /\ i - 1 \in 1 .. Kids(t, p) - 1 /\ i - 1 \in 1 .. Kids(t, p) /\ (i - 1) + 1 = i /\ (i + 1) - 1 = i
            /\ i - 1 # r /\ r \in 1 .. Kids(t, p)
        BY <2>3, <3>4, <1>e, <1>r
      <4>2. Kid(t, p, i - 1) \in N /\ Kid(t, p, i - 1) # v
        BY <4>1, <1>s, <1>r
      <4>3. nx[Kid(t, p, i - 1)] = Kid(t, p, i)
        BY <4>1, <1>q
      <4>4. Kid(t2, p, i) = Kid(t, p, i - 1) /\ Kid(t2, p, i + 1) = Kid(t, p, i)
        BY <4>1, <1>e
      <4> QED
        BY <2>3, <4>2, <4>3, <4>4, <1>n, <1>v
    <3> QED
      BY <1>r, <3>1, <3>2, <3>3, <3>4
  <2>4. CASE x \notin {v, u, p}
    <3>1. /\ x \in N /\ i \in 1 .. Kids(t, x) - 1 /\ i \in 1 .. Kids(t, x) /\ i + 1 \in 1 .. Kids(t, x)
          /\ x \in Pages \ {v, u, p}
      BY <2>4, <1>f, <1>s
    <3> QED
      BY <3>1, <2>4, <1>2, <1>f, <1>q
  <2> QED
    BY <2>1, <2>2, <2>3, <2>4
<1>6. ASSUME NEW x \in N2, Kids(t2, x) > 0
      PROVE  n2[Kid(t2, x, Kids(t2, x))] = IF n2[x] = 0 THEN 0 ELSE Kid(t2, n2[x], 1)
  <2>1. CASE x = v
    <3>1. /\ k \in 1 .. Kids(t, v) - 1 /\ k \in 1 .. Kids(t, v) /\ k \in 1 .. k
          /\ 1 \in 1 .. Kids(t, v) - k
      BY <2>1, <1>6, <1>b, <1>k, <1>v
    <3>2. n2[Kid(t, v, k)] = Kid(t, v, k + 1)
      BY <3>1, <1>2, <1>q, <1>v
    <3> QED
      BY <2>1, <3>1, <3>2, <1>b, <1>c, <1>n, <1>v, <1>s
  <2>2. CASE x = u
    <3>1. /\ Kids(t, v) - k \in 1 .. Kids(t, v) - k /\ k + (Kids(t, v) - k) = Kids(t, v)
          /\ Kids(t, v) \in 1 .. Kids(t, v) /\ Kids(t, v) > 0
      BY <2>2, <1>6, <1>c, <1>k, <1>v
    <3>2. n2[Kid(t, v, Kids(t, v))] = IF nx[v] = 0 THEN 0 ELSE Kid(t, nx[v], 1)
      BY <3>1, <1>2, <1>q, <1>v
    <3>3. Kid(t2, u, Kids(t2, u)) = Kid(t, v, Kids(t, v))
      BY <3>1, <1>c
    <3>4. nx[v] # 0 => Kid(t2, nx[v], 1) = Kid(t, nx[v], 1)
      BY <3>1, <1>3, <1>4
    <3> QED
      BY <2>2, <3>2, <3>3, <3>4, <1>n, <1>v
  <2>3. CASE x \in N \ {v}
    <3>1. Kids(t, x) > 0 /\ n2[x] = nx[x]
      BY <2>3, <1>6, <1>e, <1>f, <1>n, <1>r, <1>s, <1>v
    <3>2. nx[x] # 0 => Kid(t2, nx[x], 1) = Kid(t, nx[x], 1)
      BY <2>3, <3>1, <1>3, <1>4
    <3>3. nx[Kid(t, x, Kids(t, x))] = IF nx[x] = 0 THEN 0 ELSE Kid(t, nx[x], 1)
      BY <2>3, <3>1, <1>q
    <3>4. CASE x # p
      <4>1. Kid(t2, x, Kids(t2, x)) = Kid(t, x, Kids(t, x)) /\ Kids(t, x) \in 1 .. Kids(t, x)
        BY <2>3, <3>1, <3>4, <1>f, <1>s, <1>v
      <4> QED
        BY <2>3, <3>1, <3>2, <3>3, <3>4, <4>1, <1>2
    <3>5. CASE x = p /\ r < Kids(t, p)
      <4>1. /\ Kids(t2, p) \in r + 2 .. Kids(t, p) + 1 /\ Kids(t2, p) - 1 = Kids(t, p)
            /\ Kids(t, p) \in 1 .. Kids(t, p) /\ Kids(t, p) # r /\ r \in 1 .. Kids(t, p)
        BY <3>5, <1>e, <1>r
      <4>2. Kid(t2, p, Kids(t2, p)) = Kid(t, p, Kids(t, p))
        BY <4>1, <1>e
      <4>3. Kid(t, p, Kids(t, p)) \in N /\ Kid(t, p, Kids(t, p)) # v
        BY <4>1, <1>s, <1>r
      <4> QED
        BY <3>1, <3>2, <3>3, <3>5, <4>2, <4>3, <1>n, <1>v
    <3>6. CASE x = p /\ r = Kids(t, p)
      <4>1. Kid(t2, p, Kids(t2, p)) = u /\ Kid(t, p, Kids(t, p)) = v
        BY <3>6, <1>e, <1>r
      <4> QED
        BY <3>1, <3>2, <3>3, <3>6, <4>1, <1>n, <1>v
    <3> QED
      BY <3>4, <3>5, <3>6, <1>r
  <2> QED
    BY <2>1, <2>2, <2>3
<1> QED
  BY <1>1, <1>5, <1>6 DEF Links, LinkKids, h2, n2, p2

(* What the rows say, with their definitions expanded.                     *)
LEMMA LinkFacts ==
  ASSUME NEW t, NEW N, NEW h, NEW nx, NEW pv, Shape(t, N, h), Links(t, N, h, nx, pv)
  PROVE  /\ nx[t.root] = 0 /\ pv[t.root] = 0
         /\ \A x \in N : /\ nx[x] \in N \cup {0} /\ pv[x] \in N \cup {0}
                         /\ nx[x] # 0 => pv[nx[x]] = x /\ h[nx[x]] = h[x]
                         /\ pv[x] # 0 => nx[pv[x]] = x
         /\ \A x \in N : \A i \in 1 .. Kids(t, x) - 1 : nx[Kid(t, x, i)] = Kid(t, x, i + 1)
         /\ \A x \in N : Kids(t, x) > 0 =>
              nx[Kid(t, x, Kids(t, x))] = IF nx[x] = 0 THEN 0 ELSE Kid(t, nx[x], 1)
         /\ \A x \in N : nx[x] # 0 => nx[x] \in N /\ (Kids(t, x) > 0 => Kids(t, nx[x]) > 0)
<1>s. /\ \A x \in Pages : Kids(t, x) \in Nat
      /\ N \subseteq Pages
      /\ h \in [Pages -> Nat]
      /\ \A x \in N : \A i \in 1 .. Kids(t, x) : Kid(t, x, i) \in N
      /\ \A x \in N : h[x] >= 1 /\ (Kids(t, x) = 0 => h[x] = 1)
      /\ \A x \in N : \A i \in 1 .. Kids(t, x) : h[x] = h[Kid(t, x, i)] + 1
  BY ShapeFacts
<1>l. /\ nx[t.root] = 0 /\ pv[t.root] = 0
      /\ \A x \in N : /\ nx[x] \in N \cup {0} /\ pv[x] \in N \cup {0}
                      /\ nx[x] # 0 => pv[nx[x]] = x /\ h[nx[x]] = h[x]
                      /\ pv[x] # 0 => nx[pv[x]] = x
  BY DEF Links, LinkEnds
<1>q. /\ \A x \in N : \A i \in 1 .. Kids(t, x) - 1 : nx[Kid(t, x, i)] = Kid(t, x, i + 1)
      /\ \A x \in N : Kids(t, x) > 0 =>
           nx[Kid(t, x, Kids(t, x))] = IF nx[x] = 0 THEN 0 ELSE Kid(t, nx[x], 1)
  BY DEF Links, LinkKids
<1>4. \A x \in N : nx[x] # 0 => nx[x] \in N /\ (Kids(t, x) > 0 => Kids(t, nx[x]) > 0)
  <2> SUFFICES ASSUME NEW x \in N, nx[x] # 0, Kids(t, x) > 0
               PROVE  Kids(t, nx[x]) > 0
    BY <1>l
  <2>1. h[x] = h[Kid(t, x, 1)] + 1 /\ Kid(t, x, 1) \in N
    BY <1>s
  <2>2. h[x] > 1
    BY <2>1, <1>s
  <2>3. nx[x] \in N /\ h[nx[x]] > 1
    BY <2>2, <1>l
  <2> QED
    BY <2>3, <1>s
<1> QED
  BY <1>l, <1>q, <1>4

(* The children of two neighbours v and w, in their order.                 *)
Both(t, v, w, i) == IF i <= Kids(t, v) THEN Kid(t, v, i) ELSE Kid(t, w, i - Kids(t, v))

(* v and w are neighbours below p.                                         *)
Siblings(t, v, w, p, r) ==
  r \in 1 .. Kids(t, p) - 1 /\ Kid(t, p, r) = v /\ Kid(t, p, r + 1) = w

(* What two neighbours below a node have in common.                        *)
LEMMA SiblingFacts ==
  ASSUME NEW t, NEW N, NEW h, NEW nx, NEW pv, Shape(t, N, h), Links(t, N, h, nx, pv),
         NEW p \in N, NEW r, NEW v, NEW w, Siblings(t, v, w, p, r)
  PROVE  /\ r \in Nat /\ 1 <= r /\ r < Kids(t, p) /\ Kids(t, p) \in Nat
         /\ Kid(t, p, r) = v /\ Kid(t, p, r + 1) = w
         /\ v \in N /\ w \in N /\ v # w /\ p # v /\ p # w /\ v # t.root /\ w # t.root
         /\ Parent(t, v) = p /\ Parent(t, w) = p
         /\ h[v] = h[w] /\ h[p] = h[v] + 1 /\ h[v] \in Nat
         /\ nx[v] = w /\ pv[w] = v
         /\ Kids(t, v) \in Nat /\ Kids(t, w) \in Nat
         /\ Kids(t, v) = 0 <=> Kids(t, w) = 0
         /\ \A i \in 1 .. Kids(t, v) + Kids(t, w) :
              /\ Both(t, v, w, i) \in N
              /\ Parent(t, Both(t, v, w, i)) \in {v, w}
              /\ h[v] = h[Both(t, v, w, i)] + 1
              /\ Both(t, v, w, i) \notin {v, w, p}
         /\ \A i \in 1 .. Kids(t, v) + Kids(t, w) - 1 : nx[Both(t, v, w, i)] = Both(t, v, w, i + 1)
         /\ \A i, j \in 1 .. Kids(t, v) + Kids(t, w) : Both(t, v, w, i) = Both(t, v, w, j) => i = j
<1>s. /\ N \subseteq Pages /\ t.root \in N /\ Parent(t, t.root) = 0 /\ 0 \notin Pages
      /\ \A x \in Pages : Kids(t, x) \in Nat
      /\ \A x \in N : \A i \in 1 .. Kids(t, x) : Kid(t, x, i) \in N /\ Parent(t, Kid(t, x, i)) = x
      /\ \A x \in N : \A i, j \in 1 .. Kids(t, x) : Kid(t, x, i) = Kid(t, x, j) => i = j
      /\ h \in [Pages -> Nat]
      /\ \A x \in N : h[x] >= 1 /\ (Kids(t, x) = 0 => h[x] = 1)
      /\ \A x \in N : \A i \in 1 .. Kids(t, x) : h[x] = h[Kid(t, x, i)] + 1
  BY ShapeFacts
<1>l. /\ \A x \in N : /\ nx[x] # 0 => pv[nx[x]] = x
      /\ \A x \in N : \A i \in 1 .. Kids(t, x) - 1 : nx[Kid(t, x, i)] = Kid(t, x, i + 1)
      /\ \A x \in N : Kids(t, x) > 0 =>
           nx[Kid(t, x, Kids(t, x))] = IF nx[x] = 0 THEN 0 ELSE Kid(t, nx[x], 1)
  BY LinkFacts
<1>r. /\ r \in Nat /\ 1 <= r /\ r < Kids(t, p) /\ Kids(t, p) \in Nat
      /\ Kid(t, p, r) = v /\ Kid(t, p, r + 1) = w
      /\ r \in 1 .. Kids(t, p) /\ r + 1 \in 1 .. Kids(t, p) /\ r \in 1 .. Kids(t, p) - 1
  BY <1>s DEF Siblings
<1>1. v \in N /\ w \in N /\ Parent(t, v) = p /\ Parent(t, w) = p
  BY <1>r, <1>s
<1>2. v # w
  <2>1. r # r + 1
    BY <1>r
  <2> QED
    BY <2>1, <1>r, <1>s
<1>3. h[p] = h[v] + 1 /\ h[p] = h[w] + 1 /\ h[p] \in Nat /\ h[v] \in Nat /\ h[w] \in Nat
  BY <1>1, <1>r, <1>s
<1>4. p # v /\ p # w /\ v # t.root /\ w # t.root /\ h[v] = h[w]
  BY <1>1, <1>3, <1>s
<1>5. nx[v] = w /\ pv[w] = v
  <2>1. nx[v] = w
    BY <1>r, <1>l
  <2>2. w # 0
    BY <1>1, <1>s
  <2> QED
    BY <2>1, <2>2, <1>1, <1>l
<1>6. Kids(t, v) \in Nat /\ Kids(t, w) \in Nat
  BY <1>1, <1>s
<1>7. Kids(t, v) = 0 <=> Kids(t, w) = 0
  <2>1. ASSUME NEW x \in N, Kids(t, x) # 0 PROVE h[x] > 1
    <3>1. 1 \in 1 .. Kids(t, x)
      BY <2>1, <1>s
    <3> QED
      BY <3>1, <1>s
  <2> QED
    BY <2>1, <1>1, <1>4, <1>s
<1> DEFINE a == Kids(t, v)
           b == Kids(t, w)
           B(i) == Both(t, v, w, i)
<1>b. /\ a \in Nat /\ b \in Nat
      /\ \A i \in 1 .. a + b : \/ (i \in 1 .. a /\ B(i) = Kid(t, v, i))
                               \/ (i - a \in 1 .. b /\ i > a /\ B(i) = Kid(t, w, i - a))
  BY <1>6 DEF Both
<1>8. \A i \in 1 .. a + b :
        B(i) \in N /\ Parent(t, B(i)) \in {v, w} /\ h[v] = h[B(i)] + 1
  <2> HIDE DEF B
  <2> QED
    BY <1>b, <1>1, <1>4, <1>s
<1>9. \A i \in 1 .. a + b : B(i) \notin {v, w, p}
  <2> HIDE DEF B, a, b
  <2> QED
    BY <1>8, <1>3, <1>4
<1>10. ASSUME NEW i \in 1 .. a + b - 1
       PROVE  nx[B(i)] = B(i + 1)
  <2>1. CASE i < a
    <3>1. i \in 1 .. a - 1 /\ B(i) = Kid(t, v, i) /\ B(i + 1) = Kid(t, v, i + 1)
      BY <2>1, <1>b DEF Both
    <3> QED
      BY <3>1, <1>l, <1>1
  <2>2. CASE i = a
    <3>1. B(i) = Kid(t, v, a) /\ B(i + 1) = Kid(t, w, 1) /\ a > 0
      BY <2>2, <1>b DEF Both
    <3> QED
      BY <3>1, <1>l, <1>1, <1>5, <1>s
  <2>3. CASE i > a
    <3>1. /\ i - a \in 1 .. b - 1 /\ B(i) = Kid(t, w, i - a) /\ B(i + 1) = Kid(t, w, (i + 1) - a)
          /\ (i + 1) - a = (i - a) + 1
      BY <2>3, <1>b DEF Both
    <3> QED
      BY <3>1, <1>l, <1>1
  <2> QED
    BY <2>1, <2>2, <2>3, <1>b
<1>11. ASSUME NEW i \in 1 .. a + b, NEW j \in 1 .. a + b, B(i) = B(j)
       PROVE  i = j
  <2>1. CASE i \in 1 .. a /\ j \in 1 .. a
    <3>1. B(i) = Kid(t, v, i) /\ B(j) = Kid(t, v, j)
      BY <2>1, <1>b DEF Both
    <3> QED
      BY <3>1, <2>1, <1>11, <1>1, <1>s
  <2>2. CASE i > a /\ j > a
    <3>1. B(i) = Kid(t, w, i - a) /\ B(j) = Kid(t, w, j - a) /\ i - a \in 1 .. b /\ j - a \in 1 .. b
      BY <2>2, <1>b DEF Both
    <3>2. i - a = j - a
      <4> HIDE DEF B
      <4> QED
        BY <3>1, <1>11, <1>1, <1>s
    <3> QED
      BY <3>2, <1>b
  <2>3. CASE i \in 1 .. a /\ j > a
    <3>1. B(i) = Kid(t, v, i) /\ B(j) = Kid(t, w, j - a) /\ j - a \in 1 .. b
      BY <2>3, <1>b DEF Both
    <3>2. Parent(t, Kid(t, v, i)) = v /\ Parent(t, Kid(t, w, j - a)) = w
      BY <3>1, <2>3, <1>1, <1>s
    <3> HIDE DEF B
    <3> QED
      BY <3>1, <3>2, <1>11, <1>2
  <2>4. CASE j \in 1 .. a /\ i > a
    <3>1. B(j) = Kid(t, v, j) /\ B(i) = Kid(t, w, i - a) /\ i - a \in 1 .. b
      BY <2>4, <1>b DEF Both
    <3>2. Parent(t, Kid(t, v, j)) = v /\ Parent(t, Kid(t, w, i - a)) = w
      BY <3>1, <2>4, <1>1, <1>s
    <3> HIDE DEF B
    <3> QED
      BY <3>1, <3>2, <1>11, <1>2
  <2> QED
    BY <2>1, <2>2, <2>3, <2>4, <1>b
<1> QED
  BY <1>r, <1>1, <1>2, <1>3, <1>4, <1>5, <1>6, <1>7, <1>8, <1>9, <1>10, <1>11

(* t2 is t with the children of w moved behind those of v, the neighbour   *)
(* before w, and w out of the tree.                                        *)
Joined(t, t2, v, w, p, r) ==
  /\ t2.root = t.root
  /\ Kids(t2, v) = Kids(t, v) + Kids(t, w)
  /\ \A i \in 1 .. Kids(t, v) + Kids(t, w) : Kid(t2, v, i) = Both(t, v, w, i)
  /\ Kids(t2, w) = 0
  /\ Kids(t2, p) = Kids(t, p) - 1
  /\ \A i \in 1 .. r : Kid(t2, p, i) = Kid(t, p, i)
  /\ \A i \in r + 1 .. Kids(t, p) - 1 : Kid(t2, p, i) = Kid(t, p, i + 1)
  /\ \A x \in Pages \ {v, w, p} : Kids(t2, x) = Kids(t, x)
  /\ \A x \in Pages \ {v, w, p} : \A i \in 1 .. Kids(t, x) : Kid(t2, x, i) = Kid(t, x, i)
  /\ \A i \in 1 .. Kids(t, v) + Kids(t, w) : Parent(t2, Both(t, v, w, i)) = v
  /\ \A x \in Pages \ {w} : Parent(t, x) # w => Parent(t2, x) = Parent(t, x)

NextWithout(nx, v, w) == [x \in Pages |-> IF x = v THEN nx[w] ELSE nx[x]]

PrevWithout(nx, pv, v, w) == [x \in Pages |-> IF x = nx[w] THEN v ELSE pv[x]]

(* Joining two neighbours leaves a tree whose rows leave w out.            *)
LEMMA JoinedTree ==
  ASSUME NEW t, NEW t2, NEW N, NEW h, NEW nx, NEW pv, Shape(t, N, h), Links(t, N, h, nx, pv),
         NEW p \in N, NEW r, NEW v, NEW w, Siblings(t, v, w, p, r),
         Joined(t, t2, v, w, p, r)
  PROVE  /\ Shape(t2, N \ {w}, [h EXCEPT ![w] = 0])
         /\ Links(t2, N \ {w}, [h EXCEPT ![w] = 0], NextWithout(nx, v, w), PrevWithout(nx, pv, v, w))
<1> DEFINE N2 == N \ {w}
           h2 == [h EXCEPT ![w] = 0]
           n2 == NextWithout(nx, v, w)
           p2 == PrevWithout(nx, pv, v, w)
           a == Kids(t, v)
           b == Kids(t, w)
           B(i) == Both(t, v, w, i)
<1>n. /\ N \subseteq Pages /\ t.root \in N /\ Parent(t, t.root) = 0 /\ 0 \notin Pages
      /\ \A x \in Pages : Kids(t, x) \in Nat
      /\ \A x \in Pages \ N : Kids(t, x) = 0
  BY ShapeFacts
<1>s. /\ \A x \in N : \A i \in 1 .. Kids(t, x) : Kid(t, x, i) \in N /\ Parent(t, Kid(t, x, i)) = x
      /\ \A x \in N : \A i, j \in 1 .. Kids(t, x) : Kid(t, x, i) = Kid(t, x, j) => i = j
  BY ShapeFacts
<1>u. \A x \in N \ {t.root} : Parent(t, x) \in N /\ \E i \in 1 .. Kids(t, Parent(t, x)) : Kid(t, Parent(t, x), i) = x
  BY ShapeFacts
<1>h. /\ h \in [Pages -> Nat]
      /\ \A x \in Pages \ N : h[x] = 0
      /\ \A x \in N : h[x] >= 1 /\ (Kids(t, x) = 0 => h[x] = 1)
      /\ \A x \in N : \A i \in 1 .. Kids(t, x) : h[x] = h[Kid(t, x, i)] + 1
  BY ShapeFacts
<1>l. /\ nx[t.root] = 0 /\ pv[t.root] = 0
      /\ \A x \in N : /\ nx[x] \in N \cup {0} /\ pv[x] \in N \cup {0}
                      /\ nx[x] # 0 => pv[nx[x]] = x /\ h[nx[x]] = h[x]
                      /\ pv[x] # 0 => nx[pv[x]] = x
  BY LinkFacts
<1>q. /\ \A x \in N : \A i \in 1 .. Kids(t, x) - 1 : nx[Kid(t, x, i)] = Kid(t, x, i + 1)
      /\ \A x \in N : Kids(t, x) > 0 =>
           nx[Kid(t, x, Kids(t, x))] = IF nx[x] = 0 THEN 0 ELSE Kid(t, nx[x], 1)
      /\ \A x \in N : nx[x] # 0 => nx[x] \in N /\ (Kids(t, x) > 0 => Kids(t, nx[x]) > 0)
  BY LinkFacts
<1>r. /\ r \in Nat /\ 1 <= r /\ r < Kids(t, p) /\ Kids(t, p) \in Nat
      /\ Kid(t, p, r) = v /\ Kid(t, p, r + 1) = w
  BY SiblingFacts
<1>v. /\ v \in N /\ w \in N /\ v # w /\ p # v /\ p # w /\ v # t.root /\ w # t.root
      /\ Parent(t, v) = p /\ Parent(t, w) = p
      /\ h[v] = h[w] /\ h[p] = h[v] + 1 /\ h[v] \in Nat
      /\ nx[v] = w /\ pv[w] = v
      /\ a \in Nat /\ b \in Nat
      /\ a = 0 <=> b = 0
  BY SiblingFacts
<1>w. /\ \A i \in 1 .. a + b : /\ B(i) \in N /\ Parent(t, B(i)) \in {v, w}
                               /\ h[v] = h[B(i)] + 1 /\ B(i) \notin {v, w, p}
      /\ \A i \in 1 .. a + b - 1 : nx[B(i)] = B(i + 1)
      /\ \A i, j \in 1 .. a + b : B(i) = B(j) => i = j
  BY SiblingFacts
<1>B. /\ \A i \in 1 .. a : i \in 1 .. a + b /\ B(i) = Kid(t, v, i)
      /\ \A i \in 1 .. b : a + i \in 1 .. a + b /\ B(a + i) = Kid(t, w, i)
  BY <1>v DEF Both
<1>b. Kids(t2, v) = a + b /\ \A i \in 1 .. a + b : Kid(t2, v, i) = B(i)
  BY DEF Joined
<1>e. /\ Kids(t2, p) = Kids(t, p) - 1
      /\ \A i \in 1 .. r : Kid(t2, p, i) = Kid(t, p, i)
      /\ \A i \in r + 1 .. Kids(t, p) - 1 : Kid(t2, p, i) = Kid(t, p, i + 1)
  BY DEF Joined
<1>f. /\ \A x \in Pages \ {v, w, p} : Kids(t2, x) = Kids(t, x)
      /\ \A x \in Pages \ {v, w, p} : \A i \in 1 .. Kids(t, x) : Kid(t2, x, i) = Kid(t, x, i)
      /\ t2.root = t.root
      /\ Kids(t2, w) = 0
  BY DEF Joined
<1>g. /\ \A i \in 1 .. a + b : Parent(t2, B(i)) = v
      /\ \A x \in Pages \ {w} : Parent(t, x) # w => Parent(t2, x) = Parent(t, x)
  BY DEF Joined
<1>3. \A x \in Pages : h2[x] = IF x = w THEN 0 ELSE h[x]
  BY <1>h
<1>4. h2 \in [Pages -> Nat] /\ N2 \subseteq Pages
  BY <1>h, <1>n
<1>m. \A x \in N2 : n2[x] = IF x = v THEN nx[w] ELSE nx[x]
  BY <1>n DEF NextWithout
<1>p. \A x \in N2 : p2[x] = IF x = nx[w] THEN v ELSE pv[x]
  BY <1>n DEF PrevWithout
<1> HIDE DEF h2, n2, p2, a, b, B
\* The places of the children of p that stay.
<1>5. ASSUME NEW i \in 1 .. Kids(t2, p)
      PROVE  \E j \in 1 .. Kids(t, p) : /\ j = IF i <= r THEN i ELSE i + 1
                                        /\ j # r + 1 /\ Kid(t2, p, i) = Kid(t, p, j)
                                        /\ Kid(t, p, j) \in N2 /\ Kid(t, p, j) \notin {w, p}
  <2> DEFINE j == IF i <= r THEN i ELSE i + 1
  <2>1. j \in 1 .. Kids(t, p) /\ j # r + 1 /\ Kid(t2, p, i) = Kid(t, p, j)
    <3>1. i <= r => i \in 1 .. r
      BY <1>r
    <3>2. i > r => i \in r + 1 .. Kids(t, p) - 1
      BY <1>r, <1>e
    <3> QED BY <3>1, <3>2, <1>r, <1>e
  <2> HIDE DEF j
  <2>2. Kid(t, p, j) \in N /\ h[p] = h[Kid(t, p, j)] + 1
    BY <2>1, <1>s, <1>h
  <2>3. Kid(t, p, j) # w
    BY <2>1, <1>r, <1>s
  <2>4. Kid(t, p, j) # p
    BY <2>2, <1>n, <1>h
  <2> QED
    BY <2>1, <2>2, <2>3, <2>4 DEF j
<1>6. ASSUME NEW x \in N2, NEW i \in 1 .. Kids(t2, x)
      PROVE  /\ Kid(t2, x, i) \in N2 /\ Parent(t2, Kid(t2, x, i)) = x
             /\ h2[x] = h2[Kid(t2, x, i)] + 1
  <2>1. CASE x = v
    <3>1. i \in 1 .. a + b /\ Kid(t2, x, i) = B(i)
      BY <2>1, <1>b
    <3> QED
      BY <2>1, <3>1, <1>w, <1>g, <1>3, <1>n, <1>v
  <2>2. CASE x = p
    <3>1. PICK j \in 1 .. Kids(t, p) : Kid(t2, p, i) = Kid(t, p, j) /\ Kid(t, p, j) \in N2
                                       /\ Kid(t, p, j) \notin {w, p}
      BY <2>2, <1>5
    <3>2. Parent(t, Kid(t, p, j)) = p /\ h[p] = h[Kid(t, p, j)] + 1
      BY <1>s, <1>h
    <3>3. Parent(t2, Kid(t, p, j)) = p
      BY <3>1, <3>2, <1>g, <1>n, <1>v
    <3> QED
      BY <2>2, <3>1, <3>2, <3>3, <1>3, <1>n, <1>v
  <2>3. CASE x \notin {v, w, p}
    <3>1. x \in N /\ x \in Pages \ {v, w, p} /\ i \in 1 .. Kids(t, x) /\ Kid(t2, x, i) = Kid(t, x, i)
      BY <2>3, <1>f, <1>n
    <3>2. /\ Kid(t, x, i) \in N /\ Parent(t, Kid(t, x, i)) = x /\ h[x] = h[Kid(t, x, i)] + 1
          /\ Kid(t, x, i) # w
      BY <2>3, <3>1, <1>s, <1>h, <1>v
    <3>3. Parent(t2, Kid(t, x, i)) = x
      BY <2>3, <3>2, <1>g, <1>n
    <3> QED
      BY <2>3, <3>1, <3>2, <3>3, <1>3, <1>n
  <2> QED
    BY <2>1, <2>2, <2>3
<1>7. ShapeNodes(t2, N2)
  <2>1. Parent(t2, t2.root) = NULL_NODE
    BY <1>n, <1>f, <1>g, <1>v DEF NULL_NODE
  <2>2. \A x \in Pages : Kids(t2, x) \in Nat
    <3>1. a + b \in Nat /\ Kids(t, p) - 1 \in Nat
      BY <1>v, <1>r
    <3> QED
      BY <3>1, <1>n, <1>b, <1>e, <1>f
  <2>3. \A x \in Pages \ N2 : Kids(t2, x) = 0
    BY <1>n, <1>f, <1>v
  <2> QED
    BY <1>4, <1>n, <1>f, <1>v, <2>1, <2>2, <2>3 DEF ShapeNodes
<1>8. ShapeDown(t2, N2)
  BY <1>6 DEF ShapeDown
<1>9. ShapeLevels(t2, N2, h2)
  <2>1. \A x \in Pages \ N2 : h2[x] = 0
    BY <1>3, <1>h
  <2>2. \A x \in N2 : h2[x] >= 1
    BY <1>3, <1>4, <1>h
  <2>3. ASSUME NEW x \in N2, Kids(t2, x) = 0
        PROVE  h2[x] = 1
    <3>1. CASE x = v
      <4>1. a = 0
        BY <3>1, <2>3, <1>b, <1>v
      <4> QED
        BY <4>1, <3>1, <1>3, <1>h, <1>n, <1>v DEF a
    <3>2. CASE x = p
      <4>1. Kids(t, p) = 1
        BY <3>2, <2>3, <1>e, <1>r
      <4> QED
        BY <4>1, <1>r
    <3>3. CASE x \notin {v, w, p}
      BY <1>n, <1>3, <1>f, <1>h, <2>3, <3>3
    <3> QED
      BY <3>1, <3>2, <3>3
  <2> QED
    BY <1>4, <1>6, <2>1, <2>2, <2>3 DEF ShapeLevels
<1>10. ShapeOnce(t2, N2)
  <2> SUFFICES ASSUME NEW x \in N2, NEW i \in 1 .. Kids(t2, x), NEW j \in 1 .. Kids(t2, x),
                      Kid(t2, x, i) = Kid(t2, x, j)
               PROVE  i = j
    BY DEF ShapeOnce
  <2>1. CASE x = v
    BY <2>1, <1>b, <1>w
  <2>2. CASE x = p
    <3>1. PICK m \in 1 .. Kids(t, p) : m = (IF i <= r THEN i ELSE i + 1) /\ Kid(t2, p, i) = Kid(t, p, m)
      BY <2>2, <1>5
    <3>2. PICK n \in 1 .. Kids(t, p) : n = (IF j <= r THEN j ELSE j + 1) /\ Kid(t2, p, j) = Kid(t, p, n)
      BY <2>2, <1>5
    <3>3. m = n
      BY <2>2, <3>1, <3>2, <1>s
    <3> QED
      BY <3>1, <3>2, <3>3, <1>r
  <2>3. CASE x \notin {v, w, p}
    BY <1>n, <1>s, <1>f, <2>3
  <2> QED
    BY <2>1, <2>2, <2>3
<1>11. ShapeUp(t2, N2)
  <2> SUFFICES ASSUME NEW x \in N2, x # t.root
               PROVE  Parent(t2, x) \in N2 /\ \E i \in 1 .. Kids(t2, Parent(t2, x)) : Kid(t2, Parent(t2, x), i) = x
    BY <1>f DEF ShapeUp, IsChild
  <2> DEFINE q == Parent(t, x)
  <2>1. q \in N
    BY <1>u
  <2>2. PICK i \in 1 .. Kids(t, q) : Kid(t, q, i) = x
    BY <1>u
  <2>3. q # w => Parent(t2, x) = q
    BY <1>n, <1>g
  <2> HIDE DEF q
  <2>4. CASE q = w
    <3>1. a + i \in 1 .. a + b /\ B(a + i) = x
      BY <2>2, <2>4, <1>B DEF b
    <3> QED
      BY <3>1, <1>g, <1>b, <1>v
  <2>5. CASE q = v
    <3>1. i \in 1 .. a + b /\ B(i) = x
      BY <2>2, <2>5, <1>B DEF a
    <3> QED
      BY <3>1, <1>g, <1>b, <1>v
  <2>6. CASE q = p
    <3>1. i # r + 1
      BY <2>2, <2>6, <1>r
    <3>2. CASE i <= r
      <4>1. i \in 1 .. r /\ i \in 1 .. Kids(t2, p)
        BY <3>2, <1>r, <1>e
      <4> QED
        BY <4>1, <2>2, <2>3, <2>6, <1>e, <1>v
    <3>3. CASE i > r + 1
      <4>1. i - 1 \in r + 1 .. Kids(t, p) - 1 /\ (i - 1) + 1 = i /\ i - 1 \in 1 .. Kids(t2, p)
        BY <3>3, <2>6, <1>r, <1>e
      <4>2. Kid(t2, p, i - 1) = x
        BY <4>1, <2>2, <2>6, <1>e
      <4> QED
        BY <4>1, <4>2, <2>3, <2>6, <1>v
    <3> QED
      BY <3>1, <3>2, <3>3, <1>r
  <2>7. CASE q \notin {v, w, p}
    BY <2>1, <2>2, <2>3, <2>7, <1>n, <1>f
  <2> QED
    BY <2>4, <2>5, <2>6, <2>7
<1>12. LinkEnds(t2, N2, h2, n2, p2)
  <2>0. \A x \in N2 : nx[x] = w => x = v
    BY <1>l, <1>v, <1>n
  <2>1. n2[t2.root] = 0 /\ p2[t2.root] = 0
    <3>1. t.root # nx[w]
      BY <1>l, <1>n, <1>v
    <3> QED BY <3>1, <1>f, <1>l, <1>m, <1>p, <1>n, <1>v
  <2>2. ASSUME NEW x \in N2
        PROVE  /\ n2[x] \in N2 \cup {0}
               /\ n2[x] # 0 => p2[n2[x]] = x /\ h2[n2[x]] = h2[x]
    <3>1. CASE x = v
      <4>1. nx[w] # w
        BY <1>l, <1>v, <1>n
      <4> QED
        BY <4>1, <3>1, <1>m, <1>p, <1>3, <1>v, <1>l, <1>n
    <3>2. CASE x # v
      <4>1. nx[x] # 0 => nx[x] # nx[w]
        BY <1>l, <1>v
      <4> QED
        BY <4>1, <3>2, <2>0, <1>m, <1>p, <1>3, <1>v, <1>l, <1>n
    <3> QED
      BY <3>1, <3>2
  <2>3. ASSUME NEW x \in N2
        PROVE  p2[x] \in N2 \cup {0} /\ (p2[x] # 0 => n2[p2[x]] = x)
    <3>1. CASE x = nx[w]
      BY <3>1, <1>m, <1>p, <1>v
    <3>2. CASE x # nx[w]
      <4>1. pv[x] # w /\ pv[x] # v
        BY <3>2, <1>l, <1>v, <1>n
      <4> QED
        BY <4>1, <3>2, <1>m, <1>p, <1>l
    <3> QED
      BY <3>1, <3>2
  <2> QED
    BY <2>1, <2>2, <2>3 DEF LinkEnds
\* The first child of a node that stays is the same.
<1>13. ASSUME NEW x \in N2, Kids(t, x) > 0
       PROVE  Kid(t2, x, 1) = Kid(t, x, 1)
  <2>1. CASE x = v
    <3>1. 1 \in 1 .. a /\ 1 \in 1 .. a + b
      BY <2>1, <1>13, <1>v DEF a
    <3> QED
      BY <2>1, <3>1, <1>b, <1>B
  <2>2. CASE x = p
    BY <2>2, <1>e, <1>r
  <2>3. CASE x \notin {v, w, p}
    BY <2>3, <1>13, <1>f, <1>n
  <2> QED
    BY <2>1, <2>2, <2>3
\* A child of a node other than p keeps its neighbour.
<1>14. ASSUME NEW x \in N, x # p, NEW i \in 1 .. Kids(t, x)
       PROVE  Kid(t, x, i) \in N2 /\ n2[Kid(t, x, i)] = nx[Kid(t, x, i)]
  <2>1. Kid(t, x, i) \in N /\ Parent(t, Kid(t, x, i)) = x
    BY <1>s
  <2> QED
    BY <2>1, <1>14, <1>m, <1>v
<1>15. \A i \in 1 .. a + b : n2[B(i)] = nx[B(i)]
  BY <1>w, <1>m, <1>v
<1>16. ASSUME NEW x \in N2, NEW i \in 1 .. Kids(t2, x) - 1
       PROVE  n2[Kid(t2, x, i)] = Kid(t2, x, i + 1)
  <2>1. CASE x = v
    <3>1. i \in 1 .. a + b - 1 /\ i \in 1 .. a + b /\ i + 1 \in 1 .. a + b
      BY <2>1, <1>b, <1>v
    <3> QED
      BY <2>1, <3>1, <1>15, <1>b, <1>w
  <2>2. CASE x = p
    <3>1. /\ i \in 1 .. Kids(t2, p) /\ i + 1 \in 1 .. Kids(t2, p)
      BY <2>2, <1>e, <1>r
    <3>2. CASE i = r
      <4>1. /\ r + 1 \in 1 .. Kids(t, p) - 1 /\ r \in 1 .. r /\ r + 1 \in r + 1 .. Kids(t, p) - 1
        BY <3>1, <3>2, <1>e, <1>r
      <4>2. Kid(t2, p, i) = v /\ Kid(t2, p, i + 1) = Kid(t, p, (r + 1) + 1)
        BY <4>1, <3>2, <1>e, <1>r
      <4>3. nx[w] = Kid(t, p, (r + 1) + 1)
        BY <4>1, <1>q, <1>r
      <4> QED
        BY <2>2, <4>2, <4>3, <1>m, <1>v
    <3>3. CASE i < r
      <4>1. i \in 1 .. r /\ i + 1 \in 1 .. r /\ i \in 1 .. Kids(t, p) - 1 /\ i \in 1 .. Kids(t, p) /\ i # r
            /\ r \in 1 .. Kids(t, p) /\ r + 1 \in 1 .. Kids(t, p) /\ i # r + 1
        BY <3>1, <3>3, <1>r
      <4>2. Kid(t, p, i) \in N2 /\ Kid(t, p, i) # v
        BY <4>1, <1>s, <1>r
      <4> QED
        BY <2>2, <4>1, <4>2, <1>e, <1>q, <1>m, <1>v
    <3>4. CASE i > r
      <4>1. /\ i \in r + 1 .. Kids(t, p) - 1 /\ i + 1 \in r + 1 .. Kids(t, p) - 1
            /\ i + 1 \in 1 .. Kids(t, p) - 1 /\ i + 1 \in 1 .. Kids(t, p) /\ i + 1 # r
            /\ r \in 1 .. Kids(t, p) /\ r + 1 \in 1 .. Kids(t, p) /\ i + 1 # r + 1
        BY <3>1, <3>4, <1>e, <1>r
      <4>2. Kid(t, p, i + 1) \in N2 /\ Kid(t, p, i + 1) # v
        BY <4>1, <1>s, <1>r
      <4>3. nx[Kid(t, p, i + 1)] = Kid(t, p, (i + 1) + 1)
        BY <4>1, <1>q
      <4>4. Kid(t2, p, i) = Kid(t, p, i + 1) /\ Kid(t2, p, i + 1) = Kid(t, p, (i + 1) + 1)
        BY <4>1, <1>e
      <4> QED
        BY <2>2, <4>2, <4>3, <4>4, <1>m, <1>v
    <3> QED
      BY <3>1, <3>2, <3>3, <3>4, <1>r
  <2>3. CASE x \notin {v, w, p}
    <3>1. /\ x \in N /\ i \in 1 .. Kids(t, x) - 1 /\ i \in 1 .. Kids(t, x) /\ i + 1 \in 1 .. Kids(t, x)
          /\ x \in Pages \ {v, w, p}
      BY <2>3, <1>f, <1>n
    <3> QED
      BY <3>1, <2>3, <1>14, <1>f, <1>q
  <2> QED
    BY <2>1, <2>2, <2>3
<1>17. ASSUME NEW x \in N2, Kids(t2, x) > 0
       PROVE  n2[Kid(t2, x, Kids(t2, x))] = IF n2[x] = 0 THEN 0 ELSE Kid(t2, n2[x], 1)
  <2>1. CASE x = v
    <3>1. b \in 1 .. b /\ a + b \in 1 .. a + b /\ b > 0
      BY <2>1, <1>17, <1>b, <1>v
    <3>2. Kid(t2, v, Kids(t2, v)) = Kid(t, w, b)
      BY <3>1, <1>b, <1>B
    <3>3. n2[Kid(t, w, b)] = IF nx[w] = 0 THEN 0 ELSE Kid(t, nx[w], 1)
      BY <3>1, <1>14, <1>q, <1>v DEF b
    <3>4. nx[w] # w
      BY <1>l, <1>v, <1>n
    <3>5. nx[w] # 0 => Kid(t2, nx[w], 1) = Kid(t, nx[w], 1)
      BY <3>1, <3>4, <1>13, <1>q, <1>v DEF b
    <3> QED
      BY <2>1, <3>2, <3>3, <3>5, <1>m, <1>v
  <2>2. CASE x # v
    <3>1. Kids(t, x) > 0 /\ n2[x] = nx[x]
      BY <2>2, <1>17, <1>e, <1>f, <1>m, <1>r, <1>n
    <3>2. nx[x] # 0 => nx[x] # w
      BY <2>2, <1>l, <1>v, <1>n
    <3>3. nx[x] # 0 => Kid(t2, nx[x], 1) = Kid(t, nx[x], 1)
      BY <3>1, <3>2, <1>13, <1>q
    <3>4. nx[Kid(t, x, Kids(t, x))] = IF nx[x] = 0 THEN 0 ELSE Kid(t, nx[x], 1)
      BY <3>1, <1>q
    <3>5. CASE x # p
      <4>1. Kid(t2, x, Kids(t2, x)) = Kid(t, x, Kids(t, x)) /\ Kids(t, x) \in 1 .. Kids(t, x)
        BY <2>2, <3>1, <3>5, <1>f, <1>n
      <4> QED
        BY <3>1, <3>3, <3>4, <3>5, <4>1, <1>14
    <3>6. CASE x = p /\ r + 1 < Kids(t, p)
      <4>1. /\ Kids(t, p) - 1 \in r + 1 .. Kids(t, p) - 1 /\ (Kids(t, p) - 1) + 1 = Kids(t, p)
            /\ Kids(t, p) \in 1 .. Kids(t, p) /\ Kids(t, p) # r /\ Kids(t, p) # r + 1
            /\ r \in 1 .. Kids(t, p) /\ r + 1 \in 1 .. Kids(t, p)
        BY <3>6, <1>e, <1>r
      <4>2. Kid(t2, p, Kids(t2, p)) = Kid(t, p, Kids(t, p))
        BY <4>1, <1>e
      <4>3. Kid(t, p, Kids(t, p)) \in N2 /\ Kid(t, p, Kids(t, p)) # v
        BY <4>1, <1>s, <1>r
      <4> QED
        BY <3>1, <3>3, <3>4, <3>6, <4>2, <4>3, <1>m
    <3>7. CASE x = p /\ r + 1 = Kids(t, p)
      <4>1. Kids(t2, p) = r /\ r \in 1 .. r
        BY <3>7, <1>e, <1>r
      <4>2. Kid(t2, p, Kids(t2, p)) = v /\ Kid(t, p, Kids(t, p)) = w
        BY <4>1, <3>7, <1>e, <1>r
      <4> QED
        BY <3>1, <3>3, <3>4, <3>7, <4>2, <1>m, <1>v
    <3> QED
      BY <3>5, <3>6, <3>7, <1>r
  <2> QED
    BY <2>1, <2>2
<1>18. Shape(t2, N2, h2)
  BY <1>7, <1>8, <1>9, <1>10, <1>11 DEF Shape
<1>19. Links(t2, N2, h2, n2, p2)
  BY <1>12, <1>16, <1>17 DEF Links, LinkKids
<1> QED
  BY <1>18, <1>19 DEF h2, n2, p2

(* t2 is t with the children of the neighbours v and w shared out so that  *)
(* v has k of them.                                                        *)
Shared(t, t2, v, w, k) ==
  /\ t2.root = t.root
  /\ Kids(t2, v) = k
  /\ \A i \in 1 .. k : Kid(t2, v, i) = Both(t, v, w, i)
  /\ Kids(t2, w) = Kids(t, v) + Kids(t, w) - k
  /\ \A i \in 1 .. Kids(t, v) + Kids(t, w) - k : Kid(t2, w, i) = Both(t, v, w, k + i)
  /\ \A x \in Pages \ {v, w} : Kids(t2, x) = Kids(t, x)
  /\ \A x \in Pages \ {v, w} : \A i \in 1 .. Kids(t, x) : Kid(t2, x, i) = Kid(t, x, i)
  /\ \A i \in 1 .. k : Parent(t2, Both(t, v, w, i)) = v
  /\ \A i \in k + 1 .. Kids(t, v) + Kids(t, w) : Parent(t2, Both(t, v, w, i)) = w
  /\ \A x \in Pages : Parent(t, x) \notin {v, w} => Parent(t2, x) = Parent(t, x)

(* Neighbours may share their children as they like.                       *)
LEMMA SharedTree ==
  ASSUME NEW t, NEW t2, NEW N, NEW h, NEW nx, NEW pv, Shape(t, N, h), Links(t, N, h, nx, pv),
         NEW p \in N, NEW r, NEW v, NEW w, Siblings(t, v, w, p, r),
         NEW k, Cut(k, Kids(t, v) + Kids(t, w)),
         Shared(t, t2, v, w, k)
  PROVE  Shape(t2, N, h) /\ Links(t2, N, h, nx, pv)
<1> DEFINE a == Kids(t, v)
           b == Kids(t, w)
           B(i) == Both(t, v, w, i)
<1>n. /\ N \subseteq Pages /\ t.root \in N /\ Parent(t, t.root) = 0 /\ 0 \notin Pages
      /\ \A x \in Pages : Kids(t, x) \in Nat
      /\ \A x \in Pages \ N : Kids(t, x) = 0
  BY ShapeFacts
<1>s. /\ \A x \in N : \A i \in 1 .. Kids(t, x) : Kid(t, x, i) \in N /\ Parent(t, Kid(t, x, i)) = x
      /\ \A x \in N : \A i, j \in 1 .. Kids(t, x) : Kid(t, x, i) = Kid(t, x, j) => i = j
  BY ShapeFacts
<1>u. \A x \in N \ {t.root} : Parent(t, x) \in N /\ \E i \in 1 .. Kids(t, Parent(t, x)) : Kid(t, Parent(t, x), i) = x
  BY ShapeFacts
<1>h. /\ h \in [Pages -> Nat]
      /\ \A x \in Pages \ N : h[x] = 0
      /\ \A x \in N : h[x] >= 1 /\ (Kids(t, x) = 0 => h[x] = 1)
      /\ \A x \in N : \A i \in 1 .. Kids(t, x) : h[x] = h[Kid(t, x, i)] + 1
  BY ShapeFacts
<1>l. /\ nx[t.root] = 0 /\ pv[t.root] = 0
      /\ \A x \in N : /\ nx[x] \in N \cup {0} /\ pv[x] \in N \cup {0}
                      /\ nx[x] # 0 => pv[nx[x]] = x /\ h[nx[x]] = h[x]
                      /\ pv[x] # 0 => nx[pv[x]] = x
  BY LinkFacts
<1>q. /\ \A x \in N : \A i \in 1 .. Kids(t, x) - 1 : nx[Kid(t, x, i)] = Kid(t, x, i + 1)
      /\ \A x \in N : Kids(t, x) > 0 =>
           nx[Kid(t, x, Kids(t, x))] = IF nx[x] = 0 THEN 0 ELSE Kid(t, nx[x], 1)
      /\ \A x \in N : nx[x] # 0 => nx[x] \in N /\ (Kids(t, x) > 0 => Kids(t, nx[x]) > 0)
  BY LinkFacts
<1>v. /\ v \in N /\ w \in N /\ v # w /\ p # v /\ p # w /\ v # t.root /\ w # t.root
      /\ Parent(t, v) = p /\ Parent(t, w) = p
      /\ h[v] = h[w] /\ h[p] = h[v] + 1 /\ h[v] \in Nat
      /\ nx[v] = w /\ pv[w] = v
      /\ a \in Nat /\ b \in Nat
      /\ a = 0 <=> b = 0
  BY SiblingFacts
<1>w. /\ \A i \in 1 .. a + b : /\ B(i) \in N /\ Parent(t, B(i)) \in {v, w}
                               /\ h[v] = h[B(i)] + 1 /\ B(i) \notin {v, w, p}
      /\ \A i \in 1 .. a + b - 1 : nx[B(i)] = B(i + 1)
      /\ \A i, j \in 1 .. a + b : B(i) = B(j) => i = j
  BY SiblingFacts
<1>B. /\ \A i \in 1 .. a : i \in 1 .. a + b /\ B(i) = Kid(t, v, i)
      /\ \A i \in 1 .. b : a + i \in 1 .. a + b /\ B(a + i) = Kid(t, w, i)
  BY <1>v DEF Both
<1>k. k \in Nat /\ ((k = 0 /\ a + b = 0) \/ (1 <= k /\ k < a + b))
  BY DEF Cut
<1>b. /\ Kids(t2, v) = k /\ \A i \in 1 .. k : Kid(t2, v, i) = B(i)
      /\ Kids(t2, w) = a + b - k /\ \A i \in 1 .. a + b - k : Kid(t2, w, i) = B(k + i)
  BY DEF Shared
<1>f. /\ \A x \in Pages \ {v, w} : Kids(t2, x) = Kids(t, x)
      /\ \A x \in Pages \ {v, w} : \A i \in 1 .. Kids(t, x) : Kid(t2, x, i) = Kid(t, x, i)
      /\ t2.root = t.root
  BY DEF Shared
<1>g. /\ \A i \in 1 .. k : Parent(t2, B(i)) = v
      /\ \A i \in k + 1 .. a + b : Parent(t2, B(i)) = w
      /\ \A x \in Pages : Parent(t, x) \notin {v, w} => Parent(t2, x) = Parent(t, x)
  BY DEF Shared
<1> HIDE DEF a, b, B
<1>c. /\ \A i \in 1 .. k : i \in 1 .. a + b
      /\ \A i \in 1 .. a + b - k : k + i \in k + 1 .. a + b /\ k + i \in 1 .. a + b
  BY <1>k, <1>v
<1>6. ASSUME NEW x \in N, NEW i \in 1 .. Kids(t2, x)
      PROVE  /\ Kid(t2, x, i) \in N /\ Parent(t2, Kid(t2, x, i)) = x
             /\ h[x] = h[Kid(t2, x, i)] + 1
  <2>1. CASE x = v
    BY <2>1, <1>b, <1>c, <1>w, <1>g, <1>v
  <2>2. CASE x = w
    BY <2>2, <1>b, <1>c, <1>w, <1>g, <1>v
  <2>3. CASE x \notin {v, w}
    <3>1. x \in Pages \ {v, w} /\ i \in 1 .. Kids(t, x) /\ Kid(t2, x, i) = Kid(t, x, i)
      BY <2>3, <1>f, <1>n
    <3> QED
      BY <2>3, <3>1, <1>s, <1>h, <1>g, <1>n
  <2> QED
    BY <2>1, <2>2, <2>3
<1>7. ShapeNodes(t2, N)
  <2>1. Parent(t2, t2.root) = NULL_NODE
    BY <1>n, <1>f, <1>g, <1>v DEF NULL_NODE
  <2>2. \A x \in Pages : Kids(t2, x) \in Nat
    <3>1. a + b - k \in Nat
      BY <1>v, <1>k
    <3> QED
      BY <3>1, <1>n, <1>b, <1>f, <1>k
  <2>3. \A x \in Pages \ N : Kids(t2, x) = 0
    BY <1>n, <1>f, <1>v
  <2> QED
    BY <1>n, <1>f, <2>1, <2>2, <2>3 DEF ShapeNodes
<1>8. ShapeDown(t2, N)
  BY <1>6 DEF ShapeDown
<1>9. ShapeLevels(t2, N, h)
  <2>3. ASSUME NEW x \in N, Kids(t2, x) = 0
        PROVE  h[x] = 1
    <3>1. CASE x \in {v, w}
      <4>1. a = 0 /\ b = 0
        BY <3>1, <2>3, <1>b, <1>k, <1>v
      <4> QED
        BY <4>1, <3>1, <1>h, <1>v DEF a, b
    <3>3. CASE x \notin {v, w}
      BY <1>n, <1>f, <1>h, <2>3, <3>3
    <3> QED
      BY <3>1, <3>3
  <2> QED
    BY <1>h, <1>6, <2>3 DEF ShapeLevels
<1>10. ShapeOnce(t2, N)
  <2> SUFFICES ASSUME NEW x \in N, NEW i \in 1 .. Kids(t2, x), NEW j \in 1 .. Kids(t2, x),
                      Kid(t2, x, i) = Kid(t2, x, j)
               PROVE  i = j
    BY DEF ShapeOnce
  <2>1. CASE x = v
    BY <2>1, <1>b, <1>c, <1>w
  <2>2. CASE x = w
    <3>1. k + i = k + j
      BY <2>2, <1>b, <1>c, <1>w
    <3> QED
      BY <3>1, <1>k
  <2>3. CASE x \notin {v, w}
    BY <1>n, <1>s, <1>f, <2>3
  <2> QED
    BY <2>1, <2>2, <2>3
<1>11. ShapeUp(t2, N)
  <2> SUFFICES ASSUME NEW x \in N, x # t.root
               PROVE  Parent(t2, x) \in N /\ \E i \in 1 .. Kids(t2, Parent(t2, x)) : Kid(t2, Parent(t2, x), i) = x
    BY <1>f DEF ShapeUp, IsChild
  <2> DEFINE q == Parent(t, x)
  <2>1. q \in N
    BY <1>u
  <2>2. PICK i \in 1 .. Kids(t, q) : Kid(t, q, i) = x
    BY <1>u
  <2>3. q \notin {v, w} => Parent(t2, x) = q
    BY <1>n, <1>g
  <2> HIDE DEF q
  <2>4. CASE q \in {v, w}
    <3>1. \E j \in 1 .. a + b : B(j) = x
      BY <2>2, <2>4, <1>B DEF a, b
    <3>2. PICK j \in 1 .. a + b : B(j) = x
      BY <3>1
    <3>3. CASE j <= k
      <4>1. j \in 1 .. k
        BY <3>3
      <4> QED
        BY <4>1, <3>2, <1>g, <1>b, <1>v
    <3>4. CASE j > k
      <4>1. j \in k + 1 .. a + b /\ j - k \in 1 .. a + b - k /\ k + (j - k) = j
        BY <3>4, <1>k, <1>v
      <4> QED
        BY <4>1, <3>2, <1>g, <1>b, <1>v
    <3> QED
      BY <3>3, <3>4, <1>k, <1>v
  <2>7. CASE q \notin {v, w}
    BY <2>1, <2>2, <2>3, <2>7, <1>n, <1>f
  <2> QED
    BY <2>4, <2>7
<1>12. LinkEnds(t2, N, h, nx, pv)
  BY <1>f, <1>l DEF LinkEnds
\* The first child of a node other than w is the same.
<1>13. ASSUME NEW x \in N, x # w, Kids(t, x) > 0
       PROVE  Kid(t2, x, 1) = Kid(t, x, 1)
  <2>1. CASE x = v
    <3>1. 1 \in 1 .. a /\ 1 \in 1 .. k
      BY <2>1, <1>13, <1>k, <1>v DEF a
    <3> QED
      BY <2>1, <3>1, <1>b, <1>B
  <2>2. CASE x \notin {v, w}
    BY <2>2, <1>13, <1>f, <1>n
  <2> QED
    BY <2>1, <2>2, <1>13
<1>14. ASSUME NEW x \in N, NEW i \in 1 .. Kids(t2, x) - 1
       PROVE  nx[Kid(t2, x, i)] = Kid(t2, x, i + 1)
  <2>1. CASE x = v
    <3>1. i \in 1 .. k /\ i + 1 \in 1 .. k /\ i \in 1 .. a + b - 1
      BY <2>1, <1>b, <1>k, <1>v
    <3> QED
      BY <2>1, <3>1, <1>b, <1>w
  <2>2. CASE x = w
    <3>1. /\ i \in 1 .. a + b - k /\ i + 1 \in 1 .. a + b - k
          /\ k + i \in 1 .. a + b - 1 /\ (k + i) + 1 = k + (i + 1)
      BY <2>2, <1>b, <1>k, <1>v
    <3> QED
      BY <2>2, <3>1, <1>b, <1>w
  <2>3. CASE x \notin {v, w}
    <3>1. /\ i \in 1 .. Kids(t, x) - 1 /\ i \in 1 .. Kids(t, x) /\ i + 1 \in 1 .. Kids(t, x)
          /\ x \in Pages \ {v, w}
      BY <2>3, <1>f, <1>n
    <3> QED
      BY <3>1, <1>f, <1>q
  <2> QED
    BY <2>1, <2>2, <2>3
<1>15. ASSUME NEW x \in N, Kids(t2, x) > 0
       PROVE  nx[Kid(t2, x, Kids(t2, x))] = IF nx[x] = 0 THEN 0 ELSE Kid(t2, nx[x], 1)
  <2>1. CASE x = v
    <3>1. k \in 1 .. k /\ k \in 1 .. a + b - 1 /\ 1 \in 1 .. a + b - k
      BY <2>1, <1>15, <1>b, <1>k, <1>v
    <3> QED
      BY <2>1, <3>1, <1>b, <1>w, <1>v, <1>n
  <2>2. CASE x # v
    <3>1. Kids(t, x) > 0
      <4>1. CASE x = w
        <5>1. b > 0
          BY <4>1, <1>15, <1>b, <1>k, <1>v
        <5> QED
          BY <5>1, <4>1 DEF b
      <4>2. CASE x # w
        BY <4>2, <2>2, <1>15, <1>f, <1>n
      <4> QED
        BY <4>1, <4>2
    <3>2. nx[x] # w
      BY <2>2, <1>l, <1>v, <1>n
    <3>3. nx[x] # 0 => Kid(t2, nx[x], 1) = Kid(t, nx[x], 1)
      BY <3>1, <3>2, <1>13, <1>q
    <3>4. nx[Kid(t, x, Kids(t, x))] = IF nx[x] = 0 THEN 0 ELSE Kid(t, nx[x], 1)
      BY <3>1, <1>q
    <3>5. Kid(t2, x, Kids(t2, x)) = Kid(t, x, Kids(t, x))
      <4>1. CASE x = w
        <5>1. a + b - k \in 1 .. a + b - k /\ k + (a + b - k) = a + b /\ b \in 1 .. b
          BY <4>1, <3>1, <1>15, <1>b, <1>k, <1>v DEF b
        <5>2. Kid(t2, w, a + b - k) = B(a + b) /\ B(a + b) = Kid(t, w, b)
          BY <5>1, <1>b, <1>B
        <5> QED
          BY <5>2, <4>1, <1>b DEF b
      <4>2. CASE x # w
        BY <2>2, <3>1, <4>2, <1>f, <1>n
      <4> QED
        BY <4>1, <4>2
    <3> QED
      BY <3>3, <3>4, <3>5
  <2> QED
    BY <2>1, <2>2
<1>18. Shape(t2, N, h)
  BY <1>7, <1>8, <1>9, <1>10, <1>11 DEF Shape
<1>19. Links(t2, N, h, nx, pv)
  BY <1>12, <1>14, <1>15 DEF Links, LinkKids
<1> QED
  BY <1>18, <1>19

(* t2 is t with a new root q above the root v.                             *)
Grown(t, t2, q, v) ==
  /\ t2.root = q
  /\ Kids(t2, q) = 1
  /\ Kid(t2, q, 1) = v
  /\ \A x \in Pages \ {q} : Kids(t2, x) = Kids(t, x)
  /\ \A x \in Pages \ {q} : \A i \in 1 .. Kids(t, x) : Kid(t2, x, i) = Kid(t, x, i)
  /\ Parent(t2, q) = 0
  /\ Parent(t2, v) = q
  /\ \A x \in Pages \ {q, v} : Parent(t2, x) = Parent(t, x)

GrownNext(nx, q) == [x \in Pages |-> IF x = q THEN 0 ELSE nx[x]]

(* A root above the root is a level more.                                  *)
LEMMA GrownTree ==
  ASSUME NEW t, NEW t2, NEW N, NEW h, NEW nx, NEW pv, Shape(t, N, h), Links(t, N, h, nx, pv),
         NEW q \in Pages \ N, NEW v, v = t.root, Grown(t, t2, q, v)
  PROVE  /\ Shape(t2, N \cup {q}, [h EXCEPT ![q] = h[v] + 1])
         /\ Links(t2, N \cup {q}, [h EXCEPT ![q] = h[v] + 1], GrownNext(nx, q), GrownNext(pv, q))
<1> DEFINE N2 == N \cup {q}
           h2 == [h EXCEPT ![q] = h[v] + 1]
           n2 == GrownNext(nx, q)
           p2 == GrownNext(pv, q)
<1>n. /\ N \subseteq Pages /\ t.root \in N /\ Parent(t, t.root) = 0 /\ 0 \notin Pages
      /\ \A x \in Pages : Kids(t, x) \in Nat
      /\ \A x \in Pages \ N : Kids(t, x) = 0
  BY ShapeFacts
<1>s. /\ \A x \in N : \A i \in 1 .. Kids(t, x) : Kid(t, x, i) \in N /\ Parent(t, Kid(t, x, i)) = x
      /\ \A x \in N : \A i, j \in 1 .. Kids(t, x) : Kid(t, x, i) = Kid(t, x, j) => i = j
  BY ShapeFacts
<1>u. \A x \in N \ {t.root} : Parent(t, x) \in N /\ \E i \in 1 .. Kids(t, Parent(t, x)) : Kid(t, Parent(t, x), i) = x
  BY ShapeFacts
<1>h. /\ h \in [Pages -> Nat]
      /\ \A x \in Pages \ N : h[x] = 0
      /\ \A x \in N : h[x] >= 1 /\ (Kids(t, x) = 0 => h[x] = 1)
      /\ \A x \in N : \A i \in 1 .. Kids(t, x) : h[x] = h[Kid(t, x, i)] + 1
  BY ShapeFacts
<1>l. /\ nx[t.root] = 0 /\ pv[t.root] = 0
      /\ \A x \in N : /\ nx[x] \in N \cup {0} /\ pv[x] \in N \cup {0}
                      /\ nx[x] # 0 => pv[nx[x]] = x /\ h[nx[x]] = h[x]
                      /\ pv[x] # 0 => nx[pv[x]] = x
  BY LinkFacts
<1>q. /\ \A x \in N : \A i \in 1 .. Kids(t, x) - 1 : nx[Kid(t, x, i)] = Kid(t, x, i + 1)
      /\ \A x \in N : Kids(t, x) > 0 =>
           nx[Kid(t, x, Kids(t, x))] = IF nx[x] = 0 THEN 0 ELSE Kid(t, nx[x], 1)
      /\ \A x \in N : nx[x] # 0 => nx[x] \in N /\ (Kids(t, x) > 0 => Kids(t, nx[x]) > 0)
  BY LinkFacts
<1>f. /\ \A x \in Pages \ {q} : Kids(t2, x) = Kids(t, x)
      /\ \A x \in Pages \ {q} : \A i \in 1 .. Kids(t, x) : Kid(t2, x, i) = Kid(t, x, i)
      /\ t2.root = q
      /\ Kids(t2, q) = 1
      /\ Kid(t2, q, 1) = v
  BY DEF Grown
<1>g. /\ Parent(t2, q) = 0
      /\ Parent(t2, v) = q
      /\ \A x \in Pages \ {q, v} : Parent(t2, x) = Parent(t, x)
  BY DEF Grown
<1>v. q \in Pages /\ q \notin N /\ v \in N /\ q # v /\ q # 0 /\ v # 0
  BY <1>n
<1>3. /\ \A x \in Pages : h2[x] = IF x = q THEN h[v] + 1 ELSE h[x]
      /\ h2 \in [Pages -> Nat]
  BY <1>h, <1>n
<1>m. /\ \A x \in N2 : n2[x] = IF x = q THEN 0 ELSE nx[x]
      /\ \A x \in N2 : p2[x] = IF x = q THEN 0 ELSE pv[x]
  BY <1>n DEF GrownNext
<1> HIDE DEF h2, n2, p2
<1>5. \A x \in N : /\ x \in Pages \ {q} /\ Kids(t2, x) = Kids(t, x)
                   /\ \A i \in 1 .. Kids(t, x) : Kid(t2, x, i) = Kid(t, x, i)
  BY <1>f, <1>n, <1>v
<1>6. ASSUME NEW x \in N2, NEW i \in 1 .. Kids(t2, x)
      PROVE  /\ Kid(t2, x, i) \in N2 /\ Parent(t2, Kid(t2, x, i)) = x
             /\ h2[x] = h2[Kid(t2, x, i)] + 1
  <2>1. CASE x = q
    <3>1. i = 1
      BY <2>1, <1>f
    <3> QED
      BY <2>1, <3>1, <1>f, <1>g, <1>3, <1>v, <1>n
  <2>2. CASE x \in N
    <3>1. /\ Kid(t2, x, i) \in N /\ Parent(t, Kid(t2, x, i)) = x /\ h[x] = h[Kid(t2, x, i)] + 1
      BY <2>2, <1>5, <1>s, <1>h
    <3>2. Kid(t2, x, i) # v
      BY <2>2, <3>1, <1>n
    <3> QED
      BY <2>2, <3>1, <3>2, <1>3, <1>g, <1>n, <1>v
  <2> QED
    BY <2>1, <2>2
<1>7. ShapeNodes(t2, N2)
  BY <1>n, <1>f, <1>g, <1>v DEF ShapeNodes, NULL_NODE
<1>8. ShapeDown(t2, N2)
  BY <1>6 DEF ShapeDown
<1>9. ShapeLevels(t2, N2, h2)
  <2>1. \A x \in Pages \ N2 : h2[x] = 0
    BY <1>3, <1>h
  <2>2. \A x \in N2 : h2[x] >= 1 /\ (Kids(t2, x) = 0 => h2[x] = 1)
    <3>1. h[v] \in Nat
      BY <1>h, <1>n
    <3> QED
      BY <3>1, <1>3, <1>h, <1>5, <1>f
  <2> QED
    BY <1>3, <1>6, <2>1, <2>2 DEF ShapeLevels
<1>10. ShapeOnce(t2, N2)
  <2> SUFFICES ASSUME NEW x \in N2, NEW i \in 1 .. Kids(t2, x), NEW j \in 1 .. Kids(t2, x),
                      Kid(t2, x, i) = Kid(t2, x, j)
               PROVE  i = j
    BY DEF ShapeOnce
  <2>1. CASE x = q
    BY <2>1, <1>f
  <2>2. CASE x \in N
    BY <2>2, <1>5, <1>s
  <2> QED
    BY <2>1, <2>2
<1>11. ShapeUp(t2, N2)
  <2> SUFFICES ASSUME NEW x \in N2, x # q
               PROVE  Parent(t2, x) \in N2 /\ \E i \in 1 .. Kids(t2, Parent(t2, x)) : Kid(t2, Parent(t2, x), i) = x
    BY <1>f DEF ShapeUp, IsChild
  <2>1. CASE x = v
    BY <2>1, <1>f, <1>g
  <2>2. CASE x # v
    <3>1. x \in N \ {t.root} /\ Parent(t2, x) = Parent(t, x)
      BY <2>2, <1>g, <1>n
    <3> QED
      BY <3>1, <1>u, <1>5
  <2> QED
    BY <2>1, <2>2
<1>12. LinkEnds(t2, N2, h2, n2, p2)
  <2>1. n2[t2.root] = 0 /\ p2[t2.root] = 0
    BY <1>m, <1>f
  <2>2. ASSUME NEW x \in N
        PROVE  /\ n2[x] \in N2 \cup {0} /\ p2[x] \in N2 \cup {0}
               /\ n2[x] # 0 => p2[n2[x]] = x /\ h2[n2[x]] = h2[x]
               /\ p2[x] # 0 => n2[p2[x]] = x
    BY <1>l, <1>m, <1>3, <1>n, <1>v
  <2> QED
    BY <2>1, <2>2, <1>m DEF LinkEnds
<1>13. ASSUME NEW x \in N2, NEW i \in 1 .. Kids(t2, x) - 1
       PROVE  n2[Kid(t2, x, i)] = Kid(t2, x, i + 1)
  <2>1. x \in N
    BY <1>f
  <2>2. i \in 1 .. Kids(t, x) - 1 /\ i \in 1 .. Kids(t, x) /\ i + 1 \in 1 .. Kids(t, x)
    BY <2>1, <1>5, <1>n
  <2> QED
    BY <2>1, <2>2, <1>5, <1>q, <1>s, <1>m, <1>v
<1>14. ASSUME NEW x \in N2, Kids(t2, x) > 0
       PROVE  n2[Kid(t2, x, Kids(t2, x))] = IF n2[x] = 0 THEN 0 ELSE Kid(t2, n2[x], 1)
  <2>1. CASE x = q
    BY <2>1, <1>f, <1>m, <1>l, <1>v
  <2>2. CASE x \in N
    <3>1. Kids(t, x) > 0 /\ n2[x] = nx[x] /\ Kids(t, x) \in 1 .. Kids(t, x)
      BY <2>2, <1>14, <1>5, <1>m, <1>v, <1>n
    <3>2. /\ Kid(t2, x, Kids(t2, x)) = Kid(t, x, Kids(t, x))
          /\ Kid(t, x, Kids(t, x)) \in N
      BY <2>2, <3>1, <1>5, <1>s
    <3>3. nx[x] # 0 => Kid(t2, nx[x], 1) = Kid(t, nx[x], 1)
      <4>1. nx[x] # 0 => nx[x] \in N /\ 1 \in 1 .. Kids(t, nx[x])
        BY <2>2, <3>1, <1>q, <1>n
      <4> QED
        BY <4>1, <1>5
    <3> QED
      BY <2>2, <3>1, <3>2, <3>3, <1>q, <1>m, <1>v
  <2> QED
    BY <2>1, <2>2
<1>18. Shape(t2, N2, h2)
  BY <1>7, <1>8, <1>9, <1>10, <1>11 DEF Shape
<1>19. Links(t2, N2, h2, n2, p2)
  BY <1>12, <1>13, <1>14 DEF Links, LinkKids
<1> QED
  BY <1>18, <1>19 DEF h2, n2, p2

(* The first child of the first node of a level is the first of its level. *)
LEMMA FirstsFirst ==
  ASSUME NEW t, NEW N, NEW h, NEW nx, NEW pv, Shape(t, N, h), Links(t, N, h, nx, pv),
         NEW x \in N, Kids(t, x) > 0, pv[x] = 0
  PROVE  Kid(t, x, 1) \in N /\ pv[Kid(t, x, 1)] = 0
<1>s. /\ 0 \notin N /\ N \subseteq Pages
      /\ \A z \in Pages : Kids(t, z) \in Nat
      /\ \A z \in N : \A i \in 1 .. Kids(t, z) : Kid(t, z, i) \in N /\ Parent(t, Kid(t, z, i)) = z
      /\ \A z \in N : \A i, j \in 1 .. Kids(t, z) : Kid(t, z, i) = Kid(t, z, j) => i = j
      /\ \A z \in N \ {t.root} : Parent(t, z) \in N /\ \E i \in 1 .. Kids(t, Parent(t, z)) : Kid(t, Parent(t, z), i) = z
  BY ShapeFacts
<1>l. /\ nx[t.root] = 0 /\ pv[t.root] = 0
      /\ \A z \in N : /\ nx[z] \in N \cup {0} /\ pv[z] \in N \cup {0}
                      /\ nx[z] # 0 => pv[nx[z]] = z /\ h[nx[z]] = h[z]
                      /\ pv[z] # 0 => nx[pv[z]] = z
  BY LinkFacts
<1>q. /\ \A z \in N : \A i \in 1 .. Kids(t, z) - 1 : nx[Kid(t, z, i)] = Kid(t, z, i + 1)
      /\ \A z \in N : Kids(t, z) > 0 =>
           nx[Kid(t, z, Kids(t, z))] = IF nx[z] = 0 THEN 0 ELSE Kid(t, nx[z], 1)
      /\ \A z \in N : nx[z] # 0 => nx[z] \in N /\ (Kids(t, z) > 0 => Kids(t, nx[z]) > 0)
  BY LinkFacts
<1> DEFINE c == Kid(t, x, 1)
           y == pv[c]
<1>1. 1 \in 1 .. Kids(t, x) /\ c \in N /\ Parent(t, c) = x
  BY <1>s
<1> SUFFICES ASSUME y # 0 PROVE FALSE
  BY <1>1
<1>2. y \in N /\ nx[y] = c /\ c # 0
  BY <1>1, <1>l, <1>s
<1> HIDE DEF c, y
<1>3. y # t.root
  BY <1>2, <1>l
<1> DEFINE z == Parent(t, y)
<1>4. z \in N
  BY <1>2, <1>3, <1>s
<1>5. PICK i \in 1 .. Kids(t, z) : Kid(t, z, i) = y
  BY <1>2, <1>3, <1>s
<1> HIDE DEF z
<1>6. CASE i < Kids(t, z)
  <2>1. i \in 1 .. Kids(t, z) - 1 /\ i + 1 \in 1 .. Kids(t, z) /\ i + 1 # 1
    BY <1>6, <1>4, <1>5, <1>s
  <2>2. Kid(t, z, i + 1) = c
    BY <2>1, <1>2, <1>4, <1>5, <1>q
  <2>3. z = x
    BY <2>1, <2>2, <1>1, <1>4, <1>s
  <2>4. i + 1 = 1
    BY <2>1, <2>2, <2>3, <1>1, <1>s DEF c
  <2> QED
    BY <2>1, <2>4
<1>7. CASE i = Kids(t, z)
  <2>1. Kids(t, z) > 0
    BY <1>7, <1>4, <1>s
  <2>2. nx[z] # 0 /\ Kid(t, nx[z], 1) = c /\ nx[z] \in N
    BY <2>1, <1>7, <1>2, <1>4, <1>5, <1>q
  <2>3. 1 \in 1 .. Kids(t, nx[z])
    BY <2>1, <2>2, <1>4, <1>q, <1>s
  <2>4. nx[z] = x
    BY <2>2, <2>3, <1>1, <1>s
  <2>5. pv[x] = z
    BY <2>2, <2>4, <1>4, <1>l
  <2> QED
    BY <2>5, <1>4, <1>s
<1> QED
  BY <1>4, <1>5, <1>6, <1>7, <1>s

(* t2 is t without its root q, whose only child c is the new root.         *)
Shrunk(t, t2, q, c) ==
  /\ t2.root = c
  /\ Kids(t2, q) = 0
  /\ \A x \in Pages \ {q} : Kids(t2, x) = Kids(t, x)
  /\ \A x \in Pages \ {q} : \A i \in 1 .. Kids(t, x) : Kid(t2, x, i) = Kid(t, x, i)
  /\ Parent(t2, c) = 0
  /\ \A x \in Pages \ {q, c} : Parent(t2, x) = Parent(t, x)

(* Without a root that has one child, a level less.                        *)
LEMMA ShrunkTree ==
  ASSUME NEW t, NEW t2, NEW N, NEW h, NEW nx, NEW pv, Shape(t, N, h), Links(t, N, h, nx, pv),
         NEW q, q = t.root, Kids(t, q) = 1, NEW c, c = Kid(t, q, 1), Shrunk(t, t2, q, c)
  PROVE  /\ Shape(t2, N \ {q}, [h EXCEPT ![q] = 0])
         /\ Links(t2, N \ {q}, [h EXCEPT ![q] = 0], nx, pv)
<1> DEFINE N2 == N \ {q}
           h2 == [h EXCEPT ![q] = 0]
<1>n. /\ N \subseteq Pages /\ t.root \in N /\ Parent(t, t.root) = 0 /\ 0 \notin Pages
      /\ \A x \in Pages : Kids(t, x) \in Nat
      /\ \A x \in Pages \ N : Kids(t, x) = 0
  BY ShapeFacts
<1>s. /\ \A x \in N : \A i \in 1 .. Kids(t, x) : Kid(t, x, i) \in N /\ Parent(t, Kid(t, x, i)) = x
      /\ \A x \in N : \A i, j \in 1 .. Kids(t, x) : Kid(t, x, i) = Kid(t, x, j) => i = j
  BY ShapeFacts
<1>u. \A x \in N \ {t.root} : Parent(t, x) \in N /\ \E i \in 1 .. Kids(t, Parent(t, x)) : Kid(t, Parent(t, x), i) = x
  BY ShapeFacts
<1>h. /\ h \in [Pages -> Nat]
      /\ \A x \in Pages \ N : h[x] = 0
      /\ \A x \in N : h[x] >= 1 /\ (Kids(t, x) = 0 => h[x] = 1)
      /\ \A x \in N : \A i \in 1 .. Kids(t, x) : h[x] = h[Kid(t, x, i)] + 1
  BY ShapeFacts
<1>l. /\ nx[t.root] = 0 /\ pv[t.root] = 0
      /\ \A x \in N : /\ nx[x] \in N \cup {0} /\ pv[x] \in N \cup {0}
                      /\ nx[x] # 0 => pv[nx[x]] = x /\ h[nx[x]] = h[x]
                      /\ pv[x] # 0 => nx[pv[x]] = x
  BY LinkFacts
<1>q. /\ \A x \in N : \A i \in 1 .. Kids(t, x) - 1 : nx[Kid(t, x, i)] = Kid(t, x, i + 1)
      /\ \A x \in N : Kids(t, x) > 0 =>
           nx[Kid(t, x, Kids(t, x))] = IF nx[x] = 0 THEN 0 ELSE Kid(t, nx[x], 1)
      /\ \A x \in N : nx[x] # 0 => nx[x] \in N /\ (Kids(t, x) > 0 => Kids(t, nx[x]) > 0)
  BY LinkFacts
<1>f. /\ \A x \in Pages \ {q} : Kids(t2, x) = Kids(t, x)
      /\ \A x \in Pages \ {q} : \A i \in 1 .. Kids(t, x) : Kid(t2, x, i) = Kid(t, x, i)
      /\ t2.root = c
      /\ Kids(t2, q) = 0
  BY DEF Shrunk
<1>g. /\ Parent(t2, c) = 0
      /\ \A x \in Pages \ {q, c} : Parent(t2, x) = Parent(t, x)
  BY DEF Shrunk
<1>v. /\ q \in N /\ c \in N /\ c # q /\ Parent(t, c) = q
      /\ h[q] = h[c] + 1
  BY <1>n, <1>s, <1>h
<1>c. nx[c] = 0 /\ pv[c] = 0
  <2>1. pv[c] = 0
    BY <1>v, <1>l, FirstsFirst
  <2>2. nx[c] = 0
    BY <1>v, <1>l, <1>q
  <2> QED BY <2>1, <2>2
<1>3. /\ \A x \in Pages : h2[x] = IF x = q THEN 0 ELSE h[x]
      /\ h2 \in [Pages -> Nat]
  BY <1>h, <1>n
<1> HIDE DEF h2
<1>5. \A x \in N2 : /\ x \in N /\ x \in Pages \ {q} /\ Kids(t2, x) = Kids(t, x)
                    /\ \A i \in 1 .. Kids(t, x) : Kid(t2, x, i) = Kid(t, x, i)
  BY <1>f, <1>n
\* No node but the old root has its child, and none has the old root.
<1>6. ASSUME NEW x \in N2, NEW i \in 1 .. Kids(t2, x)
      PROVE  /\ Kid(t2, x, i) \in N2 /\ Parent(t2, Kid(t2, x, i)) = x
             /\ h2[x] = h2[Kid(t2, x, i)] + 1
  <2>1. /\ Kid(t2, x, i) \in N /\ Parent(t, Kid(t2, x, i)) = x /\ h[x] = h[Kid(t2, x, i)] + 1
    BY <1>5, <1>s, <1>h
  <2>2. Kid(t2, x, i) # c /\ Kid(t2, x, i) # q
    BY <2>1, <1>v, <1>n
  <2> QED
    BY <2>1, <2>2, <1>3, <1>g, <1>n
<1>7. ShapeNodes(t2, N2)
  <2>1. \A x \in Pages : Kids(t2, x) \in Nat
    BY <1>n, <1>f
  <2> QED
    BY <2>1, <1>n, <1>f, <1>g, <1>v DEF ShapeNodes, NULL_NODE
<1>8. ShapeDown(t2, N2)
  BY <1>6 DEF ShapeDown
<1>9. ShapeLevels(t2, N2, h2)
  <2>1. \A x \in Pages \ N2 : h2[x] = 0
    BY <1>3, <1>h
  <2>2. \A x \in N2 : h2[x] >= 1 /\ (Kids(t2, x) = 0 => h2[x] = 1)
    BY <1>3, <1>h, <1>5
  <2> QED
    BY <1>3, <1>6, <2>1, <2>2 DEF ShapeLevels
<1>10. ShapeOnce(t2, N2)
  BY <1>5, <1>s DEF ShapeOnce
<1>11. ShapeUp(t2, N2)
  <2> SUFFICES ASSUME NEW x \in N2, x # c
               PROVE  Parent(t2, x) \in N2 /\ \E i \in 1 .. Kids(t2, Parent(t2, x)) : Kid(t2, Parent(t2, x), i) = x
    BY <1>f DEF ShapeUp, IsChild
  <2>1. x \in N \ {t.root} /\ Parent(t2, x) = Parent(t, x)
    BY <1>g, <1>n
  <2>2. PICK i \in 1 .. Kids(t, Parent(t, x)) : Kid(t, Parent(t, x), i) = x
    BY <2>1, <1>u
  <2>3. Parent(t, x) # q
    <3> SUFFICES ASSUME Parent(t, x) = q PROVE FALSE
      OBVIOUS
    <3>1. i = 1
      BY <2>2
    <3> QED
      BY <3>1, <2>2
  <2> QED
    BY <2>1, <2>2, <2>3, <1>u, <1>5
<1>12. LinkEnds(t2, N2, h2, nx, pv)
  <2>1. ASSUME NEW x \in N2
        PROVE  /\ nx[x] \in N2 \cup {0} /\ pv[x] \in N2 \cup {0}
               /\ nx[x] # 0 => pv[nx[x]] = x /\ h2[nx[x]] = h2[x]
               /\ pv[x] # 0 => nx[pv[x]] = x
    <3>1. nx[x] # q /\ pv[x] # q
      BY <1>l, <1>n, <1>v
    <3> QED
      BY <3>1, <1>l, <1>3, <1>n
  <2> QED
    BY <2>1, <1>c, <1>f DEF LinkEnds
<1>13. ASSUME NEW x \in N2, NEW i \in 1 .. Kids(t2, x) - 1
       PROVE  nx[Kid(t2, x, i)] = Kid(t2, x, i + 1)
  <2>2. i \in 1 .. Kids(t, x) - 1 /\ i \in 1 .. Kids(t, x) /\ i + 1 \in 1 .. Kids(t, x)
    BY <1>5, <1>n
  <2> QED
    BY <2>2, <1>5, <1>q
<1>14. ASSUME NEW x \in N2, Kids(t2, x) > 0
       PROVE  nx[Kid(t2, x, Kids(t2, x))] = IF nx[x] = 0 THEN 0 ELSE Kid(t2, nx[x], 1)
  <2>1. Kids(t, x) > 0 /\ Kids(t, x) \in 1 .. Kids(t, x) /\ x \in N
    BY <1>14, <1>5, <1>n
  <2>2. Kid(t2, x, Kids(t2, x)) = Kid(t, x, Kids(t, x))
    BY <2>1, <1>5
  <2>3. nx[x] # 0 => Kid(t2, nx[x], 1) = Kid(t, nx[x], 1)
    <3>1. nx[x] # 0 => nx[x] \in N2 /\ 1 \in 1 .. Kids(t, nx[x])
      BY <2>1, <1>q, <1>l, <1>n
    <3> QED
      BY <3>1, <1>5
  <2> QED
    BY <2>1, <2>2, <2>3, <1>q
<1>18. Shape(t2, N2, h2)
  BY <1>7, <1>8, <1>9, <1>10, <1>11 DEF Shape
<1>19. Links(t2, N2, h2, nx, pv)
  BY <1>12, <1>13, <1>14 DEF Links, LinkKids
<1> QED
  BY <1>18, <1>19 DEF h2

(* t2 differs from t in items only.                                        *)
SameTree(t, t2) ==
  /\ t2.root = t.root
  /\ \A x \in Pages : Kids(t2, x) = Kids(t, x) /\ Parent(t2, x) = Parent(t, x)
  /\ \A x \in Pages : \A i \in 1 .. Kids(t, x) : Kid(t2, x, i) = Kid(t, x, i)

(* Items do not matter for the shape.                                      *)
LEMMA SameTreeTree ==
  ASSUME NEW t, NEW t2, NEW N, NEW h, NEW nx, NEW pv, Shape(t, N, h), Links(t, N, h, nx, pv),
         SameTree(t, t2)
  PROVE  Shape(t2, N, h) /\ Links(t2, N, h, nx, pv)
<1>n. /\ N \subseteq Pages /\ t.root \in N /\ Parent(t, t.root) = 0 /\ 0 \notin Pages
      /\ \A x \in Pages : Kids(t, x) \in Nat
      /\ \A x \in Pages \ N : Kids(t, x) = 0
  BY ShapeFacts
<1>s. /\ \A x \in N : \A i \in 1 .. Kids(t, x) : Kid(t, x, i) \in N /\ Parent(t, Kid(t, x, i)) = x
      /\ \A x \in N : \A i, j \in 1 .. Kids(t, x) : Kid(t, x, i) = Kid(t, x, j) => i = j
  BY ShapeFacts
<1>u. \A x \in N \ {t.root} : Parent(t, x) \in N /\ \E i \in 1 .. Kids(t, Parent(t, x)) : Kid(t, Parent(t, x), i) = x
  BY ShapeFacts
<1>h. /\ h \in [Pages -> Nat]
      /\ \A x \in Pages \ N : h[x] = 0
      /\ \A x \in N : h[x] >= 1 /\ (Kids(t, x) = 0 => h[x] = 1)
      /\ \A x \in N : \A i \in 1 .. Kids(t, x) : h[x] = h[Kid(t, x, i)] + 1
  BY ShapeFacts
<1>q. /\ \A x \in N : \A i \in 1 .. Kids(t, x) - 1 : nx[Kid(t, x, i)] = Kid(t, x, i + 1)
      /\ \A x \in N : Kids(t, x) > 0 =>
           nx[Kid(t, x, Kids(t, x))] = IF nx[x] = 0 THEN 0 ELSE Kid(t, nx[x], 1)
      /\ \A x \in N : nx[x] # 0 => nx[x] \in N /\ (Kids(t, x) > 0 => Kids(t, nx[x]) > 0)
  BY LinkFacts
<1>f. /\ t2.root = t.root
      /\ \A x \in Pages : Kids(t2, x) = Kids(t, x) /\ Parent(t2, x) = Parent(t, x)
      /\ \A x \in N : \A i \in 1 .. Kids(t, x) : Kid(t2, x, i) = Kid(t, x, i)
  BY <1>n DEF SameTree
<1>l. LinkEnds(t2, N, h, nx, pv)
  BY <1>f DEF Links, LinkEnds
<1>1. ShapeNodes(t2, N)
  BY <1>f, <1>n DEF ShapeNodes, NULL_NODE
<1>2. ShapeDown(t2, N) /\ ShapeOnce(t2, N)
  BY <1>f, <1>n, <1>s DEF ShapeDown, ShapeOnce
<1>3. ShapeUp(t2, N)
  <2> SUFFICES ASSUME NEW x \in N \ {t.root}
               PROVE  Parent(t2, x) \in N /\ \E i \in 1 .. Kids(t2, Parent(t2, x)) : Kid(t2, Parent(t2, x), i) = x
    BY <1>f DEF ShapeUp, IsChild
  <2> QED
    BY <1>f, <1>n, <1>u
<1>4. ShapeLevels(t2, N, h)
  BY <1>f, <1>n, <1>h DEF ShapeLevels
<1>5. LinkKids(t2, N, nx)
  <2>1. ASSUME NEW x \in N, NEW i \in 1 .. Kids(t2, x) - 1
        PROVE  nx[Kid(t2, x, i)] = Kid(t2, x, i + 1)
    <3>1. i \in 1 .. Kids(t, x) - 1 /\ i \in 1 .. Kids(t, x) /\ i + 1 \in 1 .. Kids(t, x)
      BY <1>f, <1>n
    <3> QED
      BY <3>1, <1>f, <1>q
  <2>2. ASSUME NEW x \in N, Kids(t2, x) > 0
        PROVE  nx[Kid(t2, x, Kids(t2, x))] = IF nx[x] = 0 THEN 0 ELSE Kid(t2, nx[x], 1)
    <3>1. Kids(t, x) > 0 /\ Kids(t, x) \in 1 .. Kids(t, x)
      BY <2>2, <1>f, <1>n
    <3>2. nx[x] # 0 => nx[x] \in N /\ 1 \in 1 .. Kids(t, nx[x])
      BY <3>1, <1>q, <1>n
    <3> QED
      BY <3>1, <3>2, <1>f, <1>q, <1>n
  <2> QED
    BY <2>1, <2>2 DEF LinkKids
<1> QED
  BY <1>1, <1>2, <1>3, <1>4, <1>5, <1>l DEF Shape, Links

TreeNodes ==
  [leaf : BOOLEAN, parent : Nat, left : Nat, right : Nat, next_free : Nat,
   items : Seq(Entries), childs : Seq(Pages)]

Trees ==
  [node : [Pages -> TreeNodes], root : Nat, right : Nat, nextFree : Nat, pageNum : Nat,
   entryNum : Nat, status : {"ok", "hung", "aborted"}]

(* The types of the parts of a node.                                       *)
LEMMA TreeTypes ==
  ASSUME NEW t \in Trees, NEW v \in Pages
  PROVE  /\ Childs(t, v) \in Seq(Pages) /\ Kids(t, v) \in Nat /\ DOMAIN Childs(t, v) = 1 .. Kids(t, v)
         /\ Items(t, v) \in Seq(Entries) /\ Size(t, v) \in Nat /\ DOMAIN Items(t, v) = 1 .. Size(t, v)
         /\ Parent(t, v) \in Nat /\ Left(t, v) \in Nat /\ Right(t, v) \in Nat
         /\ Childs(t, v) = <<>> <=> Kids(t, v) = 0
         /\ Items(t, v) = <<>> <=> Size(t, v) = 0
         /\ \A i \in 1 .. Kids(t, v) : Kid(t, v, i) \in Pages
         /\ \A i \in 1 .. Size(t, v) : Item(t, v, i) \in Entries
         /\ t.node[v] \in TreeNodes
<1>1. t.node[v] \in TreeNodes
  BY DEF Trees
<1>2. /\ Childs(t, v) \in Seq(Pages) /\ Items(t, v) \in Seq(Entries)
      /\ Parent(t, v) \in Nat /\ Left(t, v) \in Nat /\ Right(t, v) \in Nat
  BY <1>1 DEF TreeNodes, Childs, Items, Parent, Left, Right
<1>3. /\ Kids(t, v) \in Nat /\ DOMAIN Childs(t, v) = 1 .. Kids(t, v)
      /\ Size(t, v) \in Nat /\ DOMAIN Items(t, v) = 1 .. Size(t, v)
  BY <1>2, LenProperties DEF Kids, Size
<1>4. Childs(t, v) = <<>> <=> Kids(t, v) = 0
  BY <1>2, EmptySeq DEF Kids
<1>5. Items(t, v) = <<>> <=> Size(t, v) = 0
  BY <1>2, EmptySeq DEF Size
<1>6. \A i \in 1 .. Kids(t, v) : Kid(t, v, i) \in Pages
  BY <1>2, ElementOfSeq DEF Kids, Kid
<1>7. \A i \in 1 .. Size(t, v) : Item(t, v, i) \in Entries
  BY <1>2, ElementOfSeq DEF Size, Item
<1> QED
  BY <1>1, <1>2, <1>3, <1>4, <1>5, <1>6, <1>7

(* What holds of a node when it holds of the lower ones holds of all.      *)
LEMMA LevelInduction ==
  ASSUME NEW S, NEW h \in [S -> Nat], NEW P \in SUBSET S,
         \A v \in S : (\A w \in S : h[w] < h[v] => w \in P) => v \in P
  PROVE  P = S
<1> SUFFICES ASSUME S \ P # {} PROVE FALSE
  OBVIOUS
<1> DEFINE T == {h[v] : v \in S \ P}
<1>1. T \in SUBSET Nat /\ T # {}
  OBVIOUS
<1>2. PICK n \in T : \A m \in T : n <= m
  <2> HIDE DEF T
  <2> QED
    BY <1>1, LeastExists
<1>3. PICK v \in S \ P : h[v] = n
  BY <1>2
<1>4. \A w \in S : h[w] < h[v] => w \in P
  <2> SUFFICES ASSUME NEW w \in S, h[w] < h[v], w \notin P PROVE FALSE
    OBVIOUS
  <2>1. h[w] \in T /\ h[w] \in Nat /\ n \in Nat
    BY <1>1
  <2> HIDE DEF T
  <2> QED
    BY <2>1, <1>2, <1>3
<1> QED
  BY <1>3, <1>4

(* There is a highest level.                                               *)
LEMMA Bounded ==
  ASSUME NEW h \in [Pages -> Nat]
  PROVE  \E b \in Nat : \A v \in Pages : h[v] <= b
<1> DEFINE T == {n \in Nat : \E b \in Nat : \A v \in Pages : v <= n => h[v] <= b}
<1>1. 0 \in T
  BY DEF Pages
<1>2. ASSUME NEW n \in T PROVE n + 1 \in T
  <2>1. PICK b \in Nat : \A v \in Pages : v <= n => h[v] <= b
    BY <1>2
  <2> DEFINE b2 == IF n + 1 \in Pages THEN b + h[n + 1] ELSE b
  <2>2. b2 \in Nat
    OBVIOUS
  <2>3. ASSUME NEW v \in Pages, v <= n + 1
        PROVE  h[v] <= b2
    <3>1. h[v] \in Nat /\ v \in Nat /\ n \in Nat
      BY <1>2 DEF Pages
    <3>2. v <= n \/ v = n + 1
      BY <2>3, <3>1
    <3>3. n + 1 \in Pages => h[n + 1] \in Nat
      OBVIOUS
    <3> QED
      BY <2>1, <3>1, <3>2, <3>3
  <2> QED
    BY <2>2, <2>3
<1>3. T = Nat
  <2>1. T \in SUBSET Nat
    OBVIOUS
  <2> HIDE DEF T
  <2> QED
    BY <1>1, <1>2, <2>1, Induction
<1>4. MaxNode \in T
  <2> HIDE DEF T
  <2> QED
    BY <1>3, MaxNodeAssumption
<1> QED
  BY <1>4, MaxNodeAssumption DEF Pages

(* The root is the highest node.                                           *)
LEMMA RootHighest ==
  ASSUME NEW t, NEW N, NEW h, Shape(t, N, h)
  PROVE  h \in [Pages -> 0 .. h[t.root]] /\ h[t.root] \in Nat
<1>s. /\ N \subseteq Pages /\ t.root \in N
      /\ h \in [Pages -> Nat]
      /\ \A x \in Pages \ N : h[x] = 0
      /\ \A x \in N : \A i \in 1 .. Kids(t, x) : h[x] = h[Kid(t, x, i)] + 1
      /\ \A x \in N \ {t.root} : Parent(t, x) \in N /\ \E i \in 1 .. Kids(t, Parent(t, x)) : Kid(t, Parent(t, x), i) = x
  BY ShapeFacts
<1> DEFINE T == {b \in Nat : \A v \in Pages : h[v] <= b}
<1>1. T \in SUBSET Nat /\ T # {}
  BY <1>s, Bounded
<1>2. PICK b \in T : \A m \in T : b <= m
  <2> HIDE DEF T
  <2> QED
    BY <1>1, LeastExists
<1>3. \E v \in Pages : h[v] = b
  <2> SUFFICES ASSUME \A v \in Pages : h[v] # b PROVE FALSE
    OBVIOUS
  <2>1. b # 0
    <3>1. \A v \in Pages : h[v] <= b /\ h[v] \in Nat /\ b \in Nat
      BY <1>2, <1>s
    <3>2. t.root \in Pages
      BY <1>s
    <3> QED
      BY <3>1, <3>2
  <2>2. b - 1 \in Nat /\ ~(b <= b - 1)
    BY <2>1, <1>2
  <2>3. \A v \in Pages : h[v] <= b - 1
    BY <1>2, <1>s
  <2>4. b - 1 \in T
    BY <2>2, <2>3
  <2> HIDE DEF T
  <2> QED
    BY <1>2, <2>2, <2>4
<1>4. PICK v \in Pages : h[v] = b
  BY <1>3
<1>5. \A x \in Pages : h[x] \in Nat /\ h[x] <= b /\ b \in Nat
  BY <1>2, <1>s
<1>6. h[t.root] = b
  <2> SUFFICES ASSUME h[t.root] # b PROVE FALSE
    OBVIOUS
  <2>1. b # 0
    BY <1>5, <1>s
  <2>2. v \in N \ {t.root}
    BY <1>4, <1>s, <2>1
  <2>3. PICK i \in 1 .. Kids(t, Parent(t, v)) : Kid(t, Parent(t, v), i) = v
    BY <2>2, <1>s
  <2>4. Parent(t, v) \in N /\ h[Parent(t, v)] = b + 1
    BY <2>2, <2>3, <1>4, <1>s
  <2> QED
    BY <2>4, <1>5, <1>s
<1> QED
  BY <1>5, <1>6, <1>s

(* A way down from a node leads to a leaf below it.                        *)
LEMMA LeafBelowIs ==
  ASSUME NEW t \in Trees, NEW N, NEW h, Shape(t, N, h), NEW child,
         \A v \in N : Kids(t, v) > 0 => \E i \in 1 .. Kids(t, v) : child[v] = Kid(t, v, i)
  PROVE  \A v \in N :
           /\ LeafBelow(t, child)[v] \in N
           /\ Kids(t, LeafBelow(t, child)[v]) = 0
           /\ LeafBelow(t, child)[v] = IF Kids(t, v) = 0 THEN v ELSE LeafBelow(t, child)[child[v]]
<1>s. /\ N \subseteq Pages /\ t.root \in N
      /\ \A x \in Pages : Kids(t, x) \in Nat
      /\ \A x \in Pages \ N : Kids(t, x) = 0
      /\ h \in [Pages -> Nat]
      /\ \A x \in N : \A i \in 1 .. Kids(t, x) : Kid(t, x, i) \in N /\ h[x] = h[Kid(t, x, i)] + 1
  BY ShapeFacts
<1>b. h \in [Pages -> 0 .. h[t.root]] /\ h[t.root] \in Nat
  BY RootHighest
<1>e. \A v \in Pages : Childs(t, v) = <<>> <=> Kids(t, v) = 0
  BY TreeTypes
<1>c. \A v \in N : Kids(t, v) > 0 => child[v] \in N /\ h[child[v]] < h[v]
  BY <1>s
<1> DEFINE X == Pages
           F(f) == [v \in Pages |-> IF Childs(t, v) = <<>> THEN v ELSE f[child[v]]]
           G == [x \in Pages \X [Pages -> X] |-> IF Childs(t, x[1]) = <<>> THEN x[1] ELSE x[2][child[x[1]]]]
<1>d. \A v \in Pages : Childs(t, v) # <<>> => child[v] \in Pages /\ h[child[v]] < h[v]
  BY <1>c, <1>e, <1>s
<1>1. G \in [Pages \X [Pages -> X] -> X]
  BY <1>d
<1>2. \A v \in Pages : \A f, g \in [Pages -> X] :
        (\A w \in Pages : h[w] < h[v] => f[w] = g[w]) => G[<<v, f>>] = G[<<v, g>>]
  BY <1>d
<1>3. PICK f \in [Pages -> X] : \A v \in Pages : f[v] = G[<<v, f>>]
  <2>1. X # {}
    BY <1>s
  <2> HIDE DEF G, X
  <2>2. IsRecursion(Pages, X, h[t.root], h, G)
    BY <1>b, <1>1, <1>2, <2>1 DEF IsRecursion
  <2> QED
    BY <2>2, RecursionExists
<1>4. f = F(f)
  BY <1>3
<1>5. LeafBelow(t, child) = CHOOSE g : g = F(g)
  BY DEF LeafBelow
<1> DEFINE L == LeafBelow(t, child)
<1>6. L = F(L)
  <2> HIDE DEF F
  <2> QED
    BY <1>4, <1>5
<1> HIDE DEF L
<1>7. \A v \in N : L[v] = IF Kids(t, v) = 0 THEN v ELSE L[child[v]]
  BY <1>6, <1>e, <1>s
<1> DEFINE P == {v \in N : L[v] \in N /\ Kids(t, L[v]) = 0}
           g == [v \in N |-> h[v]]
<1>8. P = N
  <2>1. g \in [N -> Nat]
    BY <1>s
  <2>2. ASSUME NEW v \in N, \A w \in N : g[w] < g[v] => w \in P
        PROVE  v \in P
    <3>1. CASE Kids(t, v) = 0
      BY <3>1, <1>7
    <3>2. CASE Kids(t, v) > 0
      <4>1. child[v] \in P
        BY <3>2, <2>2, <1>c
      <4> QED
        BY <4>1, <3>2, <1>7
    <3> QED
      BY <3>1, <3>2, <1>s
  <2>3. P \in SUBSET N
    OBVIOUS
  <2> HIDE DEF P, g
  <2> QED
    BY <2>1, <2>2, <2>3, LevelInduction
<1>9. \A v \in N : L[v] \in N /\ Kids(t, L[v]) = 0
  BY <1>8
<1> QED
  BY <1>7, <1>9 DEF L

(* The children, as a set.                                                 *)
LEMMA ChildSet ==
  ASSUME NEW t \in Trees, NEW v \in Pages
  PROVE  ToSet(Childs(t, v)) = {Kid(t, v, i) : i \in 1 .. Kids(t, v)}
BY TreeTypes DEF ToSet, Kid

(* Height gives the levels.                                                *)
LEMMA HeightIs ==
  ASSUME NEW t \in Trees, NEW N, NEW h, Shape(t, N, h)
  PROVE  \A v \in N : Height(t)[v] = h[v]
<1>s. /\ N \subseteq Pages /\ t.root \in N
      /\ \A x \in Pages : Kids(t, x) \in Nat
      /\ \A x \in Pages \ N : Kids(t, x) = 0
      /\ h \in [Pages -> Nat]
      /\ \A x \in N : \A i \in 1 .. Kids(t, x) : Kid(t, x, i) \in N /\ h[x] = h[Kid(t, x, i)] + 1
      /\ \A x \in N : Kids(t, x) = 0 => h[x] = 1
  BY ShapeFacts
<1>b. h \in [Pages -> 0 .. h[t.root]] /\ h[t.root] \in Nat
  BY RootHighest
<1>e. \A v \in Pages : Childs(t, v) = <<>> <=> Kids(t, v) = 0
  BY TreeTypes
<1> DEFINE C(v) == Childs(t, v)[1]
<1>c. \A v \in N : Kids(t, v) > 0 => C(v) = Kid(t, v, 1) /\ C(v) \in N /\ h[v] = h[C(v)] + 1
  BY <1>s DEF Kid
<1> HIDE DEF C
<1> DEFINE X == Nat
           F(f) == [v \in Pages |-> IF Childs(t, v) = <<>> THEN 1 ELSE 1 + f[C(v)]]
           G == [x \in Pages \X [Pages -> X] |-> IF Childs(t, x[1]) = <<>> THEN 1 ELSE 1 + x[2][C(x[1])]]
<1>d. \A v \in Pages : Childs(t, v) # <<>> => C(v) \in Pages /\ h[C(v)] < h[v]
  <2>1. ASSUME NEW v \in Pages, Childs(t, v) # <<>>
        PROVE  C(v) \in Pages /\ h[C(v)] < h[v]
    <3>1. v \in N /\ Kids(t, v) > 0
      BY <2>1, <1>e, <1>s
    <3>2. h[v] = h[C(v)] + 1 /\ h[C(v)] \in Nat /\ C(v) \in Pages
      BY <3>1, <1>c, <1>s
    <3> QED
      BY <3>2
  <2> QED
    BY <2>1
<1>1. G \in [Pages \X [Pages -> X] -> X]
  BY <1>d
<1>2. \A v \in Pages : \A f, g \in [Pages -> X] :
        (\A w \in Pages : h[w] < h[v] => f[w] = g[w]) => G[<<v, f>>] = G[<<v, g>>]
  BY <1>d
<1>3. PICK f \in [Pages -> X] : \A v \in Pages : f[v] = G[<<v, f>>]
  <2>1. X # {}
    OBVIOUS
  <2> HIDE DEF G, X
  <2>2. IsRecursion(Pages, X, h[t.root], h, G)
    BY <1>b, <1>1, <1>2, <2>1 DEF IsRecursion
  <2> QED
    BY <2>2, RecursionExists
<1>4. f = F(f)
  BY <1>3
<1>5. Height(t) = CHOOSE g : g = F(g)
  BY DEF Height, C
<1> DEFINE L == Height(t)
<1>6. L = F(L)
  <2> HIDE DEF F
  <2> QED
    BY <1>4, <1>5
<1> HIDE DEF L
<1>7. \A v \in N : L[v] = IF Kids(t, v) = 0 THEN 1 ELSE 1 + L[C(v)]
  BY <1>6, <1>e, <1>s
<1> DEFINE P == {v \in N : L[v] = h[v]}
           g == [v \in N |-> h[v]]
<1>8. P = N
  <2>1. g \in [N -> Nat]
    BY <1>s
  <2>2. ASSUME NEW v \in N, \A w \in N : g[w] < g[v] => w \in P
        PROVE  v \in P
    <3>1. CASE Kids(t, v) = 0
      BY <3>1, <1>7, <1>s
    <3>2. CASE Kids(t, v) > 0
      <4>1. C(v) \in N /\ h[v] = h[C(v)] + 1 /\ h[C(v)] \in Nat
        BY <3>2, <1>c, <1>s
      <4>2. C(v) \in P
        BY <4>1, <2>2
      <4> QED
        BY <4>1, <4>2, <3>2, <1>7
    <3> QED
      BY <3>1, <3>2, <1>s
  <2>3. P \in SUBSET N
    OBVIOUS
  <2> HIDE DEF P, g
  <2> QED
    BY <2>1, <2>2, <2>3, LevelInduction
<1> QED
  BY <1>8 DEF L

(* The pages below the root are the nodes.                                 *)
LEMMA NodesAre ==
  ASSUME NEW t \in Trees, NEW N, NEW h, Shape(t, N, h)
  PROVE  NodesOf(t) = N
<1>s. /\ N \subseteq Pages /\ t.root \in N
      /\ \A x \in Pages : Kids(t, x) \in Nat
      /\ \A x \in Pages \ N : Kids(t, x) = 0
      /\ h \in [Pages -> Nat]
      /\ \A x \in N : \A i \in 1 .. Kids(t, x) : Kid(t, x, i) \in N /\ h[x] = h[Kid(t, x, i)] + 1
      /\ \A x \in N \ {t.root} : Parent(t, x) \in N /\ \E i \in 1 .. Kids(t, Parent(t, x)) : Kid(t, Parent(t, x), i) = x
  BY ShapeFacts
<1>b. h \in [Pages -> 0 .. h[t.root]] /\ h[t.root] \in Nat
  BY RootHighest
<1> DEFINE K(v) == ToSet(Childs(t, v))
<1>e. /\ \A v \in N : K(v) = {Kid(t, v, i) : i \in 1 .. Kids(t, v)}
      /\ \A v \in Pages \ N : K(v) = {}
  <2>1. \A v \in Pages : K(v) = {Kid(t, v, i) : i \in 1 .. Kids(t, v)}
    BY ChildSet
  <2> HIDE DEF K
  <2> QED
    BY <2>1, <1>s
<1> HIDE DEF K
<1>c. \A v \in N : \A c \in K(v) : c \in N /\ h[v] = h[c] + 1
  BY <1>e, <1>s
<1>d. \A v \in Pages : \A c \in K(v) : c \in Pages /\ h[c] < h[v]
  <2>1. \A x \in Pages : h[x] \in Nat
    BY <1>s
  <2> QED
    BY <1>c, <1>e, <1>s, <2>1
<1> DEFINE X == SUBSET Pages
           H(v, f) == {v} \cup UNION {f[c] : c \in K(v)}
           F(f) == [v \in Pages |-> H(v, f)]
           G == [x \in Pages \X [Pages -> X] |-> H(x[1], x[2])]
<1>1. G \in [Pages \X [Pages -> X] -> X]
  <2>1. ASSUME NEW v \in Pages, NEW f \in [Pages -> X]
        PROVE  H(v, f) \in X
    BY <1>d
  <2> HIDE DEF H, X
  <2> QED
    BY <2>1
<1>2. ASSUME NEW v \in Pages, NEW f \in [Pages -> X], NEW g \in [Pages -> X],
             \A w \in Pages : h[w] < h[v] => f[w] = g[w]
      PROVE  G[<<v, f>>] = G[<<v, g>>]
  <2>1. \A c \in K(v) : f[c] = g[c]
    BY <1>d, <1>2
  <2>2. {f[c] : c \in K(v)} = {g[c] : c \in K(v)}
    BY <2>1
  <2>3. H(v, f) = H(v, g)
    BY <2>2
  <2> HIDE DEF H, X
  <2> QED
    BY <2>3
<1>3. PICK f \in [Pages -> X] : \A v \in Pages : f[v] = G[<<v, f>>]
  <2>1. X # {}
    OBVIOUS
  <2> HIDE DEF G, X
  <2>2. IsRecursion(Pages, X, h[t.root], h, G)
    BY <1>b, <1>1, <1>2, <2>1 DEF IsRecursion
  <2> QED
    BY <2>2, RecursionExists
<1>4. f = F(f)
  <2> HIDE DEF H, X
  <2> QED
    BY <1>3
<1>5. NodesBelow(t) = CHOOSE g : g = F(g)
  BY DEF NodesBelow, K
<1> DEFINE L == NodesBelow(t)
<1>6. L = F(L)
  <2> HIDE DEF F
  <2> QED
    BY <1>4, <1>5
<1> HIDE DEF L
<1>7. \A v \in N : L[v] = {v} \cup UNION {L[c] : c \in K(v)}
  BY <1>6, <1>s
<1> DEFINE g == [v \in N |-> h[v]]
<1>g. g \in [N -> Nat] /\ \A v \in N : g[v] = h[v]
  BY <1>s
<1> DEFINE P == {v \in N : /\ L[v] \subseteq N
                           /\ \A q \in L[v] : K(q) \subseteq L[v]}
<1>8. P = N
  <2>2. ASSUME NEW v \in N, \A w \in N : g[w] < g[v] => w \in P
        PROVE  v \in P
    <3>1. \A c \in K(v) : c \in N /\ c \in P
      <4>1. \A c \in K(v) : c \in N /\ h[v] = h[c] + 1 /\ h[c] \in Nat
        BY <1>c, <1>s
      <4>2. \A c \in K(v) : c \in N /\ g[c] < g[v]
        BY <4>1, <1>g
      <4> HIDE DEF g, P
      <4> QED
        BY <4>2, <2>2
    <3>2. \A c \in K(v) : L[c] \subseteq N /\ c \in L[c] /\ \A q \in L[c] : K(q) \subseteq L[c]
      BY <3>1, <1>7
    <3>3. L[v] \subseteq N
      BY <3>2, <1>7
    <3>4. ASSUME NEW q \in L[v] PROVE K(q) \subseteq L[v]
      <4>1. CASE q = v
        BY <4>1, <3>2, <1>7
      <4>2. CASE q # v
        <5>1. PICK c \in K(v) : q \in L[c]
          BY <4>2, <1>7, <3>4
        <5> QED
          BY <5>1, <3>2, <1>7
      <4> QED
        BY <4>1, <4>2
    <3> QED
      BY <3>3, <3>4
  <2>3. P \in SUBSET N
    OBVIOUS
  <2> HIDE DEF P, g
  <2> QED
    BY <1>g, <2>2, <2>3, LevelInduction
<1>9. L[t.root] \subseteq N /\ t.root \in L[t.root] /\ \A q \in L[t.root] : K(q) \subseteq L[t.root]
  BY <1>8, <1>7, <1>s
<1> DEFINE d == [v \in N |-> h[t.root] - h[v]]
           Q == {v \in N : v \in L[t.root]}
<1>10. d \in [N -> Nat] /\ \A v \in N : d[v] = h[t.root] - h[v]
  <2>1. \A v \in N : h[v] \in Nat /\ h[v] <= h[t.root]
    BY <1>b, <1>s
  <2> QED
    BY <2>1, <1>b
<1>11. Q = N
  <2>2. ASSUME NEW v \in N, \A w \in N : d[w] < d[v] => w \in Q
        PROVE  v \in Q
    <3>1. CASE v = t.root
      BY <3>1, <1>9
    <3>2. CASE v # t.root
      <4> DEFINE p == Parent(t, v)
      <4>1. p \in N /\ v \in K(p)
        BY <3>2, <1>s, <1>e
      <4> HIDE DEF p
      <4>2. h[p] = h[v] + 1 /\ h[v] \in Nat
        BY <4>1, <1>c, <1>s
      <4>3. d[p] < d[v]
        BY <4>1, <4>2, <1>10, <1>b
      <4>4. p \in L[t.root]
        BY <4>1, <4>3, <2>2
      <4> QED
        BY <4>1, <4>4, <1>9
    <3> QED
      BY <3>1, <3>2
  <2>3. Q \in SUBSET N
    OBVIOUS
  <2> HIDE DEF Q, d
  <2> QED
    BY <1>10, <2>2, <2>3, LevelInduction
<1> QED
  BY <1>9, <1>11 DEF L, NodesOf

LeafLinks(t, N, nx, pv) ==
  \A v \in N : Kids(t, v) = 0 =>
    Right(t, v) = nx[v] /\ Left(t, v) = pv[v] /\ (pv[v] = 0 => t.right = v)

(* The last leaf below a node and the first leaf below the next are        *)
(* neighbours.                                                             *)
LEMMA ChainIs ==
  ASSUME NEW t \in Trees, NEW N, NEW h, NEW nx, NEW pv, Shape(t, N, h), Links(t, N, h, nx, pv),
         LeafLinks(t, N, nx, pv)
  PROVE  LET first == LeftmostLeaf(t)
             last  == RightmostLeaf(t)
         IN  /\ t.right = first[t.root]
             /\ t.node[first[t.root]].left = NULL_NODE
             /\ t.node[last[t.root]].right = NULL_NODE
             /\ \A v \in N : \A i \in 1 .. Kids(t, v) - 1 :
                  LET a == last[Kid(t, v, i)]
                      b == first[Kid(t, v, i + 1)]
                  IN  t.node[a].right = b /\ t.node[b].left = a
<1>s. /\ N \subseteq Pages /\ t.root \in N /\ 0 \notin N
      /\ \A x \in Pages : Kids(t, x) \in Nat
      /\ h \in [Pages -> Nat]
      /\ \A x \in N : \A i \in 1 .. Kids(t, x) : Kid(t, x, i) \in N /\ h[x] = h[Kid(t, x, i)] + 1
      /\ \A x \in N : Kids(t, x) = 0 => h[x] = 1
  BY ShapeFacts
<1>l. /\ nx[t.root] = 0 /\ pv[t.root] = 0
      /\ \A x \in N : /\ nx[x] \in N \cup {0} /\ pv[x] \in N \cup {0}
                      /\ nx[x] # 0 => pv[nx[x]] = x /\ h[nx[x]] = h[x]
                      /\ pv[x] # 0 => nx[pv[x]] = x
  BY LinkFacts
<1>q. /\ \A x \in N : \A i \in 1 .. Kids(t, x) - 1 : nx[Kid(t, x, i)] = Kid(t, x, i + 1)
      /\ \A x \in N : Kids(t, x) > 0 =>
           nx[Kid(t, x, Kids(t, x))] = IF nx[x] = 0 THEN 0 ELSE Kid(t, nx[x], 1)
      /\ \A x \in N : nx[x] # 0 => nx[x] \in N /\ (Kids(t, x) > 0 => Kids(t, nx[x]) > 0)
  BY LinkFacts
<1> DEFINE C == [v \in Pages |-> Childs(t, v)[1]]
           D == [v \in Pages |-> Childs(t, v)[Len(Childs(t, v))]]
           first == LeftmostLeaf(t)
           last == RightmostLeaf(t)
<1>c. \A v \in N : C[v] = Kid(t, v, 1) /\ D[v] = Kid(t, v, Kids(t, v))
  BY <1>s DEF Kid, Kids
<1>d. \A v \in N : Kids(t, v) > 0 => /\ \E i \in 1 .. Kids(t, v) : C[v] = Kid(t, v, i)
                                     /\ \E i \in 1 .. Kids(t, v) : D[v] = Kid(t, v, i)
  <2>1. \A v \in N : Kids(t, v) > 0 => 1 \in 1 .. Kids(t, v) /\ Kids(t, v) \in 1 .. Kids(t, v)
    BY <1>s
  <2> QED
    BY <2>1, <1>c
<1> HIDE DEF C, D
<1>1. \A v \in N : /\ first[v] \in N /\ Kids(t, first[v]) = 0
                   /\ first[v] = IF Kids(t, v) = 0 THEN v ELSE first[C[v]]
  <2>1. first = LeafBelow(t, C)
    BY DEF LeftmostLeaf, C
  <2> QED
    BY <2>1, <1>d, LeafBelowIs
<1>2. \A v \in N : /\ last[v] \in N /\ Kids(t, last[v]) = 0
                   /\ last[v] = IF Kids(t, v) = 0 THEN v ELSE last[D[v]]
  <2>1. last = LeafBelow(t, D)
    BY DEF RightmostLeaf, D
  <2> QED
    BY <2>1, <1>d, LeafBelowIs
<1> HIDE DEF first, last
<1> DEFINE P == {v \in N : /\ nx[last[v]] = IF nx[v] = 0 THEN 0 ELSE first[nx[v]]
                           /\ pv[v] = 0 => pv[first[v]] = 0}
           g == [v \in N |-> h[v]]
<1>3. P = N
  <2>1. g \in [N -> Nat]
    BY <1>s
  <2>2. ASSUME NEW v \in N, \A w \in N : g[w] < g[v] => w \in P
        PROVE  v \in P
    <3>1. CASE Kids(t, v) = 0
      <4>1. nx[v] # 0 => Kids(t, nx[v]) = 0
        <5>1. h[v] = 1
          BY <3>1, <1>s
        <5>2. ASSUME NEW w \in N, Kids(t, w) > 0 PROVE h[w] # 1
          <6>1. 1 \in 1 .. Kids(t, w)
            BY <5>2, <1>s
          <6>2. Kid(t, w, 1) \in N /\ h[w] = h[Kid(t, w, 1)] + 1
            BY <6>1, <1>s
          <6>3. h[Kid(t, w, 1)] >= 1
            BY <6>2, ShapeFacts
          <6> QED
            BY <6>2, <6>3, <1>s
        <5> QED
          BY <5>1, <5>2, <1>l, <1>s
      <4> QED
        BY <3>1, <4>1, <1>1, <1>2, <1>l
    <3>2. CASE Kids(t, v) > 0
      <4>1. Kids(t, v) \in 1 .. Kids(t, v) /\ 1 \in 1 .. Kids(t, v)
        BY <3>2, <1>s
      <4>2. /\ C[v] \in N /\ h[v] = h[C[v]] + 1 /\ h[C[v]] \in Nat
            /\ D[v] \in N /\ h[v] = h[D[v]] + 1 /\ h[D[v]] \in Nat
        BY <4>1, <1>c, <1>s
      <4>3. C[v] \in P /\ D[v] \in P
        BY <4>2, <2>2
      <4>4. nx[D[v]] = IF nx[v] = 0 THEN 0 ELSE Kid(t, nx[v], 1)
        BY <3>2, <1>c, <1>q
      <4>5. nx[v] # 0 => first[nx[v]] = first[Kid(t, nx[v], 1)] /\ Kid(t, nx[v], 1) # 0
        <5>1. nx[v] # 0 => nx[v] \in N /\ Kids(t, nx[v]) > 0 /\ 1 \in 1 .. Kids(t, nx[v])
          BY <3>2, <1>q, <1>s
        <5> QED
          BY <5>1, <1>1, <1>c, <1>s
      <4>6. nx[last[v]] = IF nx[v] = 0 THEN 0 ELSE first[nx[v]]
        BY <3>2, <4>3, <4>4, <4>5, <1>2
      <4>7. pv[v] = 0 => pv[C[v]] = 0
        BY <3>2, <1>c, FirstsFirst
      <4> QED
        BY <3>2, <4>3, <4>6, <4>7, <1>1
    <3> QED
      BY <3>1, <3>2, <1>s
  <2>3. P \in SUBSET N
    OBVIOUS
  <2> HIDE DEF P, g
  <2> QED
    BY <2>1, <2>2, <2>3, LevelInduction
<1>4. \A v \in N : Kids(t, v) = 0 => t.node[v].right = nx[v] /\ t.node[v].left = pv[v] /\ (pv[v] = 0 => t.right = v)
  BY DEF LeafLinks, Right, Left
<1>5. ASSUME NEW v \in N, NEW i \in 1 .. Kids(t, v) - 1
      PROVE  /\ t.node[last[Kid(t, v, i)]].right = first[Kid(t, v, i + 1)]
             /\ t.node[first[Kid(t, v, i + 1)]].left = last[Kid(t, v, i)]
  <2>1. i \in 1 .. Kids(t, v) /\ i + 1 \in 1 .. Kids(t, v)
    BY <1>s
  <2>2. Kid(t, v, i) \in N /\ Kid(t, v, i + 1) \in N /\ nx[Kid(t, v, i)] = Kid(t, v, i + 1)
    BY <2>1, <1>s, <1>q
  <2>3. nx[last[Kid(t, v, i)]] = first[Kid(t, v, i + 1)]
    BY <2>2, <1>3, <1>s
  <2>4. last[Kid(t, v, i)] \in N /\ first[Kid(t, v, i + 1)] \in N
    BY <2>2, <1>1, <1>2
  <2>5. pv[first[Kid(t, v, i + 1)]] = last[Kid(t, v, i)]
    BY <2>3, <2>4, <1>l, <1>s
  <2> QED
    BY <2>2, <2>3, <2>5, <1>1, <1>2, <1>4
<1>6. /\ t.right = first[t.root]
      /\ t.node[first[t.root]].left = NULL_NODE
      /\ t.node[last[t.root]].right = NULL_NODE
  BY <1>1, <1>2, <1>3, <1>4, <1>l, <1>s DEF NULL_NODE
<1> QED
  BY <1>5, <1>6 DEF first, last

NextFree(t, v) == t.node[v].next_free

Unused(t, N) == (1 .. t.pageNum - 1) \ N

(* q is the first page of S, or the number n, behind p.                    *)
After(S, n, p, q) == q \in S \cup {n} /\ q > p /\ \A x \in S \cup {n} : x > p => q <= x

FreeList(t, N) ==
  /\ t.pageNum \in 2 .. MaxNode + 1
  /\ N \subseteq 1 .. t.pageNum - 1
  /\ After(Unused(t, N), t.pageNum, 0, t.nextFree)
  /\ \A p \in Unused(t, N) : After(Unused(t, N), t.pageNum, p, NextFree(t, p))

(* An empty page is a node.                                                *)
LEMMA EmptyNodeType == EmptyNode \in TreeNodes
<1>1. <<>> \in Seq(Entries) /\ <<>> \in Seq(Pages)
  OBVIOUS
<1> QED
  BY <1>1 DEF EmptyNode, TreeNodes, NULL_NODE

(* createNode takes the first free page and leaves the others on the list. *)
LEMMA CreateNodeIs ==
  ASSUME NEW t \in Trees, NEW N, FreeList(t, N), t.pageNum <= MaxNode, NEW leaf \in BOOLEAN
  PROVE  LET t2 == CreateNode(t, leaf)
             u  == t.nextFree
         IN  /\ t2 \in Trees
             /\ u \in Pages \ N /\ u <= t.pageNum
             /\ FreeList(t2, N \cup {u})
             /\ t.pageNum <= t2.pageNum /\ t2.pageNum <= t.pageNum + 1 /\ u < t2.pageNum
             /\ t2.root = t.root /\ t2.right = t.right
             /\ t2.entryNum = t.entryNum /\ t2.status = t.status
             /\ t2.node[u] = [EmptyNode EXCEPT !.leaf = leaf]
             /\ \A x \in Pages \ {u} : t2.node[x] = t.node[x]
<1> DEFINE u == t.nextFree
           n == t.pageNum
           F == Unused(t, N)
           t2 == CreateNode(t, leaf)
<1>1. /\ n \in Nat /\ n >= 2 /\ n <= MaxNode /\ MaxNode \in Nat
      /\ N \subseteq 1 .. n - 1 /\ F = (1 .. n - 1) \ N
      /\ u \in F \cup {n} /\ u > 0 /\ \A x \in F \cup {n} : x > 0 => u <= x
      /\ \A p \in F : /\ NextFree(t, p) \in F \cup {n} /\ NextFree(t, p) > p
                      /\ \A x \in F \cup {n} : x > p => NextFree(t, p) <= x
  BY MaxNodeAssumption DEF FreeList, After, Unused
<1> DEFINE nf == IF u = n THEN n + 1 ELSE NextFree(t, u)
           pn == IF u = n THEN n + 1 ELSE n
           nodes == [t.node EXCEPT ![u] = [EmptyNode EXCEPT !.leaf = leaf]]
<1>2. t2 = [t EXCEPT !.node = nodes, !.nextFree = nf, !.pageNum = pn]
  BY DEF CreateNode, NextFree
<1>3. u \in Nat /\ u <= n /\ u \notin N /\ u \in Pages
  BY <1>1 DEF Pages
<1>4. nf \in Nat /\ pn \in Nat
  BY <1>1, <1>3
<1>5. [EmptyNode EXCEPT !.leaf = leaf] \in TreeNodes
  BY EmptyNodeType DEF TreeNodes
<1>6. nodes \in [Pages -> TreeNodes] /\ nodes[u] = [EmptyNode EXCEPT !.leaf = leaf]
      /\ \A x \in Pages \ {u} : nodes[x] = t.node[x]
  BY <1>3, <1>5 DEF Trees
<1> HIDE DEF nodes, nf, pn, t2
<1>7. /\ t2 \in Trees /\ t2.node = nodes /\ t2.nextFree = nf /\ t2.pageNum = pn
      /\ t2.root = t.root /\ t2.right = t.right
      /\ t2.entryNum = t.entryNum /\ t2.status = t.status
  BY <1>2, <1>4, <1>6 DEF Trees
<1>8. \A x \in Pages \ {u} : NextFree(t2, x) = NextFree(t, x)
  BY <1>6, <1>7 DEF NextFree
<1>9. FreeList(t2, N \cup {u})
  <2> DEFINE F2 == Unused(t2, N \cup {u})
  <2>1. CASE u = n
    <3>1. F = {}
      BY <2>1, <1>1
    <3>2. pn = n + 1 /\ nf = n + 1
      BY <2>1 DEF pn, nf
    <3>3. F2 = {}
      BY <3>1, <3>2, <2>1, <1>1, <1>7 DEF Unused
    <3> HIDE DEF F2
    <3>4. After(F2, pn, 0, nf)
      BY <3>2, <3>3, <1>1 DEF After
    <3>5. pn \in 2 .. MaxNode + 1 /\ N \cup {u} \subseteq 1 .. pn - 1
      <4>1. pn \in 2 .. MaxNode + 1 /\ pn - 1 = n
        BY <3>2, <1>1
      <4>2. \A x \in N : x \in 1 .. n - 1
        BY <1>1
      <4>3. \A x \in N : x \in 1 .. n
        BY <4>2, <1>1
      <4>4. u \in 1 .. n
        BY <2>1, <1>1
      <4> QED
        BY <4>1, <4>3, <4>4
    <3> QED
      BY <3>3, <3>4, <3>5, <1>7 DEF FreeList, F2
  <2>2. CASE u # n
    <3>1. u \in F /\ pn = n /\ nf = NextFree(t, u)
      BY <2>2, <1>1 DEF pn, nf
    <3>2. F2 = F \ {u}
      BY <3>1, <1>1, <1>7 DEF Unused
    <3> HIDE DEF F2, F
    <3>3. \A x \in F : x \in Nat /\ x > 0 /\ u <= x /\ x < n
      BY <1>1
    <3>4. After(F2, pn, 0, nf)
      <4>1. nf \in F2 \cup {n} /\ nf > 0
        BY <3>1, <3>2, <3>3, <1>1, <1>4
      <4>2. \A x \in F2 \cup {n} : nf <= x
        <5>1. \A x \in F2 \cup {n} : x \in F \cup {n} /\ x > u
          BY <3>1, <3>2, <3>3, <1>1, <1>3
        <5> QED
          BY <5>1, <3>1, <1>1
      <4> QED
        BY <4>1, <4>2, <3>1 DEF After
    <3>5. ASSUME NEW p \in F2
          PROVE  After(F2, pn, p, NextFree(t2, p))
      <4>1. p \in F /\ p # u /\ p > u /\ p \in Pages \ {u}
        BY <3>2, <3>3, <1>1, <1>3 DEF Pages
      <4>2. NextFree(t2, p) = NextFree(t, p)
        BY <4>1, <1>8
      <4>3. NextFree(t, p) # u
        BY <4>1, <3>3, <1>1, <1>3
      <4> QED
        BY <4>1, <4>2, <4>3, <3>1, <3>2, <1>1 DEF After
    <3>6. pn \in 2 .. MaxNode + 1 /\ N \cup {u} \subseteq 1 .. pn - 1
      <4>1. pn \in 2 .. MaxNode + 1
        BY <3>1, <1>1
      <4>2. u \in 1 .. n - 1
        BY <3>1, <3>3, <1>1
      <4> QED
        BY <4>1, <4>2, <3>1, <1>1
    <3> QED
      BY <3>4, <3>5, <3>6, <1>7 DEF FreeList, F2
  <2> QED
    BY <2>1, <2>2
<1>10. n <= pn /\ pn <= n + 1 /\ u < pn
  <2>1. u = n \/ u < n
    BY <1>1
  <2> QED
    BY <2>1, <1>1, <1>3 DEF pn
<1> QED
  BY <1>3, <1>6, <1>7, <1>9, <1>10 DEF t2

(* The free page before p is found by following the list.                  *)
LEMMA LastFreeBeforeIs ==
  ASSUME NEW t \in Trees, NEW N, FreeList(t, N), NEW p \in N, p > t.nextFree
  PROVE  LET q == LastFreeBefore(t, p)
         IN  q \in Unused(t, N) /\ q < p /\ NextFree(t, q) > p
<1> DEFINE n == t.pageNum
           F == Unused(t, N)
<1>1. /\ n \in Nat /\ n >= 2 /\ n <= MaxNode + 1 /\ MaxNode \in Nat
      /\ N \subseteq 1 .. n - 1 /\ F = (1 .. n - 1) \ N
      /\ t.nextFree \in F \cup {n} /\ t.nextFree > 0 /\ \A x \in F \cup {n} : x > 0 => t.nextFree <= x
      /\ \A q \in F : /\ NextFree(t, q) \in F \cup {n} /\ NextFree(t, q) > q
                      /\ \A x \in F \cup {n} : x > q => NextFree(t, q) <= x
  BY MaxNodeAssumption DEF FreeList, After, Unused
<1>2. p \in Nat /\ p < n /\ p \notin F /\ p \in Pages /\ F \subseteq Pages
  BY <1>1 DEF Pages
<1>3. t.nextFree \in F
  BY <1>1, <1>2
<1> HIDE DEF F
<1> DEFINE B(q) == t.node[q].next_free \in q + 1 .. p - 1
           X == Pages
           R(f) == [q \in Pages |-> IF B(q) THEN f[t.node[q].next_free] ELSE q]
           G == [x \in Pages \X [Pages -> X] |-> IF B(x[1]) THEN x[2][t.node[x[1]].next_free] ELSE x[1]]
           h == [q \in Pages |-> MaxNode - q]
<1>4. h \in [Pages -> 0 .. MaxNode] /\ \A q \in Pages : h[q] = MaxNode - q
  BY <1>1 DEF Pages
<1>5. \A q \in Pages : B(q) => t.node[q].next_free \in Pages /\ h[t.node[q].next_free] < h[q]
  <2> SUFFICES ASSUME NEW q \in Pages, NEW m, m = t.node[q].next_free, m \in q + 1 .. p - 1
               PROVE  m \in Pages /\ h[m] < h[q]
    OBVIOUS
  <2>0. q \in Nat /\ q >= 1 /\ p \in Nat /\ p <= MaxNode
    BY <1>1, <1>2 DEF Pages
  <2>1. m \in Nat /\ m > q /\ m < p /\ m >= 1 /\ m <= MaxNode
    BY <2>0, MaxNodeAssumption
  <2>2. m \in 1 .. MaxNode
    BY <2>1
  <2>3. m \in Pages
    BY <2>2 DEF Pages
  <2> HIDE DEF h
  <2>4. h[m] = MaxNode - m /\ h[q] = MaxNode - q
    BY <2>3, <1>4
  <2> QED
    BY <2>0, <2>1, <2>3, <2>4, MaxNodeAssumption
<1> HIDE DEF h, B
<1>6. G \in [Pages \X [Pages -> X] -> X]
  BY <1>5
<1>7. \A v \in Pages : \A f, g \in [Pages -> X] :
        (\A w \in Pages : h[w] < h[v] => f[w] = g[w]) => G[<<v, f>>] = G[<<v, g>>]
  BY <1>5
<1>8. PICK f \in [Pages -> X] : \A v \in Pages : f[v] = G[<<v, f>>]
  <2>1. X # {}
    BY <1>2
  <2> HIDE DEF G, X
  <2>2. IsRecursion(Pages, X, MaxNode, h, G)
    BY <1>1, <1>4, <1>6, <1>7, <2>1 DEF IsRecursion
  <2> QED
    BY <2>2, RecursionExists
<1>9. f = R(f)
  BY <1>8
<1> DEFINE L == CHOOSE g : g = R(g)
<1>10. L = R(L)
  <2> HIDE DEF R
  <2> QED
    BY <1>9
<1>11. LastFreeBefore(t, p) = L[t.nextFree]
  BY DEF LastFreeBefore, B
<1> HIDE DEF L
<1>12. \A q \in Pages : L[q] = IF B(q) THEN L[NextFree(t, q)] ELSE q
  BY <1>10 DEF NextFree
<1> DEFINE S == {q \in F : q < p => L[q] \in F /\ L[q] < p /\ NextFree(t, L[q]) > p}
           g == [q \in F |-> h[q]]
<1>13. S = F
  <2>1. g \in [F -> Nat] /\ \A q \in F : g[q] = h[q]
    BY <1>2, <1>4
  <2>2. ASSUME NEW q \in F, \A w \in F : g[w] < g[q] => w \in S
        PROVE  q \in S
    <3> SUFFICES ASSUME q < p PROVE L[q] \in F /\ L[q] < p /\ NextFree(t, L[q]) > p
      OBVIOUS
    <3>1. q \in Pages /\ q \in Nat /\ NextFree(t, q) \in F \cup {n} /\ NextFree(t, q) > q /\ NextFree(t, q) # p
          /\ NextFree(t, q) \in Nat
      <4>1. \A x \in F \cup {n} : x \in Nat /\ x # p
        BY <1>1, <1>2
      <4> QED
        BY <4>1, <1>1, <1>2
    <3>2. B(q) <=> NextFree(t, q) < p
      BY <3>1, <1>2 DEF B, NextFree
    <3>3. CASE NextFree(t, q) < p
      <4>1. NextFree(t, q) \in F
        BY <3>1, <3>3, <1>2, <1>1
      <4>2. h[NextFree(t, q)] < h[q]
        BY <3>1, <3>2, <3>3, <1>5 DEF NextFree
      <4>3. NextFree(t, q) \in S
        BY <4>1, <4>2, <2>1, <2>2
      <4> QED
        BY <4>3, <3>1, <3>2, <3>3, <1>12
    <3>4. CASE ~(NextFree(t, q) < p)
      BY <3>1, <3>2, <3>4, <1>2, <1>12
    <3> QED
      BY <3>3, <3>4
  <2>3. S \in SUBSET F
    OBVIOUS
  <2> HIDE DEF S, g
  <2> QED
    BY <2>1, <2>2, <2>3, LevelInduction
<1>14. t.nextFree < p
  BY <1>1, <1>2, <1>3
<1> QED
  BY <1>3, <1>11, <1>13, <1>14 DEF F

(* addLink gives a page back to the list and changes no other page but for *)
(* its link.                                                               *)
LEMMA AddLinkIs ==
  ASSUME NEW t \in Trees, NEW N, FreeList(t, N), NEW p \in N
  PROVE  LET t2 == AddLink(t, p)
         IN  /\ t2 \in Trees
             /\ FreeList(t2, N \ {p})
             /\ t2.pageNum = t.pageNum
             /\ t2.root = t.root /\ t2.right = t.right
             /\ t2.entryNum = t.entryNum /\ t2.status = t.status
             /\ t2.node[p] = [EmptyNode EXCEPT !.next_free = NextFree(t2, p)]
             /\ \A x \in Pages \ {p} : t2.node[x] = [t.node[x] EXCEPT !.next_free = NextFree(t2, x)]
             /\ \A x \in Pages : NextFree(t, x) <= t.pageNum => NextFree(t2, x) <= t.pageNum
<1> DEFINE n == t.pageNum
           F == Unused(t, N)
           t2 == AddLink(t, p)
<1>1. /\ n \in Nat /\ n >= 2 /\ n <= MaxNode + 1 /\ MaxNode \in Nat
      /\ N \subseteq 1 .. n - 1 /\ F = (1 .. n - 1) \ N
      /\ t.nextFree \in F \cup {n} /\ t.nextFree > 0 /\ \A x \in F \cup {n} : x > 0 => t.nextFree <= x
      /\ \A q \in F : /\ NextFree(t, q) \in F \cup {n} /\ NextFree(t, q) > q
                      /\ \A x \in F \cup {n} : x > q => NextFree(t, q) <= x
  BY MaxNodeAssumption DEF FreeList, After, Unused
<1>2. p \in Nat /\ p < n /\ p > 0 /\ p \notin F /\ p \in Pages /\ F \subseteq Pages
  BY <1>1 DEF Pages
<1>3. \A x \in Pages : t.node[x] \in TreeNodes
  BY DEF Trees
<1>4. \A x \in F \cup {n} : x \in Nat /\ x <= n /\ x # p /\ x > 0
  BY <1>1, <1>2
<1>5. CASE p < t.nextFree
  <2> DEFINE nd == [EmptyNode EXCEPT !.next_free = t.nextFree]
             nodes == [t.node EXCEPT ![p] = nd]
  <2>1. t2 = [t EXCEPT !.node = nodes, !.nextFree = p]
    BY <1>5 DEF AddLink
  <2>2. t.nextFree \in Nat
    BY DEF Trees
  <2>3. nd \in TreeNodes /\ nd.next_free = t.nextFree
    BY <2>2, EmptyNodeType DEF TreeNodes
  <2>4. nodes \in [Pages -> TreeNodes] /\ nodes[p] = nd /\ \A x \in Pages \ {p} : nodes[x] = t.node[x]
    <3> HIDE DEF nd
    <3> QED
      BY <1>2, <2>3 DEF Trees
  <2> HIDE DEF nd, nodes, t2
  <2>5. /\ t2 \in Trees /\ t2.node = nodes /\ t2.nextFree = p /\ t2.pageNum = n
        /\ t2.root = t.root /\ t2.right = t.right
        /\ t2.entryNum = t.entryNum /\ t2.status = t.status
    BY <1>2, <2>1, <2>4 DEF Trees
  <2>6. NextFree(t2, p) = t.nextFree /\ \A x \in Pages \ {p} : NextFree(t2, x) = NextFree(t, x)
    BY <2>3, <2>4, <2>5 DEF NextFree
  <2>7. \A x \in Pages \ {p} : t2.node[x] = [t.node[x] EXCEPT !.next_free = NextFree(t2, x)]
    <3>1. \A x \in Pages \ {p} : t.node[x] = [t.node[x] EXCEPT !.next_free = NextFree(t, x)]
      BY <1>3 DEF TreeNodes, NextFree
    <3> QED
      BY <3>1, <2>4, <2>5, <2>6
  <2> DEFINE F2 == Unused(t2, N \ {p})
  <2>8. F2 = F \cup {p}
    BY <1>1, <1>2, <2>5 DEF Unused
  <2> HIDE DEF F, F2
  <2>9. After(F2, n, 0, p)
    BY <1>1, <1>2, <1>4, <1>5, <2>8 DEF After
  <2>10. ASSUME NEW x \in F2
         PROVE  After(F2, n, x, NextFree(t2, x))
    <3>1. CASE x = p
      BY <3>1, <1>1, <1>2, <1>4, <1>5, <2>6, <2>8 DEF After
    <3>2. CASE x # p
      <4>1. x \in F /\ x \in Pages \ {p} /\ x > p
        BY <3>2, <1>1, <1>2, <1>4, <1>5, <2>8
      <4> QED
        BY <4>1, <1>1, <1>2, <1>4, <2>6, <2>8 DEF After
    <3> QED
      BY <3>1, <3>2
  <2>11. FreeList(t2, N \ {p})
    BY <1>1, <2>5, <2>9, <2>10 DEF FreeList, F2
  <2>12. \A x \in Pages : NextFree(t, x) <= n => NextFree(t2, x) <= n
    BY <1>4, <1>1, <2>6
  <2> QED
    BY <2>5, <2>4, <2>6, <2>7, <2>11, <2>12 DEF t2, nd
<1>6. CASE ~(p < t.nextFree)
  <2> DEFINE q == LastFreeBefore(t, p)
  <2>1. q \in F /\ q < p /\ NextFree(t, q) > p
    <3>1. p > t.nextFree
      BY <1>6, <1>2, <1>4, <1>1
    <3> QED
      BY <3>1, LastFreeBeforeIs
  <2> DEFINE nd == [EmptyNode EXCEPT !.next_free = t.node[q].next_free]
             nq == [t.node[q] EXCEPT !.next_free = p]
             nodes == [t.node EXCEPT ![p] = nd, ![q] = nq]
  <2>2. t2 = [t EXCEPT !.node = nodes]
    <3>1. q # p
      BY <2>1, <1>2
    <3>2. t2 = [t EXCEPT !.node = nodes]
      BY <1>6 DEF AddLink
    <3> HIDE DEF q
    <3> QED
      BY <3>2
  <2>3. q \in Pages /\ q # p
    BY <2>1, <1>2
  <2> HIDE DEF q
  <2>4. /\ nd \in TreeNodes /\ nd.next_free = NextFree(t, q)
        /\ nq \in TreeNodes /\ nq.next_free = p
    BY <2>3, <1>2, <1>3, EmptyNodeType DEF TreeNodes, NextFree
  <2>5. nodes \in [Pages -> TreeNodes] /\ nodes[p] = nd /\ nodes[q] = nq
        /\ \A x \in Pages \ {p, q} : nodes[x] = t.node[x]
    <3> HIDE DEF nd, nq
    <3> QED
      BY <1>2, <2>3, <2>4 DEF Trees
  <2> HIDE DEF nd, nq, nodes, t2
  <2>6. /\ t2 \in Trees /\ t2.node = nodes /\ t2.nextFree = t.nextFree /\ t2.pageNum = n
        /\ t2.root = t.root /\ t2.right = t.right
        /\ t2.entryNum = t.entryNum /\ t2.status = t.status
    BY <2>2, <2>5 DEF Trees
  <2>7. /\ NextFree(t2, p) = NextFree(t, q) /\ NextFree(t2, q) = p
        /\ \A x \in Pages \ {p, q} : NextFree(t2, x) = NextFree(t, x)
    BY <2>4, <2>5, <2>6 DEF NextFree
  <2>8. \A x \in Pages \ {p} : t2.node[x] = [t.node[x] EXCEPT !.next_free = NextFree(t2, x)]
    <3>1. \A x \in Pages \ {p} : t.node[x] = [t.node[x] EXCEPT !.next_free = NextFree(t, x)]
      BY <1>3 DEF TreeNodes, NextFree
    <3>2. t2.node[q] = [t.node[q] EXCEPT !.next_free = NextFree(t2, q)]
      BY <2>5, <2>6, <2>7 DEF nq
    <3> QED
      BY <3>1, <3>2, <2>5, <2>6, <2>7
  <2> DEFINE F2 == Unused(t2, N \ {p})
  <2>9. F2 = F \cup {p}
    BY <1>1, <1>2, <2>6 DEF Unused
  <2> HIDE DEF F, F2
  <2>10. After(F2, n, 0, t.nextFree)
    <3>1. t.nextFree <= q /\ q \in Nat /\ t.nextFree \in F
      BY <2>1, <1>1, <1>4, <1>2
    <3> QED
      BY <3>1, <1>1, <1>2, <1>4, <2>1, <2>9 DEF After
  <2>11. ASSUME NEW x \in F2
         PROVE  After(F2, n, x, NextFree(t2, x))
    <3>1. CASE x = p
      BY <3>1, <1>1, <1>2, <1>4, <2>1, <2>7, <2>9 DEF After
    <3>2. CASE x = q
      <4>1. \A y \in F2 \cup {n} : y > q => p <= y
        BY <1>1, <1>2, <1>4, <2>1, <2>9
      <4> QED
        BY <4>1, <3>2, <1>2, <2>1, <2>7, <2>9 DEF After
    <3>3. CASE x \notin {p, q}
      <4>1. x \in F /\ x \in Pages \ {p, q} /\ x \in Nat /\ q \in Nat
        BY <3>3, <1>2, <1>4, <2>1, <2>9
      <4>2. p > x => NextFree(t, x) <= p
        <5>1. x > q => x >= NextFree(t, q)
          BY <4>1, <2>1, <1>1
        <5>2. x < q => NextFree(t, x) <= q
          BY <4>1, <2>1, <1>1
        <5>3. NextFree(t, q) \in Nat /\ NextFree(t, x) \in Nat
          BY <4>1, <2>1, <1>1, <1>4
        <5> QED
          BY <5>1, <5>2, <5>3, <4>1, <3>3, <2>1, <1>2
      <4> QED
        BY <4>1, <4>2, <1>1, <1>2, <2>7, <2>9 DEF After
    <3> QED
      BY <3>1, <3>2, <3>3
  <2>12. FreeList(t2, N \ {p})
    BY <1>1, <2>6, <2>10, <2>11 DEF FreeList, F2
  <2>13. \A x \in Pages : NextFree(t, x) <= n => NextFree(t2, x) <= n
    <3>1. NextFree(t, q) <= n
      BY <2>1, <1>1, <1>4
    <3>2. p <= n
      BY <1>2, <1>1
    <3> QED
      BY <3>1, <3>2, <2>7, <2>3
  <2> QED
    BY <2>5, <2>6, <2>7, <2>8, <2>12, <2>13 DEF t2, nd, NextFree
<1> QED
  BY <1>5, <1>6

(* No node is its own neighbour.                                           *)
LEMMA NotOwnNext ==
  ASSUME NEW t, NEW N, NEW h, NEW nx, NEW pv, Shape(t, N, h), Links(t, N, h, nx, pv)
  PROVE  \A v \in N : nx[v] # v /\ pv[v] # v
<1>s. /\ N \subseteq Pages /\ t.root \in N /\ 0 \notin Pages
      /\ \A x \in Pages : Kids(t, x) \in Nat
      /\ \A x \in N : \A i \in 1 .. Kids(t, x) : Kid(t, x, i) \in N /\ Parent(t, Kid(t, x, i)) = x
      /\ \A x \in N : \A i, j \in 1 .. Kids(t, x) : Kid(t, x, i) = Kid(t, x, j) => i = j
      /\ \A x \in N \ {t.root} :
           Parent(t, x) \in N /\ \E i \in 1 .. Kids(t, Parent(t, x)) : Kid(t, Parent(t, x), i) = x
      /\ h \in [Pages -> Nat]
      /\ \A x \in N : \A i \in 1 .. Kids(t, x) : h[x] = h[Kid(t, x, i)] + 1
  BY ShapeFacts
<1>k. /\ nx[t.root] = 0
      /\ \A x \in N : /\ nx[x] \in N \cup {0}
                      /\ nx[x] # 0 => pv[nx[x]] = x
                      /\ pv[x] # 0 => nx[pv[x]] = x
      /\ \A x \in N : \A i \in 1 .. Kids(t, x) - 1 : nx[Kid(t, x, i)] = Kid(t, x, i + 1)
      /\ \A x \in N : Kids(t, x) > 0 =>
           nx[Kid(t, x, Kids(t, x))] = IF nx[x] = 0 THEN 0 ELSE Kid(t, nx[x], 1)
      /\ \A x \in N : nx[x] # 0 => nx[x] \in N /\ (Kids(t, x) > 0 => Kids(t, nx[x]) > 0)
  BY LinkFacts
<1>r. /\ h[t.root] \in Nat
      /\ \A x \in N : h[x] \in Nat /\ h[x] <= h[t.root]
  <2>1. h \in [Pages -> 0 .. h[t.root]] /\ h[t.root] \in Nat BY RootHighest
  <2> QED BY <2>1, <1>s
<1>z. t.root # 0 BY <1>s
<1> HIDE DEF Kids, Kid, Parent, Shape, Links
<1> DEFINE d == [v \in N |-> h[t.root] - h[v]]
           P == {v \in N : nx[v] # v}
<1>d. d \in [N -> Nat] BY <1>r
<1>2. ASSUME NEW v \in N, \A w \in N : d[w] < d[v] => w \in P PROVE v \in P
  <2>1. CASE v = t.root BY <2>1, <1>k, <1>z
  <2>2. CASE v # t.root
    <3> DEFINE p == Parent(t, v)
    <3>1. p \in N BY <1>s, <2>2
    <3>2. PICK i \in 1 .. Kids(t, p) : Kid(t, p, i) = v BY <1>s, <2>2
    <3>3. Kids(t, p) \in Nat BY <3>1, <1>s
    <3>4. h[p] = h[v] + 1 BY <3>1, <3>2, <1>s
    <3>5. d[p] < d[v] BY <3>4, <3>1, <1>r
    <3>6. nx[p] # p BY <3>5, <3>1, <1>2
    <3> HIDE DEF p, d
    <3>7. SUFFICES ASSUME nx[v] = v PROVE FALSE BY DEF P
    <3>8. CASE i < Kids(t, p)
      <4>1. i \in 1 .. Kids(t, p) - 1 /\ i + 1 \in 1 .. Kids(t, p) /\ i + 1 # i BY <3>8, <3>3
      <4>2. Kid(t, p, i + 1) = v BY <4>1, <1>k, <3>1, <3>2, <3>7
      <4> QED BY <4>1, <4>2, <3>2, <3>1, <1>s
    <3>9. CASE i = Kids(t, p)
      <4>1. Kids(t, p) > 0 BY <3>9, <3>3, <3>2
      <4>2. nx[v] = IF nx[p] = 0 THEN 0 ELSE Kid(t, nx[p], 1) BY <4>1, <3>9, <3>2, <3>1, <1>k
      <4>3. nx[p] # 0 /\ Kid(t, nx[p], 1) = v BY <4>2, <3>7, <1>s
      <4>4. nx[p] \in N /\ Kids(t, nx[p]) > 0 /\ Kids(t, nx[p]) \in Nat BY <4>3, <4>1, <3>1, <1>k, <1>s
      <4>5. 1 \in 1 .. Kids(t, nx[p]) BY <4>4
      <4>6. Parent(t, v) = nx[p] BY <4>3, <4>4, <4>5, <1>s
      <4> QED BY <4>6, <3>6 DEF p
    <3>10. i < Kids(t, p) \/ i = Kids(t, p) BY <3>3
    <3> QED BY <3>8, <3>9, <3>10
  <2> QED BY <2>1, <2>2
<1>3. P \in SUBSET N OBVIOUS
<1>4. P = N
  <2> HIDE DEF P, d
  <2> QED BY <1>2, <1>3, <1>d, LevelInduction
<1>5. \A v \in N : nx[v] # v BY <1>4
<1> QED BY <1>5, <1>k, <1>s

(* The rank of a node among its parent's children.                         *)
LEMMA RankIs ==
  ASSUME NEW t \in Trees, NEW N, NEW h, Shape(t, N, h), NEW v \in N, v # t.root
  PROVE  /\ Parent(t, v) \in N /\ Parent(t, v) # v
         /\ Rank(t, v, Parent(t, v)) \in 1 .. Kids(t, Parent(t, v))
         /\ Kid(t, Parent(t, v), Rank(t, v, Parent(t, v))) = v
         /\ h[Parent(t, v)] = h[v] + 1
<1> DEFINE p == Parent(t, v)
<1>1. /\ N \subseteq Pages
      /\ p \in N /\ \E i \in 1 .. Kids(t, p) : Kid(t, p, i) = v
      /\ h \in [Pages -> Nat]
      /\ \A x \in N : \A i \in 1 .. Kids(t, x) : h[x] = h[Kid(t, x, i)] + 1
  BY ShapeFacts
<1>2. DOMAIN Childs(t, p) = 1 .. Kids(t, p) BY <1>1, TreeTypes
<1>3. \E i \in DOMAIN Childs(t, p) : Childs(t, p)[i] = v BY <1>1, <1>2 DEF Kid
<1>4. Rank(t, v, p) \in DOMAIN Childs(t, p) /\ Childs(t, p)[Rank(t, v, p)] = v BY <1>3 DEF Rank
<1>5. Rank(t, v, p) \in 1 .. Kids(t, p) /\ Kid(t, p, Rank(t, v, p)) = v BY <1>4, <1>2 DEF Kid
<1>6. h[p] = h[v] + 1 BY <1>5, <1>1
<1>7. h[v] \in Nat BY <1>1
<1> HIDE DEF p
<1>8. p # v BY <1>6, <1>7
<1> QED BY <1>1, <1>5, <1>6, <1>8 DEF p

(* The only place of a child.                                              *)
LEMMA RankOf ==
  ASSUME NEW t \in Trees, NEW N, NEW h, Shape(t, N, h),
         NEW p \in N, NEW i \in 1 .. Kids(t, p), NEW v, v = Kid(t, p, i)
  PROVE  Parent(t, v) = p /\ v \in N /\ v # t.root /\ Rank(t, v, p) = i
<1>1. /\ N \subseteq Pages /\ t.root \in N /\ Parent(t, t.root) = 0 /\ 0 \notin Pages
      /\ \A x \in N : \A j \in 1 .. Kids(t, x) : Kid(t, x, j) \in N /\ Parent(t, Kid(t, x, j)) = x
      /\ \A x \in N : \A j, k \in 1 .. Kids(t, x) : Kid(t, x, j) = Kid(t, x, k) => j = k
  BY ShapeFacts
<1>2. Parent(t, v) = p /\ v \in N /\ v # t.root BY <1>1
<1>3. Rank(t, v, p) \in 1 .. Kids(t, p) /\ Kid(t, p, Rank(t, v, p)) = v BY <1>2, RankIs
<1> QED BY <1>1, <1>2, <1>3

(***************************************************************************)
(* What holds of a tree before, between and after the steps of an          *)
(* operation.                                                              *)
(***************************************************************************)

(* A leaf has no children; an inner node has an item for each child and no *)
(* links.                                                                  *)
Matched(t, N) ==
  \A v \in N : /\ Leaf(t, v) <=> Kids(t, v) = 0
               /\ ~Leaf(t, v) => Size(t, v) = Kids(t, v) /\ Left(t, v) = 0 /\ Right(t, v) = 0

(* The pages that are no nodes are empty.                                  *)
Blank(t, N) ==
  /\ \A x \in Pages \ N : t.node[x] = [EmptyNode EXCEPT !.next_free = NextFree(t, x)]
  /\ \A x \in Pages : NextFree(t, x) <= t.pageNum

Good(t, N, h, nx, pv) ==
  /\ t \in Trees
  /\ Shape(t, N, h) /\ Links(t, N, h, nx, pv) /\ LeafLinks(t, N, nx, pv)
  /\ FreeList(t, N)
  /\ Matched(t, N)
  /\ Blank(t, N)

(* t2 differs from t in the status, in items, and in the number of items   *)
(* of leaves.                                                              *)
OtherItems(t, t2) ==
  /\ t2 \in Trees
  /\ t2.root = t.root /\ t2.right = t.right /\ t2.nextFree = t.nextFree /\ t2.pageNum = t.pageNum
  /\ t2.entryNum = t.entryNum
  /\ \A x \in Pages :
       /\ Childs(t2, x) = Childs(t, x) /\ Parent(t2, x) = Parent(t, x) /\ Leaf(t2, x) = Leaf(t, x)
       /\ Left(t2, x) = Left(t, x) /\ Right(t2, x) = Right(t, x) /\ NextFree(t2, x) = NextFree(t, x)
       /\ ~Leaf(t, x) => Size(t2, x) = Size(t, x)

(* The fields of a page on the free list.                                  *)
LEMMA BlankNode ==
  ASSUME NEW f \in Nat, NEW m, m = [EmptyNode EXCEPT !.next_free = f]
  PROVE  /\ m.leaf = FALSE /\ m.parent = 0 /\ m.left = 0 /\ m.right = 0 /\ m.next_free = f
         /\ m.items = <<>> /\ m.childs = <<>>
         /\ m \in TreeNodes
<1>1. m \in TreeNodes BY EmptyNodeType DEF TreeNodes
<1>2. /\ m.leaf = FALSE /\ m.parent = 0 /\ m.left = 0 /\ m.right = 0 /\ m.next_free = f
      /\ m.items = <<>> /\ m.childs = <<>>
  BY DEF EmptyNode, NULL_NODE
<1> QED BY <1>1, <1>2

(* A node is its fields.                                                   *)
LEMMA NodeFields ==
  ASSUME NEW n \in TreeNodes
  PROVE  n = [leaf |-> n.leaf, parent |-> n.parent, left |-> n.left, right |-> n.right,
              next_free |-> n.next_free, items |-> n.items, childs |-> n.childs]
BY DEF TreeNodes

(* A node with the fields of an empty page.                                *)
LEMMA EmptyNodeIs ==
  ASSUME NEW t \in Trees, NEW x \in Pages
  PROVE  t.node[x] = [EmptyNode EXCEPT !.next_free = NextFree(t, x)]
         <=> /\ ~Leaf(t, x) /\ Parent(t, x) = 0 /\ Left(t, x) = 0 /\ Right(t, x) = 0
             /\ Kids(t, x) = 0 /\ Size(t, x) = 0
<1>1. t.node[x] \in TreeNodes BY TreeTypes
<1>2. Childs(t, x) = <<>> <=> Kids(t, x) = 0 BY TreeTypes
<1>3. Items(t, x) = <<>> <=> Size(t, x) = 0 BY TreeTypes
<1> DEFINE n == t.node[x]
           m == [EmptyNode EXCEPT !.next_free = n.next_free]
<1>4. n = [leaf |-> n.leaf, parent |-> n.parent, left |-> n.left, right |-> n.right,
           next_free |-> n.next_free, items |-> n.items, childs |-> n.childs]
  BY <1>1, NodeFields
<1>8. n.next_free \in Nat BY <1>1 DEF TreeNodes
<1>9. /\ m.leaf = FALSE /\ m.parent = 0 /\ m.left = 0 /\ m.right = 0 /\ m.next_free = n.next_free
      /\ m.items = <<>> /\ m.childs = <<>>
      /\ m \in TreeNodes
  BY <1>8, BlankNode
<1>5. m = [leaf |-> m.leaf, parent |-> m.parent, left |-> m.left, right |-> m.right,
           next_free |-> m.next_free, items |-> m.items, childs |-> m.childs]
  BY <1>9, NodeFields
<1>6. n.leaf \in BOOLEAN BY <1>1 DEF TreeNodes
<1> HIDE DEF n, m
<1>7. n = m <=> ~n.leaf /\ n.parent = 0 /\ n.left = 0 /\ n.right = 0 /\ n.childs = <<>> /\ n.items = <<>>
  <2>1. ASSUME n = m
        PROVE ~n.leaf /\ n.parent = 0 /\ n.left = 0 /\ n.right = 0 /\ n.childs = <<>> /\ n.items = <<>>
    BY <2>1, <1>9
  <2>2. ASSUME ~n.leaf /\ n.parent = 0 /\ n.left = 0 /\ n.right = 0 /\ n.childs = <<>> /\ n.items = <<>>
        PROVE n = m
    <3>1. n.leaf = FALSE BY <2>2, <1>6
    <3> QED BY <2>2, <3>1, <1>4, <1>5, <1>9
  <2> QED BY <2>1, <2>2
<1> QED BY <1>7, <1>2, <1>3 DEF NextFree, Leaf, Parent, Left, Right, Childs, Items, n, m

(* A tree stays good when items change, and the number of items of leaves. *)
LEMMA OtherItemsGood ==
  ASSUME NEW t, NEW t2, NEW N, NEW h, NEW nx, NEW pv, Good(t, N, h, nx, pv), OtherItems(t, t2)
  PROVE  Good(t2, N, h, nx, pv)
<1>g. /\ t \in Trees
      /\ Shape(t, N, h) /\ Links(t, N, h, nx, pv) /\ LeafLinks(t, N, nx, pv)
      /\ FreeList(t, N)
      /\ Matched(t, N)
      /\ Blank(t, N) BY DEF Good
<1>o. /\ t2 \in Trees
      /\ t2.root = t.root /\ t2.right = t.right /\ t2.nextFree = t.nextFree /\ t2.pageNum = t.pageNum
      /\ \A x \in Pages :
           /\ Childs(t2, x) = Childs(t, x) /\ Parent(t2, x) = Parent(t, x) /\ Leaf(t2, x) = Leaf(t, x)
           /\ Left(t2, x) = Left(t, x) /\ Right(t2, x) = Right(t, x) /\ NextFree(t2, x) = NextFree(t, x)
           /\ ~Leaf(t, x) => Size(t2, x) = Size(t, x) BY DEF OtherItems
<1>n. N \subseteq Pages BY <1>g, ShapeFacts
<1>k. \A x \in Pages : Kids(t2, x) = Kids(t, x) /\ \A i : Kid(t2, x, i) = Kid(t, x, i)
  BY <1>o DEF Kids, Kid
<1>1. SameTree(t, t2) BY <1>o, <1>k DEF SameTree
<1>2. Shape(t2, N, h) /\ Links(t2, N, h, nx, pv) BY <1>1, <1>g, SameTreeTree
<1>3. LeafLinks(t2, N, nx, pv) BY <1>g, <1>o, <1>k, <1>n DEF LeafLinks
<1>4. FreeList(t2, N)
  <2>1. Unused(t2, N) = Unused(t, N) BY <1>o DEF Unused
  <2>2. Unused(t, N) \subseteq Pages BY <1>g, MaxNodeAssumption DEF Unused, FreeList, Pages
  <2> QED BY <2>1, <2>2, <1>g, <1>o DEF FreeList
<1>5. Matched(t2, N) BY <1>g, <1>o, <1>k, <1>n DEF Matched
<1>6. Blank(t2, N)
  <2>1. ASSUME NEW x \in Pages \ N PROVE t2.node[x] = [EmptyNode EXCEPT !.next_free = NextFree(t2, x)]
    <3>1. t.node[x] = [EmptyNode EXCEPT !.next_free = NextFree(t, x)] BY <1>g DEF Blank
    <3>2. /\ ~Leaf(t, x) /\ Parent(t, x) = 0 /\ Left(t, x) = 0 /\ Right(t, x) = 0
          /\ Kids(t, x) = 0 /\ Size(t, x) = 0 BY <3>1, <1>g, EmptyNodeIs
    <3> QED BY <3>2, <1>o, <1>k, EmptyNodeIs
  <2>2. \A x \in Pages : NextFree(t2, x) <= t2.pageNum BY <1>o, <1>g DEF Blank
  <2> QED BY <2>1, <2>2 DEF Blank
<1> QED BY <1>o, <1>2, <1>3, <1>4, <1>5, <1>6 DEF Good

SameHead(t, t2) ==
  /\ t2.root = t.root /\ t2.right = t.right /\ t2.nextFree = t.nextFree
  /\ t2.pageNum = t.pageNum /\ t2.entryNum = t.entryNum

(* t2 differs from t in the status and in the items of inner nodes, whose  *)
(* number is the same.                                                     *)
InnerItems(t, t2) ==
  /\ OtherItems(t, t2)
  /\ \A x \in Pages : Size(t2, x) = Size(t, x)
  /\ \A x \in Pages : Leaf(t, x) => Items(t2, x) = Items(t, x)

WithNode(t, p, n) == [t EXCEPT !.node[p] = n]

(* One node changes.                                                       *)
LEMMA NodeChange ==
  ASSUME NEW t \in Trees, NEW p \in Pages, NEW n \in TreeNodes
  PROVE  /\ WithNode(t, p, n) \in Trees /\ SameHead(t, WithNode(t, p, n))
         /\ WithNode(t, p, n).status = t.status
         /\ WithNode(t, p, n).node[p] = n
         /\ \A x \in Pages \ {p} : WithNode(t, p, n).node[x] = t.node[x]
<1> DEFINE nodes == [t.node EXCEPT ![p] = n]
<1>1. t.node \in [Pages -> TreeNodes] BY DEF Trees
<1>2. nodes \in [Pages -> TreeNodes] /\ nodes[p] = n /\ \A x \in Pages \ {p} : nodes[x] = t.node[x] BY <1>1
<1> HIDE DEF nodes
<1>3. WithNode(t, p, n) = [t EXCEPT !.node = nodes] BY DEF nodes, WithNode
<1> QED BY <1>2, <1>3 DEF Trees, SameHead

(* One item changes.                                                       *)
LEMMA SetItemIs ==
  ASSUME NEW t \in Trees, NEW p \in Pages, NEW r, NEW e \in Entries,
         NEW t2, t2 = SetItem(t, p, r, e)
  PROVE  /\ t2 \in Trees /\ SameHead(t, t2) /\ t2.status = t.status
         /\ \A x \in Pages \ {p} : t2.node[x] = t.node[x]
         /\ t2.node[p] = [t.node[p] EXCEPT !.items = Items(t2, p)]
         /\ Size(t2, p) = Size(t, p)
         /\ \A i \in 1 .. Size(t, p) : Item(t2, p, i) = IF i = r THEN e ELSE Item(t, p, i)
<1> DEFINE s == [Items(t, p) EXCEPT ![r] = e]
           n == [t.node[p] EXCEPT !.items = s]
<1>1. Items(t, p) \in Seq(Entries) /\ t.node[p] \in TreeNodes BY TreeTypes
<1>2. s \in Seq(Entries) /\ Len(s) = Len(Items(t, p))
  <2> DEFINE k == Len(Items(t, p))
  <2>1. Items(t, p) \in [1 .. k -> Entries] /\ k \in Nat BY <1>1
  <2>2. s \in [1 .. k -> Entries] BY <2>1
  <2> HIDE DEF k, s
  <2> QED BY <2>1, <2>2 DEF k
<1>3. \A i \in 1 .. Len(s) : s[i] = IF i = r THEN e ELSE Items(t, p)[i] BY <1>1
<1> HIDE DEF s
<1>4. n \in TreeNodes /\ n.items = s BY <1>1, <1>2 DEF TreeNodes
<1>5. t2 = WithNode(t, p, n) BY DEF SetItem, s, Items, WithNode
<1>n. n = [t.node[p] EXCEPT !.items = s] OBVIOUS
<1> HIDE DEF n
<1>6. /\ t2 \in Trees /\ SameHead(t, t2) /\ t2.status = t.status
      /\ t2.node[p] = n
      /\ \A x \in Pages \ {p} : t2.node[x] = t.node[x]
  BY <1>4, <1>5, NodeChange
<1>7. Items(t2, p) = s BY <1>6, <1>4 DEF Items
<1>8. t2.node[p] = [t.node[p] EXCEPT !.items = Items(t2, p)] BY <1>6, <1>7, <1>n
<1>9. Size(t2, p) = Size(t, p) /\ Size(t, p) = Len(s) BY <1>7, <1>2 DEF Size
<1>10. \A i \in 1 .. Size(t, p) : Item(t2, p, i) = IF i = r THEN e ELSE Item(t, p, i)
  BY <1>3, <1>7, <1>9 DEF Item
<1> QED BY <1>6, <1>8, <1>9, <1>10

(* Setting a separator.                                                    *)
LEMMA SeparatorSet ==
  ASSUME NEW t \in Trees, NEW p \in Pages, ~Leaf(t, p), NEW r, NEW e \in Entries,
         NEW t2, t2 = SetItem(t, p, r, e)
  PROVE  InnerItems(t, t2) /\ t2.status = t.status
<1>1. /\ t2 \in Trees /\ SameHead(t, t2) /\ t2.status = t.status
      /\ \A x \in Pages \ {p} : t2.node[x] = t.node[x]
      /\ t2.node[p] = [t.node[p] EXCEPT !.items = Items(t2, p)]
      /\ Size(t2, p) = Size(t, p)
  BY SetItemIs
<1>2. /\ \A x \in Pages :
       /\ Childs(t2, x) = Childs(t, x) /\ Parent(t2, x) = Parent(t, x) /\ Leaf(t2, x) = Leaf(t, x)
       /\ Left(t2, x) = Left(t, x) /\ Right(t2, x) = Right(t, x) /\ NextFree(t2, x) = NextFree(t, x)
  <2>1. t.node[p] \in TreeNodes BY TreeTypes
  <2>2. /\ t2.node[p].childs = t.node[p].childs /\ t2.node[p].parent = t.node[p].parent
        /\ t2.node[p].leaf = t.node[p].leaf /\ t2.node[p].left = t.node[p].left
        /\ t2.node[p].right = t.node[p].right /\ t2.node[p].next_free = t.node[p].next_free
    <3> DEFINE m == [t.node[p] EXCEPT !.items = Items(t2, p)]
    <3>1. /\ m.childs = t.node[p].childs /\ m.parent = t.node[p].parent /\ m.leaf = t.node[p].leaf
          /\ m.left = t.node[p].left /\ m.right = t.node[p].right /\ m.next_free = t.node[p].next_free
      BY <2>1 DEF TreeNodes
    <3> HIDE DEF m
    <3>2. t2.node[p] = m BY <1>1 DEF m
    <3> QED BY <3>1, <3>2
  <2>3. \A x \in Pages \ {p} : t2.node[x] = t.node[x] BY <1>1
  <2> QED BY <2>2, <2>3 DEF Childs, Parent, Leaf, Left, Right, NextFree
<1>3. \A x \in Pages : Size(t2, x) = Size(t, x) BY <1>1 DEF Size, Items
<1>4. \A x \in Pages : Leaf(t, x) => Items(t2, x) = Items(t, x) BY <1>1 DEF Items
<1> QED BY <1>1, <1>2, <1>3, <1>4 DEF InnerItems, OtherItems, SameHead

(* So does the status.                                                     *)
LEMMA StatusSet ==
  ASSUME NEW t, NEW t2, NEW t3, InnerItems(t, t2), NEW s \in {"ok", "hung", "aborted"},
         t3 = [t2 EXCEPT !.status = s]
  PROVE  InnerItems(t, t3) /\ t3.status = s
<1>1. t2 \in Trees BY DEF InnerItems, OtherItems
<1>2. /\ t3 \in Trees /\ t3.root = t2.root /\ t3.right = t2.right /\ t3.nextFree = t2.nextFree
      /\ t3.pageNum = t2.pageNum /\ t3.entryNum = t2.entryNum /\ t3.node = t2.node /\ t3.status = s
  BY <1>1 DEF Trees
<1> QED BY <1>2 DEF InnerItems, OtherItems, Childs, Items, Size, Parent, Leaf, Left, Right, NextFree

(* And nothing at all.                                                     *)
LEMMA SameItems ==
  ASSUME NEW t \in Trees
  PROVE  InnerItems(t, t)
BY DEF InnerItems, OtherItems

(* The two loops that bring separators up to date change nothing else.     *)
LEMMA UpdateToRootIs ==
  ASSUME NEW t, NEW N, NEW h, NEW nx, NEW pv, Good(t, N, h, nx, pv), NEW v \in N,
         NEW t2, t2 = UpdateToRoot(t, v)
  PROVE  InnerItems(t, t2) /\ t2.status \in {t.status, "hung"}
<1>g. t \in Trees /\ Shape(t, N, h) /\ Matched(t, N) BY DEF Good
<1>s. N \subseteq Pages /\ t.root \in N /\ Parent(t, t.root) = 0 BY <1>g, ShapeFacts
<1> DEFINE p == Parent(t, v)
<1>1. CASE p = NULL_NODE \/ Items(t, v) = <<>>
  <2>1. t2 = t BY <1>1 DEF UpdateToRoot
  <2> QED BY <2>1, <1>g, SameItems
<1>2. CASE ~(p = NULL_NODE \/ Items(t, v) = <<>>)
  <2>1. v # t.root BY <1>2, <1>s DEF NULL_NODE
  <2>2. p \in N /\ Rank(t, v, p) \in 1 .. Kids(t, p) BY <2>1, <1>g, RankIs
  <2>3. Kids(t, p) # 0 BY <2>2
  <2>4. ~Leaf(t, p) BY <2>2, <2>3, <1>g DEF Matched
  <2>5. Items(t, v)[1] \in Entries
    <3>1. Items(t, v) \in Seq(Entries) BY <1>g, <1>s, TreeTypes
    <3> QED BY <3>1, <1>2
  <2> DEFINE u == SetItem(t, p, Rank(t, v, p), Items(t, v)[1])
  <2>6. InnerItems(t, u) /\ u.status = t.status BY <2>5, <2>4, <2>2, <1>g, <1>s, SeparatorSet
  <2>7. InnerItems(t, [u EXCEPT !.status = "hung"]) /\ [u EXCEPT !.status = "hung"].status = "hung"
    <3> HIDE DEF u
    <3> QED BY <2>6, StatusSet
  <2>8. t2 = u \/ t2 = [u EXCEPT !.status = "hung"] BY <1>2 DEF UpdateToRoot
  <2> HIDE DEF u
  <2> QED BY <2>6, <2>7, <2>8
<1> QED BY <1>1, <1>2

(* The loop of solveUnderflow, like updateToRoot.                          *)
LEMMA UpdateParentsIs ==
  ASSUME NEW t, NEW N, NEW h, NEW nx, NEW pv, Good(t, N, h, nx, pv), NEW v \in N,
         NEW t2, t2 = UpdateParents(t, v)
  PROVE  InnerItems(t, t2) /\ t2.status \in {t.status, "hung"}
<1>g. t \in Trees /\ Shape(t, N, h) /\ Matched(t, N) BY DEF Good
<1>s. N \subseteq Pages /\ t.root \in N /\ Parent(t, t.root) = 0 BY <1>g, ShapeFacts
<1> DEFINE p == Parent(t, v)
<1>1. CASE p = NULL_NODE \/ ~LowersParent(t, v)
  <2>1. t2 = t BY <1>1 DEF UpdateParents
  <2> QED BY <2>1, <1>g, SameItems
<1>2. CASE ~(p = NULL_NODE \/ ~LowersParent(t, v))
  <2>1. v # t.root BY <1>2, <1>s DEF NULL_NODE
  <2>2. p \in N /\ Rank(t, v, p) \in 1 .. Kids(t, p) BY <2>1, <1>g, RankIs
  <2>3. Kids(t, p) # 0 BY <2>2
  <2>4. ~Leaf(t, p) BY <2>2, <2>3, <1>g DEF Matched
  <2>5. Items(t, v)[1] \in Entries
    <3>1. Items(t, v) \in Seq(Entries) BY <1>g, <1>s, TreeTypes
    <3>2. Items(t, v) # <<>> BY <1>2 DEF LowersParent
    <3> QED BY <3>1, <3>2
  <2> DEFINE u == SetItem(t, p, Rank(t, v, p), Items(t, v)[1])
  <2>6. InnerItems(t, u) /\ u.status = t.status BY <2>5, <2>4, <2>2, <1>g, <1>s, SeparatorSet
  <2>7. InnerItems(t, [u EXCEPT !.status = "hung"]) /\ [u EXCEPT !.status = "hung"].status = "hung"
    <3> HIDE DEF u
    <3> QED BY <2>6, StatusSet
  <2>8. t2 = u \/ t2 = [u EXCEPT !.status = "hung"] BY <1>2 DEF UpdateParents
  <2> HIDE DEF u
  <2> QED BY <2>6, <2>7, <2>8
<1> QED BY <1>1, <1>2

(* Children get a parent and nothing else.                                 *)
LEMMA SetParentsIs ==
  ASSUME NEW t \in Trees, NEW children \in Seq(Pages), NEW p \in Nat
  PROVE  LET t2 == SetParents(t, children, p) IN
         /\ t2 \in Trees /\ SameHead(t, t2) /\ t2.status = t.status
         /\ \A x \in Pages : /\ t2.node[x] = [t.node[x] EXCEPT !.parent = Parent(t2, x)]
                             /\ Items(t2, x) = Items(t, x) /\ Childs(t2, x) = Childs(t, x)
                             /\ Leaf(t2, x) = Leaf(t, x) /\ Left(t2, x) = Left(t, x)
                             /\ Right(t2, x) = Right(t, x) /\ NextFree(t2, x) = NextFree(t, x)
         /\ \A i \in 1 .. Len(children) : Parent(t2, children[i]) = p
         /\ \A x \in Pages : (\A i \in 1 .. Len(children) : children[i] # x) => t2.node[x] = t.node[x]
<1> DEFINE t2 == SetParents(t, children, p)
           S == ToSet(children)
           nodes == [c \in Pages |-> IF c \in S THEN [t.node[c] EXCEPT !.parent = p] ELSE t.node[c]]
<1>1. t.node \in [Pages -> TreeNodes] BY DEF Trees
<1>2. \A c : c \in S <=> \E i \in 1 .. Len(children) : children[i] = c BY DEF ToSet
<1> HIDE DEF S
<1>3. \A c \in Pages : [t.node[c] EXCEPT !.parent = p] \in TreeNodes /\ t.node[c] \in TreeNodes BY <1>1 DEF TreeNodes
<1>4. nodes \in [Pages -> TreeNodes] BY <1>3
<1>5. \A x \in Pages : nodes[x] = IF x \in S THEN [t.node[x] EXCEPT !.parent = p] ELSE t.node[x] OBVIOUS
<1> HIDE DEF nodes
<1>6. t2 = [t EXCEPT !.node = nodes] BY DEF SetParents, nodes, S
<1> HIDE DEF t2
<1>7. t2 \in Trees /\ SameHead(t, t2) /\ t2.status = t.status /\ t2.node = nodes BY <1>6, <1>4 DEF Trees, SameHead
<1>8. ASSUME NEW x \in Pages
      PROVE /\ t2.node[x] = [t.node[x] EXCEPT !.parent = Parent(t2, x)]
            /\ Items(t2, x) = Items(t, x) /\ Childs(t2, x) = Childs(t, x)
            /\ Leaf(t2, x) = Leaf(t, x) /\ Left(t2, x) = Left(t, x)
            /\ Right(t2, x) = Right(t, x) /\ NextFree(t2, x) = NextFree(t, x)
            /\ x \in S => Parent(t2, x) = p
            /\ x \notin S => t2.node[x] = t.node[x]
  <2>1. t.node[x] \in TreeNodes BY <1>3
  <2>2. CASE x \in S
    <3>1. t2.node[x] = [t.node[x] EXCEPT !.parent = p] BY <2>2, <1>5, <1>7
    <3>2. Parent(t2, x) = p BY <3>1, <2>1 DEF Parent, TreeNodes
    <3> QED BY <3>1, <3>2, <2>1, <2>2 DEF TreeNodes, Items, Childs, Leaf, Left, Right, NextFree
  <2>3. CASE x \notin S
    <3>1. t2.node[x] = t.node[x] BY <2>3, <1>5, <1>7
    <3>2. t.node[x] = [t.node[x] EXCEPT !.parent = t.node[x].parent] BY <2>1 DEF TreeNodes
    <3> QED BY <3>1, <3>2, <2>3 DEF Items, Childs, Parent, Leaf, Left, Right, NextFree
  <2> QED BY <2>2, <2>3
<1>9. \A i \in 1 .. Len(children) : children[i] \in S /\ children[i] \in Pages BY <1>2
<1>10. \A i \in 1 .. Len(children) : Parent(t2, children[i]) = p BY <1>8, <1>9
<1>11. \A x \in Pages : (\A i \in 1 .. Len(children) : children[i] # x) => t2.node[x] = t.node[x] BY <1>8, <1>2
<1> QED BY <1>7, <1>8, <1>10, <1>11 DEF t2

(* Half of the limit, rounded up, and two such halves.                     *)
LEMMA MinItemsIs == MinItems \in Nat /\ MinItems >= 2 /\ MinItems < EntryLimit
                    /\ EntryLimit <= 2 * MinItems /\ 2 * MinItems <= EntryLimit + 1
BY EntryLimitAssumption DEF MinItems

(* A leaf has no children to move.                                         *)
LEMMA NoUpper ==
  ASSUME NEW s \in Nat
  PROVE  SubSeq(<<>>, s + 1, Len(<<>>)) = <<>>
<1>1. Len(<<>>) = 0 /\ s + 1 \in Int /\ 0 \in Int /\ s + 1 > 0 OBVIOUS
<1>2. \A i \in s + 1 .. 0 : <<>>[i] \in Nat OBVIOUS
<1>3. Len(SubSeq(<<>>, s + 1, 0)) = 0 /\ SubSeq(<<>>, s + 1, 0) \in Seq(Nat)
  BY <1>1, <1>2, SubSeqProperties
<1> QED BY <1>1, <1>3, EmptySeq

(* How many children stay.                                                 *)
Staying(t, v) == IF Kids(t, v) = 0 THEN 0 ELSE MinItems

(* The upper half of v's items and children is in u.                       *)
Halved(t, t2, v, u) ==
  /\ Kids(t2, v) = Staying(t, v)
  /\ \A i \in 1 .. Staying(t, v) : Kid(t2, v, i) = Kid(t, v, i)
  /\ Kids(t2, u) = Kids(t, v) - Staying(t, v)
  /\ \A i \in 1 .. Kids(t, v) - Staying(t, v) : Kid(t2, u, i) = Kid(t, v, Staying(t, v) + i)
  /\ \A j \in Staying(t, v) + 1 .. Kids(t, v) : Parent(t2, Kid(t, v, j)) = u
  /\ Size(t2, v) = MinItems
  /\ \A i \in 1 .. MinItems : Item(t2, v, i) = Item(t, v, i)
  /\ Size(t2, u) = Size(t, v) - MinItems
  /\ \A i \in 1 .. Size(t, v) - MinItems : Item(t2, u, i) = Item(t, v, MinItems + i)
  /\ Leaf(t2, v) = Leaf(t, v)
  /\ Leaf(t2, u) = Leaf(t, v)

(* The leaf u behind the leaf v.                                           *)
Inserted(t, t2, v, u) ==
  /\ Leaf(t, v) => Right(t2, v) = u /\ Left(t2, u) = v /\ Right(t2, u) = Right(t, v)
  /\ ~Leaf(t, v) => Right(t2, v) = Right(t, v) /\ Left(t2, u) = 0 /\ Right(t2, u) = 0
  /\ Left(t2, v) = Left(t, v)
  /\ \A x \in Pages \ {v, u} :
       /\ Right(t2, x) = Right(t, x)
       /\ Left(t2, x) = IF Leaf(t, v) /\ x = Right(t, v) THEN u ELSE Left(t, x)

(* Split moves the upper half of a full node to a free page.               *)
LEMMA SplitIs ==
  ASSUME NEW t, NEW N, NEW h, NEW nx, NEW pv, Good(t, N, h, nx, pv),
         NEW v \in N, Size(t, v) = EntryLimit + 1, t.pageNum <= MaxNode
  PROVE  LET t2 == Split(t, v)
             u  == t.nextFree
         IN
         /\ t2 \in Trees
         /\ u \in Pages \ N /\ u # Right(t, v)
         /\ FreeList(t2, N \cup {u})
         /\ t.pageNum <= t2.pageNum /\ t2.pageNum <= t.pageNum + 1
         /\ t2.root = t.root /\ t2.right = t.right
         /\ t2.entryNum = t.entryNum /\ t2.status = t.status
         /\ Halved(t, t2, v, u)
         /\ Inserted(t, t2, v, u)
         /\ Parent(t2, u) = 0
         /\ NextFree(t2, u) = 0
         /\ \A x \in Pages \ {u} :
              /\ (\A j \in Staying(t, v) + 1 .. Kids(t, v) : Kid(t, v, j) # x) => Parent(t2, x) = Parent(t, x)
              /\ NextFree(t2, x) = NextFree(t, x)
         /\ \A x \in Pages \ {u, v} :
              /\ Items(t2, x) = Items(t, x) /\ Childs(t2, x) = Childs(t, x) /\ Leaf(t2, x) = Leaf(t, x)
         /\ \A x \in Pages \ (N \cup {u}) : t2.node[x] = t.node[x]
<1>g. /\ t \in Trees
      /\ Shape(t, N, h) /\ Links(t, N, h, nx, pv) /\ LeafLinks(t, N, nx, pv)
      /\ FreeList(t, N)
      /\ Matched(t, N) BY DEF Good
<1>s. /\ N \subseteq Pages /\ 0 \notin Pages
      /\ \A x \in N : \A i \in 1 .. Kids(t, x) : Kid(t, x, i) \in N
  BY <1>g, ShapeFacts
<1>v. v \in Pages BY <1>s
<1> DEFINE t2 == Split(t, v)
           u  == t.nextFree
           n  == t.node[v]
           s  == MinItems
           Upper(seq) == SubSeq(seq, s + 1, Len(seq))
           Lower(seq) == IF seq = <<>> THEN <<>> ELSE SubSeq(seq, 1, s)
           c  == CreateNode(t, n.leaf)
           linked == [p \in Pages |->
             CASE p = v -> [n EXCEPT !.items = Lower(@), !.childs = Lower(@),
                                     !.right = IF n.leaf THEN u ELSE @]
               [] p = u -> [c.node[u] EXCEPT !.items = Upper(n.items),
                                             !.childs = Upper(n.childs),
                                             !.left = IF n.leaf THEN v ELSE @,
                                             !.right = IF n.leaf THEN n.right ELSE @]
               [] n.leaf /\ p = n.right -> [c.node[p] EXCEPT !.left = u]
               [] OTHER -> c.node[p]]
           t1 == [c EXCEPT !.node = linked]
           ups == Upper(n.childs)
<1>1. t2 = SetParents(t1, ups, u) BY DEF Split, MinItems, Items, Childs
<1> HIDE DEF t2
<1>n. n \in TreeNodes BY <1>v, <1>g, TreeTypes
<1>c. /\ c \in Trees
      /\ u \in Pages \ N /\ u <= t.pageNum
      /\ FreeList(c, N \cup {u})
      /\ t.pageNum <= c.pageNum /\ c.pageNum <= t.pageNum + 1
      /\ c.root = t.root /\ c.right = t.right
      /\ c.entryNum = t.entryNum /\ c.status = t.status
      /\ c.node[u] = [EmptyNode EXCEPT !.leaf = n.leaf]
      /\ \A x \in Pages \ {u} : c.node[x] = t.node[x]
  <2>1. n.leaf \in BOOLEAN BY <1>n DEF TreeNodes
  <2> USE DEF u
  <2> QED BY <2>1, <1>g, CreateNodeIs DEF c
<1> HIDE DEF c, u
<1>m. s \in Nat /\ s >= 2 /\ s < EntryLimit + 1 /\ EntryLimit \in Nat BY MinItemsIs, EntryLimitAssumption
<1> HIDE DEF s
<1>e. /\ c.node[u].leaf = n.leaf /\ c.node[u].parent = 0 /\ c.node[u].left = 0 /\ c.node[u].right = 0
      /\ c.node[u].next_free = 0 /\ c.node[u] \in TreeNodes
  <2>1. c.node[u] \in TreeNodes BY <1>c DEF Trees
  <2> QED BY <2>1, <1>c DEF EmptyNode, NULL_NODE
\* The halves.
<1>i. /\ n.items \in Seq(Entries) /\ Len(n.items) = EntryLimit + 1 /\ n.items # <<>>
      /\ n.items = Items(t, v) /\ n.childs = Childs(t, v) /\ n.childs \in Seq(Pages)
      /\ n.leaf \in BOOLEAN /\ n.leaf = Leaf(t, v) /\ n.right = Right(t, v) /\ n.right \in Nat
      /\ n.left = Left(t, v)
  <2>1. n.items = Items(t, v) BY DEF Items
  <2>2. Items(t, v) \in Seq(Entries) BY <1>v, <1>g, TreeTypes
  <2>3. Len(n.items) = EntryLimit + 1 BY <2>1 DEF Size
  <2>4. n.items # <<>> BY <2>3, <1>m
  <2>5. n.childs = Childs(t, v) /\ n.leaf = Leaf(t, v) /\ n.right = Right(t, v) /\ n.left = Left(t, v)
    BY DEF Childs, Leaf, Right, Left
  <2> QED BY <2>1, <2>2, <2>3, <2>4, <2>5, <1>n DEF TreeNodes
<1>k. /\ n.childs # <<>> => Len(n.childs) = EntryLimit + 1
      /\ n.childs = <<>> <=> Kids(t, v) = 0
      /\ Kids(t, v) = Len(n.childs) /\ Kids(t, v) \in Nat
      /\ n.leaf <=> Kids(t, v) = 0
  <2>1. n.childs = <<>> <=> Kids(t, v) = 0 BY <1>v, <1>g, <1>i, TreeTypes
  <2>2. Kids(t, v) = Len(n.childs) BY <1>i DEF Kids
  <2>3. Leaf(t, v) <=> Kids(t, v) = 0 BY <1>g DEF Matched
  <2>4. ~Leaf(t, v) => Kids(t, v) = EntryLimit + 1 BY <1>g DEF Matched
  <2>5. Kids(t, v) \in Nat BY <1>v, <1>g, TreeTypes
  <2> QED BY <2>1, <2>2, <2>3, <2>4, <2>5, <1>i
<1> HIDE DEF n
<1>2. /\ Lower(n.items) \in Seq(Entries) /\ Len(Lower(n.items)) = s
      /\ \A i \in 1 .. s : Lower(n.items)[i] = n.items[i]
      /\ Upper(n.items) \in Seq(Entries) /\ Len(Upper(n.items)) = EntryLimit + 1 - s
      /\ \A i \in 1 .. EntryLimit + 1 - s : Upper(n.items)[i] = n.items[s + i]
  <2>1. s \in 1 .. Len(n.items) BY <1>i, <1>m
  <2>2. Lower(n.items) = SubSeq(n.items, 1, s) BY <1>i
  <2>3. Upper(n.items) = SubSeq(n.items, s + 1, Len(n.items)) OBVIOUS
  <2> HIDE DEF Upper, Lower
  <2>4. /\ SubSeq(n.items, 1, s) \in Seq(Entries)
        /\ Len(SubSeq(n.items, 1, s)) = s
        /\ \A i \in 1 .. s : SubSeq(n.items, 1, s)[i] = n.items[i]
        /\ SubSeq(n.items, s + 1, Len(n.items)) \in Seq(Entries)
        /\ Len(SubSeq(n.items, s + 1, Len(n.items))) = Len(n.items) - s
        /\ \A i \in 1 .. Len(n.items) - s : SubSeq(n.items, s + 1, Len(n.items))[i] = n.items[s + i]
    BY <2>1, <1>i, HalvesAre
  <2> QED BY <2>2, <2>3, <2>4, <1>i, <1>m
<1>z. Staying(t, v) = IF n.childs = <<>> THEN 0 ELSE s BY <1>k DEF Staying, s
<1>3. /\ Lower(n.childs) \in Seq(Pages) /\ Len(Lower(n.childs)) = Staying(t, v)
      /\ \A i \in 1 .. Staying(t, v) : Lower(n.childs)[i] = n.childs[i]
      /\ ups \in Seq(Pages) /\ Len(ups) = Len(n.childs) - Staying(t, v)
      /\ \A i \in 1 .. Len(n.childs) - Staying(t, v) : ups[i] = n.childs[Staying(t, v) + i]
  <2>1. CASE n.childs = <<>>
    <3>1. ups = <<>> BY <2>1, <1>m, NoUpper
    <3>2. Lower(n.childs) = <<>> /\ Staying(t, v) = 0 BY <2>1, <1>z
    <3>3. Len(n.childs) = 0 /\ \A S : <<>> \in Seq(S) BY <2>1
    <3> HIDE DEF ups
    <3> QED BY <3>1, <3>2, <3>3, <2>1
  <2>2. CASE n.childs # <<>>
    <3>1. s \in 1 .. Len(n.childs) BY <2>2, <1>k, <1>m
    <3> QED BY <3>1, <2>2, <1>i, <1>z, HalvesAre
  <2> QED BY <2>1, <2>2
<1>y. Staying(t, v) \in Nat /\ Staying(t, v) <= Len(n.childs) BY <1>z, <1>m, <1>k
<1> DEFINE lowI == Lower(n.items)
           upI  == Upper(n.items)
           lowC == Lower(n.childs)
           nv == [n EXCEPT !.items = lowI, !.childs = lowC, !.right = IF n.leaf THEN u ELSE n.right]
           nu == [c.node[u] EXCEPT !.items = upI, !.childs = ups,
                                   !.left = IF n.leaf THEN v ELSE c.node[u].left,
                                   !.right = IF n.leaf THEN n.right ELSE c.node[u].right]
           nq == [c.node[n.right] EXCEPT !.left = u]
\* The neighbour behind v.
<1>r. n.leaf => n.right \in N \cup {0} /\ n.right # v /\ n.right # u
  <2>1. \A x \in N : nx[x] \in N \cup {0} BY <1>g, LinkFacts
  <2>2. nx[v] # v BY <1>g, NotOwnNext
  <2>3. n.leaf => Right(t, v) = nx[v] BY <1>k, <1>g DEF LeafLinks
  <2> QED BY <2>1, <2>2, <2>3, <1>i, <1>c, <1>s
<1>4. linked = [p \in Pages |-> CASE p = v -> nv [] p = u -> nu [] n.leaf /\ p = n.right -> nq [] OTHER -> c.node[p]]
  BY DEF linked
<1> HIDE DEF lowI, upI, lowC, ups, Upper, Lower
<1>nv. /\ nv \in TreeNodes
       /\ nv.items = lowI /\ nv.childs = lowC /\ nv.right = IF n.leaf THEN u ELSE n.right
       /\ nv.left = n.left /\ nv.leaf = n.leaf /\ nv.parent = n.parent /\ nv.next_free = n.next_free
  <2>1. u \in Nat BY <1>c DEF Pages
  <2> QED BY <2>1, <1>n, <1>2, <1>3 DEF TreeNodes, lowI, lowC
<1>nu. /\ nu \in TreeNodes
       /\ nu.items = upI /\ nu.childs = ups /\ nu.left = (IF n.leaf THEN v ELSE 0)
       /\ nu.right = (IF n.leaf THEN n.right ELSE 0)
       /\ nu.leaf = n.leaf /\ nu.parent = 0 /\ nu.next_free = 0
  <2>1. v \in Nat BY <1>v DEF Pages
  <2> QED BY <2>1, <1>e, <1>2, <1>3, <1>i DEF TreeNodes, upI
<1>nq. n.leaf /\ n.right # 0 => c.node[n.right] = t.node[n.right] /\ nq \in TreeNodes
         /\ nq.left = u /\ nq.items = t.node[n.right].items /\ nq.childs = t.node[n.right].childs
         /\ nq.right = t.node[n.right].right /\ nq.leaf = t.node[n.right].leaf
         /\ nq.parent = t.node[n.right].parent /\ nq.next_free = t.node[n.right].next_free
  <2>1. SUFFICES ASSUME n.leaf /\ n.right # 0 PROVE c.node[n.right] = t.node[n.right] /\ nq \in TreeNodes
         /\ nq.left = u /\ nq.items = t.node[n.right].items /\ nq.childs = t.node[n.right].childs
         /\ nq.right = t.node[n.right].right /\ nq.leaf = t.node[n.right].leaf
         /\ nq.parent = t.node[n.right].parent /\ nq.next_free = t.node[n.right].next_free
    OBVIOUS
  <2>2. n.right \in Pages \ {u} BY <2>1, <1>r, <1>s
  <2>3. c.node[n.right] = t.node[n.right] BY <2>2, <1>c
  <2>4. t.node[n.right] \in TreeNodes BY <2>2, <1>g, TreeTypes
  <2>5. u \in Nat BY <1>c DEF Pages
  <2> QED BY <2>3, <2>4, <2>5 DEF TreeNodes
<1> HIDE DEF nv, nu, nq, linked
<1>5. /\ linked[v] = nv /\ linked[u] = nu
      /\ n.leaf /\ n.right # 0 => linked[n.right] = nq
      /\ \A x \in Pages \ {v, u} : ~(n.leaf /\ x = n.right) => linked[x] = t.node[x]
  <2>1. v # u BY <1>c
  <2>2. n.leaf /\ n.right # 0 => n.right \in Pages BY <1>r, <1>s
  <2> QED BY <2>1, <2>2, <1>4, <1>v, <1>c, <1>r
<1>6. linked \in [Pages -> TreeNodes]
  <2>1. \A x \in Pages : t.node[x] \in TreeNodes /\ c.node[x] \in TreeNodes BY <1>g, <1>c, TreeTypes
  <2>2. \A x \in Pages : n.leaf /\ x = n.right => nq \in TreeNodes BY <1>nq, <1>s
  <2> QED BY <2>1, <2>2, <1>4, <1>nv, <1>nu
<1>7. t1 \in Trees /\ t1.node = linked /\ SameHead(c, t1) /\ t1.status = c.status
  BY <1>6, <1>c DEF Trees, SameHead
<1> HIDE DEF t1
<1>8. /\ t2 \in Trees /\ SameHead(t1, t2) /\ t2.status = t1.status
      /\ \A x \in Pages : /\ t2.node[x] = [t1.node[x] EXCEPT !.parent = Parent(t2, x)]
                          /\ Items(t2, x) = Items(t1, x) /\ Childs(t2, x) = Childs(t1, x)
                          /\ Leaf(t2, x) = Leaf(t1, x) /\ Left(t2, x) = Left(t1, x)
                          /\ Right(t2, x) = Right(t1, x) /\ NextFree(t2, x) = NextFree(t1, x)
      /\ \A i \in 1 .. Len(ups) : Parent(t2, ups[i]) = u
      /\ \A x \in Pages : (\A i \in 1 .. Len(ups) : ups[i] # x) => t2.node[x] = t1.node[x]
  <2>1. u \in Nat BY <1>c DEF Pages
  <2>2. t1 \in Trees /\ ups \in Seq(Pages) BY <1>7, <1>3
  <2>3. LET T == SetParents(t1, ups, u) IN
        /\ T \in Trees /\ SameHead(t1, T) /\ T.status = t1.status
        /\ \A x \in Pages : /\ T.node[x] = [t1.node[x] EXCEPT !.parent = Parent(T, x)]
                            /\ Items(T, x) = Items(t1, x) /\ Childs(T, x) = Childs(t1, x)
                            /\ Leaf(T, x) = Leaf(t1, x) /\ Left(T, x) = Left(t1, x)
                            /\ Right(T, x) = Right(t1, x) /\ NextFree(T, x) = NextFree(t1, x)
        /\ \A i \in 1 .. Len(ups) : Parent(T, ups[i]) = u
        /\ \A x \in Pages : (\A i \in 1 .. Len(ups) : ups[i] # x) => T.node[x] = t1.node[x]
    BY <2>1, <2>2, SetParentsIs
  <2> QED BY <2>3, <1>1
\* The children that move.
<1>9. /\ \A j \in Staying(t, v) + 1 .. Kids(t, v) :
           j - Staying(t, v) \in 1 .. Len(ups) /\ ups[j - Staying(t, v)] = Kid(t, v, j)
      /\ \A i \in 1 .. Len(ups) :
           Staying(t, v) + i \in Staying(t, v) + 1 .. Kids(t, v) /\ ups[i] = Kid(t, v, Staying(t, v) + i)
  <2>1. ASSUME NEW i \in 1 .. Len(ups)
        PROVE Staying(t, v) + i \in Staying(t, v) + 1 .. Kids(t, v) /\ ups[i] = Kid(t, v, Staying(t, v) + i)
    <3>1. i \in 1 .. Len(n.childs) - Staying(t, v) BY <1>3
    <3> QED BY <3>1, <1>3, <1>y, <1>k, <1>i DEF Kid
  <2>2. ASSUME NEW j \in Staying(t, v) + 1 .. Kids(t, v)
        PROVE j - Staying(t, v) \in 1 .. Len(ups) /\ Staying(t, v) + (j - Staying(t, v)) = j
    BY <1>3, <1>y, <1>k
  <2> QED BY <2>1, <2>2
<1>10. Kids(t, v) = Len(n.childs) BY <1>k
<1>f. FreeList(t2, N \cup {u})
  <2>1. t2.pageNum = c.pageNum /\ t2.nextFree = c.nextFree BY <1>7, <1>8 DEF SameHead
  <2>2. ASSUME NEW x \in Pages \ (N \cup {u}) PROVE t2.node[x] = t.node[x] /\ c.node[x] = t.node[x]
    <3>1. linked[x] = t.node[x] BY <1>5, <1>r, <1>s, <2>2
    <3>2. \A i \in 1 .. Len(ups) : ups[i] # x BY <1>9, <1>y, <1>10, <1>s
    <3> QED BY <3>1, <3>2, <1>7, <1>8, <1>c
  <2>3. Unused(t2, N \cup {u}) = Unused(c, N \cup {u}) BY <2>1 DEF Unused
  <2>4. Unused(c, N \cup {u}) \subseteq Pages \ (N \cup {u}) BY <1>c, MaxNodeAssumption DEF Unused, FreeList, Pages
  <2>5. \A x \in Unused(c, N \cup {u}) : NextFree(t2, x) = NextFree(c, x) BY <2>2, <2>4 DEF NextFree
  <2> QED BY <2>1, <2>3, <2>5, <1>c DEF FreeList
<1>o. \A x \in Pages \ (N \cup {u}) : t2.node[x] = t.node[x]
  <2>1. ASSUME NEW x \in Pages \ (N \cup {u}) PROVE t2.node[x] = t.node[x]
    <3>1. linked[x] = t.node[x] BY <1>5, <1>r, <1>s
    <3>2. \A i \in 1 .. Len(ups) : ups[i] # x BY <1>9, <1>y, <1>10, <1>s
    <3> QED BY <3>1, <3>2, <1>7, <1>8
  <2> QED BY <2>1
<1>v1. /\ Items(t1, v) = lowI /\ Childs(t1, v) = lowC /\ Leaf(t1, v) = Leaf(t, v)
       /\ Left(t1, v) = Left(t, v) /\ Right(t1, v) = (IF Leaf(t, v) THEN u ELSE Right(t, v))
       /\ Parent(t1, v) = Parent(t, v) /\ NextFree(t1, v) = NextFree(t, v)
  BY <1>5, <1>7, <1>nv, <1>i DEF Items, Childs, Leaf, Left, Right, Parent, NextFree, n
<1>u1. /\ Items(t1, u) = upI /\ Childs(t1, u) = ups /\ Leaf(t1, u) = Leaf(t, v)
       /\ Left(t1, u) = (IF Leaf(t, v) THEN v ELSE 0)
       /\ Right(t1, u) = (IF Leaf(t, v) THEN Right(t, v) ELSE 0)
       /\ Parent(t1, u) = 0 /\ NextFree(t1, u) = 0
  BY <1>5, <1>7, <1>nu, <1>i DEF Items, Childs, Leaf, Left, Right, Parent, NextFree
<1>x1. ASSUME NEW x \in Pages \ {v, u}
       PROVE /\ Items(t1, x) = Items(t, x) /\ Childs(t1, x) = Childs(t, x) /\ Leaf(t1, x) = Leaf(t, x)
             /\ Right(t1, x) = Right(t, x) /\ Parent(t1, x) = Parent(t, x) /\ NextFree(t1, x) = NextFree(t, x)
             /\ Left(t1, x) = IF Leaf(t, v) /\ x = Right(t, v) THEN u ELSE Left(t, x)
  <2>1. CASE n.leaf /\ x = n.right
    <3>1. n.right # 0 BY <2>1, <1>s
    <3> QED BY <2>1, <3>1, <1>5, <1>7, <1>nq, <1>i DEF Items, Childs, Leaf, Left, Right, Parent, NextFree
  <2>2. CASE ~(n.leaf /\ x = n.right)
    BY <2>2, <1>5, <1>7, <1>i DEF Items, Childs, Leaf, Left, Right, Parent, NextFree
  <2> QED BY <2>1, <2>2
<1>11. Halved(t, t2, v, u)
  <2>1. Items(t2, v) = lowI /\ Childs(t2, v) = lowC /\ Leaf(t2, v) = Leaf(t, v) BY <1>v1, <1>8, <1>v
  <2>2. Items(t2, u) = upI /\ Childs(t2, u) = ups /\ Leaf(t2, u) = Leaf(t, v) BY <1>u1, <1>8, <1>c
  <2>3. Kids(t2, v) = Staying(t, v) /\ Kids(t2, u) = Kids(t, v) - Staying(t, v) BY <2>1, <2>2, <1>3, <1>10 DEF Kids, lowC
  <2>4. \A i \in 1 .. Staying(t, v) : Kid(t2, v, i) = Kid(t, v, i) BY <2>1, <1>3, <1>i DEF Kid, lowC
  <2>5. \A i \in 1 .. Kids(t, v) - Staying(t, v) : Kid(t2, u, i) = Kid(t, v, Staying(t, v) + i)
    BY <2>2, <1>3, <1>10, <1>i DEF Kid
  <2>6. \A j \in Staying(t, v) + 1 .. Kids(t, v) : Parent(t2, Kid(t, v, j)) = u BY <1>9, <1>8
  <2>a. s = MinItems /\ lowI = Lower(n.items) /\ upI = Upper(n.items) BY DEF s, lowI, upI
  <2>b. Size(t2, v) = Len(lowI) /\ Size(t2, u) = Len(upI) BY <2>1, <2>2 DEF Size
  <2>7. Size(t2, v) = MinItems /\ Size(t2, u) = Size(t, v) - MinItems BY <2>a, <2>b, <1>2, <1>m
  <2>8. \A i \in 1 .. MinItems : Item(t2, v, i) = Item(t, v, i) BY <2>1, <1>2, <1>i DEF Item, lowI, s
  <2>9. \A i \in 1 .. Size(t, v) - MinItems : Item(t2, u, i) = Item(t, v, MinItems + i)
    BY <2>2, <2>a, <1>2, <1>i, <1>m DEF Item
  <2> QED BY <2>1, <2>2, <2>3, <2>4, <2>5, <2>6, <2>7, <2>8, <2>9 DEF Halved
<1>12. Inserted(t, t2, v, u)
  <2>1. /\ Left(t2, v) = Left(t, v) /\ Right(t2, v) = (IF Leaf(t, v) THEN u ELSE Right(t, v))
        /\ Left(t2, u) = (IF Leaf(t, v) THEN v ELSE 0)
        /\ Right(t2, u) = (IF Leaf(t, v) THEN Right(t, v) ELSE 0)
    BY <1>v1, <1>u1, <1>8, <1>v, <1>c
  <2>2. \A x \in Pages \ {v, u} :
       /\ Right(t2, x) = Right(t, x)
       /\ Left(t2, x) = IF Leaf(t, v) /\ x = Right(t, v) THEN u ELSE Left(t, x) BY <1>x1, <1>8
  <2> QED BY <2>1, <2>2 DEF Inserted
<1>13. \A i \in 1 .. Len(ups) : ups[i] # u BY <1>9, <1>y, <1>10, <1>s, <1>c
<1>14. t2.node[u] = t1.node[u] BY <1>13, <1>8, <1>c
<1>15. Parent(t2, u) = 0 /\ NextFree(t2, u) = 0 BY <1>14, <1>u1 DEF Parent, NextFree
<1>16. ASSUME NEW x \in Pages \ {u}
       PROVE /\ (\A j \in Staying(t, v) + 1 .. Kids(t, v) : Kid(t, v, j) # x) => Parent(t2, x) = Parent(t, x)
             /\ NextFree(t2, x) = NextFree(t, x)
  <2>1. Parent(t1, x) = Parent(t, x) /\ NextFree(t1, x) = NextFree(t, x) BY <1>v1, <1>x1
  <2>2. NextFree(t2, x) = NextFree(t, x) BY <2>1, <1>8
  <2>3. ASSUME \A j \in Staying(t, v) + 1 .. Kids(t, v) : Kid(t, v, j) # x PROVE Parent(t2, x) = Parent(t, x)
    <3>1. \A i \in 1 .. Len(ups) : ups[i] # x BY <2>3, <1>9
    <3>2. t2.node[x] = t1.node[x] BY <3>1, <1>8
    <3> QED BY <3>2, <2>1 DEF Parent
  <2> QED BY <2>2, <2>3
<1>17. \A x \in Pages \ {u, v} :
         /\ Items(t2, x) = Items(t, x) /\ Childs(t2, x) = Childs(t, x) /\ Leaf(t2, x) = Leaf(t, x)
  BY <1>x1, <1>8
<1>18. u # Right(t, v)
  <2>1. CASE n.leaf BY <2>1, <1>r, <1>i
  <2>2. CASE ~n.leaf
    <3>1. Right(t, v) = 0 BY <2>2, <1>i, <1>g DEF Matched
    <3> QED BY <3>1, <1>c, <1>s
  <2> QED BY <2>1, <2>2
<1>19. /\ t.pageNum <= t2.pageNum /\ t2.pageNum <= t.pageNum + 1
       /\ t2.root = t.root /\ t2.right = t.right
       /\ t2.entryNum = t.entryNum /\ t2.status = t.status
  BY <1>c, <1>7, <1>8 DEF SameHead
<1> QED BY <1>8, <1>c, <1>f, <1>11, <1>12, <1>15, <1>16, <1>17, <1>18, <1>19, <1>o DEF t2, u

(* The new root is a free page with one child.                             *)
LEMMA GrowRootIs ==
  ASSUME NEW t \in Trees, NEW N, FreeList(t, N), t.pageNum <= MaxNode,
         NEW v \in N \cap Pages, Size(t, v) >= 1
  PROVE  LET t2 == GrowRoot(t, v)
             q  == t.nextFree
         IN  /\ t2 \in Trees
             /\ q \in Pages \ N
             /\ FreeList(t2, N \cup {q})
             /\ t.pageNum <= t2.pageNum /\ t2.pageNum <= t.pageNum + 1
             /\ t2.root = q /\ t2.right = t.right
             /\ t2.entryNum = t.entryNum /\ t2.status = t.status
             /\ Size(t2, q) = 1 /\ Kids(t2, q) = 1 /\ Kid(t2, q, 1) = v /\ Childs(t2, q) = <<v>>
             /\ Parent(t2, q) = 0 /\ ~Leaf(t2, q) /\ Left(t2, q) = 0 /\ Right(t2, q) = 0 /\ NextFree(t2, q) = 0
             /\ t2.node[v] = [t.node[v] EXCEPT !.parent = q]
             /\ \A x \in Pages \ {q, v} : t2.node[x] = t.node[x]
<1> DEFINE q  == t.nextFree
           c  == CreateNode(t, FALSE)
           e  == Items(t, v)[1]
           nq == [c.node[q] EXCEPT !.items = <<e>>, !.childs = <<v>>]
           nv == [c.node[v] EXCEPT !.parent = q]
           nodes == [c.node EXCEPT ![q] = nq, ![v] = nv]
           t2 == GrowRoot(t, v)
<1>1. t2 = [c EXCEPT !.root = q, !.node = nodes] BY DEF GrowRoot
<1>c. /\ c \in Trees
      /\ q \in Pages \ N /\ q <= t.pageNum
      /\ FreeList(c, N \cup {q})
      /\ t.pageNum <= c.pageNum /\ c.pageNum <= t.pageNum + 1
      /\ c.root = t.root /\ c.right = t.right
      /\ c.entryNum = t.entryNum /\ c.status = t.status
      /\ c.node[q] = [EmptyNode EXCEPT !.leaf = FALSE]
      /\ \A x \in Pages \ {q} : c.node[x] = t.node[x]
  BY CreateNodeIs
<1> HIDE DEF c, q, t2
<1>e. /\ c.node[q].leaf = FALSE /\ c.node[q].parent = 0 /\ c.node[q].left = 0 /\ c.node[q].right = 0
      /\ c.node[q].next_free = 0 /\ c.node[q] \in TreeNodes
  <2>1. c.node[q] \in TreeNodes BY <1>c DEF Trees
  <2> QED BY <2>1, <1>c DEF EmptyNode, NULL_NODE
<1>2. e \in Entries
  <2>1. Items(t, v) \in Seq(Entries) BY TreeTypes
  <2>2. Len(Items(t, v)) >= 1 BY DEF Size
  <2> QED BY <2>1, <2>2
<1>3. /\ <<e>> \in Seq(Entries) /\ Len(<<e>>) = 1 /\ <<v>> \in Seq(Pages) /\ Len(<<v>>) = 1 /\ <<v>>[1] = v
  <2> HIDE DEF e
  <2> QED BY <1>2
<1>4. q \in Nat /\ q # v BY <1>c DEF Pages
<1> DEFINE si == <<e>>
           sc == <<v>>
<1>5. nq = [c.node[q] EXCEPT !.items = si, !.childs = sc] OBVIOUS
<1>6. si \in Seq(Entries) /\ Len(si) = 1 /\ sc \in Seq(Pages) /\ Len(sc) = 1 /\ sc[1] = v BY <1>3
<1> HIDE DEF si, sc, e
<1>7. /\ nq \in TreeNodes /\ nq.leaf = FALSE /\ nq.parent = 0 /\ nq.left = 0 /\ nq.right = 0
      /\ nq.next_free = 0 /\ nq.items = si /\ nq.childs = sc
  <2> HIDE DEF nq
  <2> QED BY <1>5, <1>6, <1>e DEF TreeNodes
<1>8. c.node[v] = t.node[v] /\ c.node[v] \in TreeNodes /\ c.node \in [Pages -> TreeNodes]
  BY <1>c, <1>4 DEF Trees
<1>9. nv \in TreeNodes BY <1>8, <1>4 DEF TreeNodes
<1>10. nv = [t.node[v] EXCEPT !.parent = q] BY <1>8
<1> HIDE DEF nq, nv
<1>11. /\ nodes \in [Pages -> TreeNodes] /\ nodes[q] = nq /\ nodes[v] = nv
       /\ \A x \in Pages \ {q, v} : nodes[x] = t.node[x]
  BY <1>7, <1>9, <1>8, <1>4, <1>c
<1> HIDE DEF nodes
<1>12. /\ t2 \in Trees /\ t2.node = nodes /\ t2.root = q /\ t2.right = c.right
       /\ t2.nextFree = c.nextFree /\ t2.pageNum = c.pageNum /\ t2.entryNum = c.entryNum /\ t2.status = c.status
  BY <1>1, <1>c, <1>11, <1>4 DEF Trees
<1>13. FreeList(t2, N \cup {q})
  <2>1. Unused(t2, N \cup {q}) = Unused(c, N \cup {q}) BY <1>12 DEF Unused
  <2>2. Unused(c, N \cup {q}) \subseteq Pages \ (N \cup {q}) BY <1>c, MaxNodeAssumption DEF Unused, FreeList, Pages
  <2>3. \A x \in Unused(c, N \cup {q}) : NextFree(t2, x) = NextFree(c, x)
    BY <2>2, <1>11, <1>12, <1>c DEF NextFree
  <2> QED BY <2>1, <2>3, <1>12, <1>c DEF FreeList
<1>14. /\ Size(t2, q) = 1 /\ Kids(t2, q) = 1 /\ Kid(t2, q, 1) = v /\ Childs(t2, q) = <<v>>
       /\ Parent(t2, q) = 0 /\ ~Leaf(t2, q) /\ Left(t2, q) = 0 /\ Right(t2, q) = 0 /\ NextFree(t2, q) = 0
  <2>1. sc = <<v>> BY DEF sc
  <2> QED BY <2>1, <1>6, <1>7, <1>11, <1>12 DEF Size, Kids, Kid, Parent, Leaf, Left, Right, NextFree, Items, Childs
<1> QED BY <1>c, <1>10, <1>11, <1>12, <1>13, <1>14 DEF t2, q

(* u is behind v among the children of p.                                  *)
Linked(t, t2, v, u, p, r) ==
  /\ Kids(t2, p) = Kids(t, p) + 1
  /\ \A i \in 1 .. r : Kid(t2, p, i) = Kid(t, p, i)
  /\ Kid(t2, p, r + 1) = u
  /\ \A i \in r + 2 .. Kids(t, p) + 1 : Kid(t2, p, i) = Kid(t, p, i - 1)
  /\ Size(t2, p) = Size(t, p) + 1
  /\ \A i \in 1 .. Size(t, p) + 1 :
       Item(t2, p, i) = IF i <= r THEN Item(t, p, i)
                        ELSE IF i = r + 1 THEN Item(t, u, 1) ELSE Item(t, p, i - 1)

CanLink(t, v, u, p, r) ==
  /\ t \in Trees /\ v \in Pages /\ u \in Pages /\ p \in Pages
  /\ p = Parent(t, v) /\ p # u
  /\ r \in 1 .. Kids(t, p) /\ r = Rank(t, v, p)
  /\ Size(t, p) = Kids(t, p) /\ Size(t, u) >= 1

(* What a page keeps when other parts of it change.                        *)
KeepsLinks(t, t2, x) ==
  /\ Leaf(t2, x) = Leaf(t, x) /\ Left(t2, x) = Left(t, x)
  /\ Right(t2, x) = Right(t, x) /\ NextFree(t2, x) = NextFree(t, x)

KeepsLists(t, t2, x) == Items(t2, x) = Items(t, x) /\ Childs(t2, x) = Childs(t, x)

(* The parent gets a child and an item behind those of v.                  *)
LEMMA LinkSiblingIs ==
  ASSUME NEW t, NEW v, NEW u, NEW p, NEW r, CanLink(t, v, u, p, r)
  PROVE  LET t2 == LinkSibling(t, v, u)
         IN  /\ t2 \in Trees /\ SameHead(t, t2) /\ t2.status = t.status
             /\ Linked(t, t2, v, u, p, r)
             /\ \A x \in Pages : KeepsLinks(t, t2, x) /\ Parent(t2, x) = IF x = u THEN p ELSE Parent(t, x)
             /\ \A x \in Pages \ {p} : KeepsLists(t, t2, x)
             /\ \A x \in Pages \ {p, u} : t2.node[x] = t.node[x]
<1> USE DEF CanLink
<1> DEFINE e  == Items(t, u)[1]
           si == InsertAt(Items(t, p), r + 1, e)
           sc == InsertAt(Childs(t, p), r + 1, u)
           np == [t.node[p] EXCEPT !.items = si, !.childs = sc]
           nu == [t.node[u] EXCEPT !.parent = p]
           nodes == [t.node EXCEPT ![p] = np, ![u] = nu]
           t2 == LinkSibling(t, v, u)
<1>1. [InsertData(t.node[p], r + 1, e) EXCEPT !.childs = InsertAt(@, r + 1, u)] = np
  BY DEF InsertData, Items, Childs
<1>2. t2 = [t EXCEPT !.node = nodes]
  <2>1. t2 = [t EXCEPT !.node = [t.node EXCEPT
         ![p] = [InsertData(t.node[p], r + 1, e) EXCEPT !.childs = InsertAt(@, r + 1, u)],
         ![u] = [t.node[u] EXCEPT !.parent = p]]] BY DEF LinkSibling
  <2> HIDE DEF t2, e
  <2> QED BY <2>1, <1>1
<1> HIDE DEF t2
<1>t. /\ Items(t, p) \in Seq(Entries) /\ Childs(t, p) \in Seq(Pages)
      /\ Items(t, u) \in Seq(Entries) /\ t.node[p] \in TreeNodes /\ t.node[u] \in TreeNodes
      /\ Kids(t, p) = Len(Childs(t, p)) /\ Kids(t, p) \in Nat /\ Len(Items(t, p)) = Kids(t, p)
  BY TreeTypes DEF Kids, Size
<1>3. e \in Entries BY <1>t DEF Size
<1> HIDE DEF e
<1>4. /\ r \in Nat /\ r >= 1 /\ r <= Kids(t, p)
      /\ r + 1 \in 1 .. Len(Items(t, p)) + 1 /\ r + 1 \in 1 .. Len(Childs(t, p)) + 1 BY <1>t
<1> DEFINE k == r + 1
           I == Items(t, p)
           C == Childs(t, p)
<1>5. /\ si \in Seq(Entries) /\ Len(si) = Kids(t, p) + 1
      /\ \A i \in 1 .. Kids(t, p) + 1 :
           si[i] = IF i < r + 1 THEN Items(t, p)[i] ELSE IF i = r + 1 THEN e ELSE Items(t, p)[i - 1]
  <2>1. I \in Seq(Entries) /\ k \in 1 .. Len(I) + 1 BY <1>t, <1>4
  <2>5. Len(I) = Kids(t, p) BY <1>t
  <2>2. si = InsertAt(I, k, e) OBVIOUS
  <2> HIDE DEF si, I, k
  <2>3. /\ InsertAt(I, k, e) \in Seq(Entries)
        /\ Len(InsertAt(I, k, e)) = Len(I) + 1
        /\ \A i \in 1 .. Len(I) + 1 :
             InsertAt(I, k, e)[i] = IF i < k THEN I[i] ELSE IF i = k THEN e ELSE I[i - 1]
    BY <2>1, <1>3, InsertAtIs
  <2>4. /\ si \in Seq(Entries) /\ Len(si) = Kids(t, p) + 1
        /\ \A i \in 1 .. Kids(t, p) + 1 :
             si[i] = IF i < k THEN I[i] ELSE IF i = k THEN e ELSE I[i - 1]
    BY <2>1, <2>2, <2>3, <2>5
  <2> QED BY <2>4 DEF I, k
<1>6. /\ sc \in Seq(Pages) /\ Len(sc) = Kids(t, p) + 1
      /\ \A i \in 1 .. Kids(t, p) + 1 :
           sc[i] = IF i < r + 1 THEN Childs(t, p)[i] ELSE IF i = r + 1 THEN u ELSE Childs(t, p)[i - 1]
  <2>1. C \in Seq(Pages) /\ k \in 1 .. Len(C) + 1 BY <1>t, <1>4
  <2>5. Len(C) = Kids(t, p) BY <1>t
  <2>2. sc = InsertAt(C, k, u) OBVIOUS
  <2> HIDE DEF sc, C, k
  <2>3. /\ InsertAt(C, k, u) \in Seq(Pages)
        /\ Len(InsertAt(C, k, u)) = Len(C) + 1
        /\ \A i \in 1 .. Len(C) + 1 :
             InsertAt(C, k, u)[i] = IF i < k THEN C[i] ELSE IF i = k THEN u ELSE C[i - 1]
    BY <2>1, InsertAtIs
  <2>4. /\ sc \in Seq(Pages) /\ Len(sc) = Kids(t, p) + 1
        /\ \A i \in 1 .. Kids(t, p) + 1 :
             sc[i] = IF i < k THEN C[i] ELSE IF i = k THEN u ELSE C[i - 1]
    BY <2>1, <2>2, <2>3, <2>5
  <2> QED BY <2>4 DEF C, k
<1> HIDE DEF si, sc
<1>7. np \in TreeNodes /\ np.items = si /\ np.childs = sc BY <1>t, <1>5, <1>6 DEF TreeNodes
<1>8. nu \in TreeNodes
  <2>1. p \in Nat BY DEF Pages
  <2> QED BY <2>1, <1>t DEF TreeNodes
<1>9. t.node \in [Pages -> TreeNodes] BY DEF Trees
<1>p. np = [t.node[p] EXCEPT !.items = si, !.childs = sc] OBVIOUS
<1>u. nu = [t.node[u] EXCEPT !.parent = p] OBVIOUS
<1> HIDE DEF np, nu
<1>10. nodes \in [Pages -> TreeNodes] /\ nodes[p] = np /\ nodes[u] = nu
       /\ \A x \in Pages \ {p, u} : nodes[x] = t.node[x]
  BY <1>7, <1>8, <1>9
<1> HIDE DEF nodes
<1>11. t2 \in Trees /\ SameHead(t, t2) /\ t2.status = t.status /\ t2.node = nodes
  BY <1>2, <1>10 DEF Trees, SameHead
<1>12. Items(t2, p) = si /\ Childs(t2, p) = sc BY <1>11, <1>10, <1>7 DEF Items, Childs
<1>13. Linked(t, t2, v, u, p, r)
  <2>1. Kids(t2, p) = Kids(t, p) + 1 /\ Size(t2, p) = Size(t, p) + 1 BY <1>12, <1>5, <1>6 DEF Kids, Size
  <2>k. Kids(t, p) \in Nat BY <1>t
  <2>2. \A i \in 1 .. r : Kid(t2, p, i) = Kid(t, p, i)
    <3>1. \A i \in 1 .. r : i \in 1 .. Kids(t, p) + 1 /\ i < r + 1 BY <2>k, <1>4
    <3> QED BY <3>1, <1>12, <1>6 DEF Kid
  <2>3. Kid(t2, p, r + 1) = u BY <1>12, <1>6, <1>4, <1>t DEF Kid
  <2>4. \A i \in r + 2 .. Kids(t, p) + 1 : Kid(t2, p, i) = Kid(t, p, i - 1)
    <3>1. \A i \in r + 2 .. Kids(t, p) + 1 : i \in 1 .. Kids(t, p) + 1 /\ ~(i < r + 1) /\ i # r + 1 BY <2>k, <1>4
    <3> QED BY <3>1, <1>12, <1>6 DEF Kid
  <2>5. \A i \in 1 .. Size(t, p) + 1 :
       Item(t2, p, i) = IF i <= r THEN Item(t, p, i)
                        ELSE IF i = r + 1 THEN Item(t, u, 1) ELSE Item(t, p, i - 1)
    <3>1. e = Item(t, u, 1) BY DEF e, Item
    <3> QED BY <3>1, <1>12, <1>5, <1>4, <1>t DEF Item
  <2> QED BY <2>1, <2>2, <2>3, <2>4, <2>5 DEF Linked
<1>14. /\ t2.node[p] = [t.node[p] EXCEPT !.items = si, !.childs = sc]
       /\ t2.node[u] = [t.node[u] EXCEPT !.parent = p]
       /\ \A x \in Pages \ {p, u} : t2.node[x] = t.node[x]
  BY <1>10, <1>11, <1>p, <1>u
<1>15. KeepsLinks(t, t2, p) /\ Parent(t2, p) = Parent(t, p)
  BY <1>14, <1>t DEF TreeNodes, KeepsLinks, Leaf, Left, Right, NextFree, Parent
<1>16. KeepsLinks(t, t2, u) /\ Parent(t2, u) = p /\ KeepsLists(t, t2, u)
  BY <1>14, <1>t DEF TreeNodes, KeepsLinks, KeepsLists, Leaf, Left, Right, NextFree, Parent, Items, Childs
<1>17. \A x \in Pages \ {p, u} : KeepsLinks(t, t2, x) /\ KeepsLists(t, t2, x) /\ Parent(t2, x) = Parent(t, x)
  BY <1>14 DEF KeepsLinks, KeepsLists, Leaf, Left, Right, NextFree, Parent, Items, Childs
<1>18. \A x \in Pages : KeepsLinks(t, t2, x) /\ Parent(t2, x) = IF x = u THEN p ELSE Parent(t, x)
  BY <1>15, <1>16, <1>17
<1>19. \A x \in Pages \ {p} : KeepsLists(t, t2, x) BY <1>16, <1>17
<1>20. \A x \in Pages \ {p, u} : t2.node[x] = t.node[x] BY <1>14
<1> QED BY <1>11, <1>13, <1>18, <1>19, <1>20 DEF t2

(* What a split needs of the tree before it.                               *)
Frame(t, N, h, nx, pv) ==
  Shape(t, N, h) /\ Links(t, N, h, nx, pv) /\ LeafLinks(t, N, nx, pv) /\ Matched(t, N)

(* What it does besides moving children.                                   *)
PartedItems(t, t2, v, u, p) ==
  /\ t2.right = t.right
  /\ Inserted(t, t2, v, u)
  /\ Leaf(t2, v) = Leaf(t, v) /\ Leaf(t2, u) = Leaf(t, v)
  /\ Size(t2, v) = MinItems /\ Size(t2, u) = Size(t, v) - MinItems
  /\ Size(t2, p) = Size(t, p) + 1
  /\ \A x \in Pages \ {v, u} : Leaf(t2, x) = Leaf(t, x)
  /\ \A x \in Pages \ {v, u, p} : Size(t2, x) = Size(t, x)

(* The tree is linked as before when the parent has both halves.           *)
LEMMA PartedFrame ==
  ASSUME NEW t, NEW t2, NEW N, NEW h, NEW nx, NEW pv, Frame(t, N, h, nx, pv),
         NEW v \in N, NEW u \in Pages \ N, NEW p \in N,
         NEW r \in 1 .. Kids(t, p), Kid(t, p, r) = v,
         Kids(t, v) # 0 => Kids(t, v) > MinItems,
         Parted(t, t2, v, u, p, r, Staying(t, v)),
         PartedItems(t, t2, v, u, p)
  PROVE  Frame(t2, N \cup {u}, [h EXCEPT ![u] = h[v]], NextWith(nx, v, u), PrevWith(nx, pv, v, u))
<1>g. Shape(t, N, h) /\ Links(t, N, h, nx, pv) /\ LeafLinks(t, N, nx, pv) /\ Matched(t, N) BY DEF Frame
<1>s. /\ N \subseteq Pages /\ 0 \notin Pages
      /\ \A x \in Pages : Kids(t, x) \in Nat
      /\ \A x \in N : \A i \in 1 .. Kids(t, x) : Parent(t, Kid(t, x, i)) = x
      /\ \A x \in N : h[x] >= 1 /\ (Kids(t, x) = 0 => h[x] = 1)
      /\ h \in [Pages -> Nat]
      /\ \A x \in N : \A i \in 1 .. Kids(t, x) : h[x] = h[Kid(t, x, i)] + 1
  BY <1>g, ShapeFacts
<1>k. /\ \A x \in N : /\ nx[x] \in N \cup {0} /\ pv[x] \in N \cup {0}
                      /\ nx[x] # 0 => pv[nx[x]] = x /\ h[nx[x]] = h[x]
                      /\ pv[x] # 0 => nx[pv[x]] = x
      /\ \A x \in N : nx[x] # 0 => nx[x] \in N /\ (Kids(t, x) > 0 => Kids(t, nx[x]) > 0)
  BY <1>g, LinkFacts
<1>o. \A x \in N : nx[x] # x /\ pv[x] # x BY <1>g, NotOwnNext
<1>m. MinItems \in Nat /\ MinItems >= 2 BY MinItemsIs
<1>c. Cut(Staying(t, v), Kids(t, v))
  <2>1. Kids(t, v) \in Nat BY <1>s
  <2>2. CASE Kids(t, v) = 0
    <3>1. Staying(t, v) = 0 BY <2>2 DEF Staying
    <3> QED BY <3>1, <2>2 DEF Cut
  <2>3. CASE Kids(t, v) # 0
    <3>1. Staying(t, v) = MinItems /\ Kids(t, v) > MinItems BY <2>3 DEF Staying
    <3> QED BY <3>1, <2>1, <1>m DEF Cut
  <2> QED BY <2>2, <2>3
<1>1. /\ Shape(t2, N \cup {u}, [h EXCEPT ![u] = h[v]])
      /\ Links(t2, N \cup {u}, [h EXCEPT ![u] = h[v]], NextWith(nx, v, u), PrevWith(nx, pv, v, u))
  BY <1>g, <1>c, PartedShape, PartedLinks
<1>p. /\ Kids(t2, v) = Staying(t, v)
      /\ Kids(t2, u) = Kids(t, v) - Staying(t, v)
      /\ Kids(t2, p) = Kids(t, p) + 1
      /\ \A x \in Pages \ {v, u, p} : Kids(t2, x) = Kids(t, x)
  BY DEF Parted
<1>v. v \in Pages /\ u \in Pages /\ v # u /\ p \in Pages /\ u # p BY <1>s
<1>q. p # v /\ Kids(t, p) \in Nat /\ Kids(t, p) > 0
  <2>1. h[p] = h[v] + 1 BY <1>s
  <2>2. h[v] \in Nat BY <1>s, <1>v
  <2>3. Kids(t, p) \in Nat BY <1>s, <1>v
  <2> QED BY <2>1, <2>2, <2>3
<1>y. /\ Kids(t, v) \in Nat /\ Staying(t, v) \in Nat
      /\ Kids(t, v) = 0 => Staying(t, v) = 0
      /\ Kids(t, v) # 0 => Staying(t, v) = MinItems /\ Staying(t, v) > 0 /\ Kids(t, v) - Staying(t, v) > 0
  <2>1. Kids(t, v) \in Nat BY <1>s, <1>v
  <2> QED BY <2>1, <1>m DEF Staying
<1>z. /\ Kids(t2, v) = 0 <=> Kids(t, v) = 0
      /\ Kids(t2, u) = 0 <=> Kids(t, v) = 0
      /\ Kids(t2, p) # 0 /\ Kids(t, p) # 0
  BY <1>p, <1>y, <1>q
<1>i. /\ Leaf(t, v) => Right(t2, v) = u /\ Left(t2, u) = v /\ Right(t2, u) = Right(t, v)
      /\ ~Leaf(t, v) => Right(t2, v) = Right(t, v) /\ Left(t2, u) = 0 /\ Right(t2, u) = 0
      /\ Left(t2, v) = Left(t, v)
      /\ \A x \in Pages \ {v, u} :
           /\ Right(t2, x) = Right(t, x)
           /\ Left(t2, x) = IF Leaf(t, v) /\ x = Right(t, v) THEN u ELSE Left(t, x)
  BY DEF PartedItems, Inserted
<1>j. /\ t2.right = t.right
      /\ Leaf(t2, v) = Leaf(t, v) /\ Leaf(t2, u) = Leaf(t, v)
      /\ Size(t2, v) = MinItems /\ Size(t2, u) = Size(t, v) - MinItems
      /\ Size(t2, p) = Size(t, p) + 1
      /\ \A x \in Pages \ {v, u} : Leaf(t2, x) = Leaf(t, x)
      /\ \A x \in Pages \ {v, u, p} : Size(t2, x) = Size(t, x)
  BY DEF PartedItems
<1>l. \A x \in N : Kids(t, x) = 0 => Right(t, x) = nx[x] /\ Left(t, x) = pv[x] /\ (pv[x] = 0 => t.right = x)
  BY <1>g DEF LeafLinks
<1>t. \A x \in N : /\ Leaf(t, x) <=> Kids(t, x) = 0
                   /\ ~Leaf(t, x) => Size(t, x) = Kids(t, x) /\ Left(t, x) = 0 /\ Right(t, x) = 0
  BY <1>g DEF Matched
<1> DEFINE nx2 == NextWith(nx, v, u)
           pv2 == PrevWith(nx, pv, v, u)
<1>n. /\ nx2[v] = u /\ nx2[u] = nx[v] /\ pv2[u] = v
      /\ \A x \in N \ {v} : nx2[x] = nx[x]
      /\ \A x \in N : pv2[x] = IF x = nx[v] THEN u ELSE pv[x]
  BY <1>v, <1>s DEF NextWith, PrevWith
<1> HIDE DEF nx2, pv2, Kids, Leaf, Left, Right, Size
<1>2. LeafLinks(t2, N \cup {u}, nx2, pv2)
  <2>1. ASSUME NEW x \in N \cup {u}, Kids(t2, x) = 0
        PROVE  Right(t2, x) = nx2[x] /\ Left(t2, x) = pv2[x] /\ (pv2[x] = 0 => t2.right = x)
    <3>1. CASE x = v
      <4>1. Kids(t, v) = 0 /\ Leaf(t, v) BY <3>1, <2>1, <1>z, <1>t
      <4>2. pv2[v] = pv[v] BY <1>n, <1>o
      <4> QED BY <3>1, <4>1, <4>2, <1>i, <1>l, <1>n, <1>j
    <3>2. CASE x = u
      <4>1. Kids(t, v) = 0 /\ Leaf(t, v) BY <3>2, <2>1, <1>z, <1>t
      <4>2. v # 0 BY <1>v, <1>s
      <4> QED BY <3>2, <4>1, <4>2, <1>i, <1>l, <1>n
    <3>3. CASE x # v /\ x # u
      <4>1. x \in N /\ x \in Pages \ {v, u} /\ x # p BY <3>3, <1>s, <2>1, <1>z
      <4>2. Kids(t, x) = 0 BY <4>1, <2>1, <1>p
      <4>3. Right(t2, x) = nx2[x] BY <4>1, <4>2, <1>i, <1>l, <1>n
      <4>4. CASE x = nx[v]
        <5>1. nx[v] # 0 BY <4>4, <4>1, <1>s
        <5>2. Kids(t, v) = 0
          <6>1. ~(Kids(t, v) > 0) BY <5>1, <4>4, <4>2, <1>k
          <6> QED BY <6>1, <1>y
        <5>3. Leaf(t, v) /\ Right(t, v) = x BY <5>2, <1>t, <1>l, <4>4
        <5>4. Left(t2, x) = u BY <5>3, <4>1, <1>i
        <5>5. pv2[x] = u /\ u # 0 BY <4>4, <4>1, <1>n, <1>v, <1>s
        <5> QED BY <4>3, <5>4, <5>5
      <4>5. CASE x # nx[v]
        <5>1. pv2[x] = pv[x] BY <4>5, <4>1, <1>n
        <5>2. ~(Leaf(t, v) /\ x = Right(t, v)) BY <4>5, <1>t, <1>l
        <5>3. Left(t2, x) = Left(t, x) BY <5>2, <4>1, <1>i
        <5> QED BY <5>1, <5>3, <4>1, <4>2, <4>3, <1>l, <1>j
      <4> QED BY <4>4, <4>5
    <3> QED BY <3>1, <3>2, <3>3
  <2> QED BY <2>1 DEF LeafLinks
<1>3. Matched(t2, N \cup {u})
  <2>1. ASSUME NEW x \in N \cup {u}
        PROVE  /\ Leaf(t2, x) <=> Kids(t2, x) = 0
               /\ ~Leaf(t2, x) => Size(t2, x) = Kids(t2, x) /\ Left(t2, x) = 0 /\ Right(t2, x) = 0
    <3>1. CASE x = v
      <4>1. ~Leaf(t, v) => Size(t2, v) = Kids(t2, v) BY <1>t, <1>y, <1>p, <1>j
      <4> QED BY <3>1, <4>1, <1>t, <1>z, <1>j, <1>i
    <3>2. CASE x = u
      <4>1. ~Leaf(t, v) => Size(t2, u) = Kids(t2, u) BY <1>t, <1>y, <1>p, <1>j
      <4> QED BY <3>2, <4>1, <1>t, <1>z, <1>j, <1>i
    <3>3. CASE x = p
      <4>1. ~Leaf(t, p) /\ ~Leaf(t2, p) BY <1>t, <1>z, <1>j, <1>v, <1>q
      <4>2. Size(t2, p) = Kids(t2, p) BY <4>1, <1>t, <1>j, <1>p
      <4>3. p \in Pages \ {v, u} /\ Right(t, p) = 0 /\ Left(t, p) = 0 BY <1>v, <1>q, <4>1, <1>t
      <4>4. Right(t2, p) = 0 BY <4>3, <1>i
      <4>5. ~(Leaf(t, v) /\ p = Right(t, v))
        <5>1. SUFFICES ASSUME Leaf(t, v), p = Right(t, v) PROVE FALSE OBVIOUS
        <5>2. Kids(t, v) = 0 /\ nx[v] = p BY <5>1, <1>t, <1>l
        <5>3. p # 0 BY <1>v, <1>s
        <5>4. h[p] = h[v] BY <5>2, <5>3, <1>k
        <5>5. h[p] = h[v] + 1 /\ h[v] \in Nat BY <1>s, <1>v
        <5> QED BY <5>4, <5>5
      <4>6. Left(t2, p) = 0 BY <4>3, <4>5, <1>i
      <4> QED BY <3>3, <4>1, <4>2, <4>4, <4>6, <1>z
    <3>4. CASE x \notin {v, u, p}
      <4>1. x \in N /\ x \in Pages \ {v, u, p} BY <3>4, <1>s
      <4>2. Kids(t2, x) = Kids(t, x) /\ Leaf(t2, x) = Leaf(t, x) /\ Size(t2, x) = Size(t, x) /\ Right(t2, x) = Right(t, x)
        BY <4>1, <1>p, <1>j, <1>i
      <4>3. ~Leaf(t, x) => ~(Leaf(t, v) /\ x = Right(t, v))
        <5>1. SUFFICES ASSUME ~Leaf(t, x), Leaf(t, v), x = Right(t, v) PROVE FALSE OBVIOUS
        <5>2. Kids(t, v) = 0 /\ nx[v] = x BY <5>1, <1>t, <1>l
        <5>3. x # 0 BY <4>1, <1>s
        <5>4. h[x] = h[v] /\ pv[x] = v BY <5>2, <5>3, <1>k
        <5>5. h[v] = 1 BY <5>2, <1>s
        <5>6. Kids(t, x) # 0 BY <5>1, <4>1, <1>t
        <5>7. Kids(t, x) \in Nat /\ 1 \in 1 .. Kids(t, x) BY <5>6, <4>1, <1>s
        <5>8. h[x] = h[Kid(t, x, 1)] + 1 BY <5>7, <4>1, <1>s
        <5>9. Kid(t, x, 1) \in N BY <5>7, <4>1, <1>g, ShapeFacts
        <5>10. h[Kid(t, x, 1)] >= 1 /\ h[Kid(t, x, 1)] \in Nat BY <5>9, <1>s
        <5> QED BY <5>4, <5>5, <5>8, <5>10
      <4>4. ~Leaf(t, x) => Left(t2, x) = Left(t, x) BY <4>3, <4>1, <1>i
      <4> QED BY <4>1, <4>2, <4>4, <1>t
    <3> QED BY <3>1, <3>2, <3>3, <3>4
  <2> QED BY <2>1 DEF Matched
<1> QED BY <1>1, <1>2, <1>3 DEF Frame, nx2, pv2

LeafSize(t, v) == IF Leaf(t, v) THEN Size(t, v) ELSE 0

(* The places of the leaves' items.                                        *)
Places(t) == {s \in Pages \X Nat : s[2] \in 1 .. LeafSize(t, s[1])}

HeldIn(t) == {Item(t, s[1], s[2]) : s \in Places(t)}

(* Two trees with the same entries.                                        *)
SameEntries(t, t2) == HeldIn(t2) = HeldIn(t) /\ Cardinality(Places(t2)) = Cardinality(Places(t))

(* The items of the leaves v and w in a row.                               *)
Row(t, v, w, i) == IF i <= LeafSize(t, v) THEN Item(t, v, i) ELSE Item(t, w, i - LeafSize(t, v))

(* t2 has the items of v and w in the same row, and those of other leaves. *)
MovedItems(t, t2, v, w) ==
  /\ v \in Pages /\ w \in Pages /\ v # w
  /\ \A x \in Pages \ {v, w} :
       /\ LeafSize(t2, x) = LeafSize(t, x)
       /\ \A i \in 1 .. LeafSize(t, x) : Item(t2, x, i) = Item(t, x, i)
  /\ LeafSize(t2, v) + LeafSize(t2, w) = LeafSize(t, v) + LeafSize(t, w)
  /\ \A i \in 1 .. LeafSize(t, v) + LeafSize(t, w) : Row(t2, v, w, i) = Row(t, v, w, i)

(* A leaf has finitely many items.                                         *)
LEMMA LeafSizeType ==
  ASSUME NEW t \in Trees, NEW v \in Pages
  PROVE  LeafSize(t, v) \in Nat
BY TreeTypes DEF LeafSize

(* So have all of them.                                                    *)
LEMMA PlacesFinite ==
  ASSUME NEW t \in Trees
  PROVE  IsFiniteSet(Places(t))
<1> DEFINE f == [v \in Pages |-> LeafSize(t, v)]
<1>1. f \in [Pages -> Nat] BY LeafSizeType
<1> HIDE DEF f
<1>2. PICK b \in Nat : \A v \in Pages : f[v] <= b BY <1>1, Bounded
<1>3. IsFiniteSet(Pages) BY MaxNodeAssumption, FS_Interval DEF Pages
<1>4. IsFiniteSet(1 .. b) BY FS_Interval
<1>5. IsFiniteSet(Pages \X (1 .. b)) BY <1>3, <1>4, FS_Product
<1>6. \A v \in Pages : LeafSize(t, v) = f[v] /\ f[v] \in Nat BY <1>1 DEF f
<1>7. Places(t) \subseteq Pages \X (1 .. b)
  <2>1. SUFFICES ASSUME NEW s \in Places(t) PROVE s \in Pages \X (1 .. b) OBVIOUS
  <2>2. s \in Pages \X Nat /\ s[2] \in 1 .. LeafSize(t, s[1]) BY DEF Places
  <2>3. s[1] \in Pages /\ s[2] \in Nat BY <2>2
  <2>4. s[2] \in 1 .. b BY <2>2, <2>3, <1>2, <1>6
  <2> QED BY <2>2, <2>3, <2>4
<1> QED BY <1>5, <1>7, FS_Subset

(* A correspondence of the places that keeps the items.                    *)
LEMMA PlacesMatch ==
  ASSUME NEW t \in Trees, NEW t2 \in Trees,
         NEW f, f \in [Places(t) -> Places(t2)],
         NEW g, g \in [Places(t2) -> Places(t)],
         \A s \in Places(t) : g[f[s]] = s /\ Item(t2, f[s][1], f[s][2]) = Item(t, s[1], s[2]),
         \A s \in Places(t2) : f[g[s]] = s
  PROVE  SameEntries(t, t2)
<1>1. f \in Bijection(Places(t), Places(t2)) BY DEF Bijection, Injection, Surjection, IsInjective
<1>4. ExistsBijection(Places(t), Places(t2)) BY <1>1 DEF ExistsBijection
<1>2. Cardinality(Places(t2)) = Cardinality(Places(t)) BY <1>4, PlacesFinite, FS_Bijection
<1>3. HeldIn(t2) = HeldIn(t)
  <2>1. ASSUME NEW s \in Places(t) PROVE Item(t, s[1], s[2]) \in HeldIn(t2)
    <3>1. f[s] \in Places(t2) /\ Item(t2, f[s][1], f[s][2]) = Item(t, s[1], s[2]) OBVIOUS
    <3> QED BY <3>1 DEF HeldIn
  <2>2. ASSUME NEW s \in Places(t2) PROVE Item(t2, s[1], s[2]) \in HeldIn(t)
    <3>1. g[s] \in Places(t) /\ f[g[s]] = s OBVIOUS
    <3>2. Item(t2, s[1], s[2]) = Item(t, g[s][1], g[s][2]) BY <3>1
    <3> QED BY <3>1, <3>2 DEF HeldIn
  <2> QED BY <2>1, <2>2 DEF HeldIn
<1> QED BY <1>2, <1>3 DEF SameEntries

(* Where the item at place s goes when v is left with n items: to the      *)
(* place of the same number in the row.                                    *)
Moving(s, v, w, a, n) ==
  IF s[1] = v THEN IF s[2] <= n THEN s ELSE <<w, s[2] - n>>
  ELSE IF s[1] = w THEN IF a + s[2] <= n THEN <<v, a + s[2]>> ELSE <<w, a + s[2] - n>>
  ELSE s

(* An item goes to its place in the other tree, and back from there.       *)
LEMMA MovingIs ==
  ASSUME NEW t \in Trees, NEW t2 \in Trees, NEW v, NEW w, MovedItems(t, t2, v, w),
         NEW s \in Places(t), NEW r, r = Moving(s, v, w, LeafSize(t, v), LeafSize(t2, v))
  PROVE  /\ r \in Places(t2)
         /\ Item(t2, r[1], r[2]) = Item(t, s[1], s[2])
         /\ Moving(r, v, w, LeafSize(t2, v), LeafSize(t, v)) = s
<1> DEFINE a == LeafSize(t, v)
           b == LeafSize(t, w)
           c == LeafSize(t2, v)
           d == LeafSize(t2, w)
           x == s[1]
           i == s[2]
<1>1. /\ v \in Pages /\ w \in Pages /\ v # w
      /\ \A y \in Pages \ {v, w} :
           /\ LeafSize(t2, y) = LeafSize(t, y)
           /\ \A j \in 1 .. LeafSize(t, y) : Item(t2, y, j) = Item(t, y, j)
      /\ c + d = a + b
      /\ \A j \in 1 .. a + b : Row(t2, v, w, j) = Row(t, v, w, j)
  BY DEF MovedItems
<1>2. a \in Nat /\ b \in Nat /\ c \in Nat /\ d \in Nat BY <1>1, LeafSizeType
<1>3. s = <<x, i>> /\ x \in Pages /\ i \in Nat /\ i \in 1 .. LeafSize(t, x) BY DEF Places
<1>4. \A y, j : y \in Pages /\ j \in Nat /\ j \in 1 .. LeafSize(t2, y) => <<y, j>> \in Places(t2) BY DEF Places
<1>5. \A j : j <= a => Row(t, v, w, j) = Item(t, v, j) BY DEF Row
<1>6. \A j : ~(j <= a) => Row(t, v, w, j) = Item(t, w, j - a) BY DEF Row
<1>7. \A j : j <= c => Row(t2, v, w, j) = Item(t2, v, j) BY DEF Row
<1>8. \A j : ~(j <= c) => Row(t2, v, w, j) = Item(t2, w, j - c) BY DEF Row
<1>9. r = Moving(s, v, w, a, c) OBVIOUS
<1> HIDE DEF a, b, c, d, x, i
<1>10. CASE x = v
  <2>1. i \in 1 .. a + b /\ i \in 1 .. a /\ i <= a
    <3>1. i \in 1 .. a BY <1>10, <1>3 DEF a
    <3> QED BY <3>1, <1>2, <1>3
  <2>2. Row(t, v, w, i) = Item(t, v, i) BY <2>1, <1>5
  <2>3. CASE i <= c
    <3>1. r = s BY <2>3, <1>9, <1>10 DEF Moving, x, i
    <3>2. i \in 1 .. c BY <2>3, <2>1, <1>2
    <3>3. r \in Places(t2) BY <3>1, <3>2, <1>3, <1>4, <1>10 DEF c
    <3>4. Item(t2, v, i) = Item(t, v, i) BY <2>1, <2>2, <2>3, <1>1, <1>7
    <3>5. Moving(s, v, w, c, a) = s BY <1>10, <2>1 DEF Moving, x, i
    <3> QED BY <3>1, <3>3, <3>4, <3>5, <1>10 DEF x, i, a, c
  <2>4. CASE ~(i <= c)
    <3>1. r = <<w, i - c>> BY <2>4, <1>9, <1>10 DEF Moving, x, i
    <3>2. i - c \in 1 .. d /\ i - c \in Nat BY <2>4, <2>1, <1>1, <1>2
    <3>3. r \in Places(t2) BY <3>1, <3>2, <1>1, <1>4 DEF d
    <3>4. Item(t2, w, i - c) = Item(t, v, i) BY <2>1, <2>2, <2>4, <1>1, <1>8
    <3>5. c + (i - c) = i BY <2>1, <1>2
    <3>6. Moving(r, v, w, c, a) = <<v, i>> BY <3>1, <3>5, <2>1, <1>1 DEF Moving
    <3>7. r[1] = w /\ r[2] = i - c BY <3>1
    <3> QED BY <3>3, <3>4, <3>6, <3>7, <1>3, <1>10 DEF x, i, a, c
  <2> QED BY <2>3, <2>4
<1>11. CASE x = w
  <2>1. i \in 1 .. b BY <1>11, <1>3 DEF b
  <2>2. a + i \in 1 .. a + b /\ ~(a + i <= a) /\ (a + i) - a = i /\ i >= 1 BY <2>1, <1>2
  <2>3. Row(t, v, w, a + i) = Item(t, w, i) BY <2>2, <1>6
  <2>4. CASE a + i <= c
    <3>1. r = <<v, a + i>> BY <2>4, <1>9, <1>11, <1>1 DEF Moving, x, i
    <3>2. a + i \in 1 .. c /\ a + i \in Nat BY <2>4, <2>2, <1>2
    <3>3. r \in Places(t2) BY <3>1, <3>2, <1>1, <1>4 DEF c
    <3>4. Item(t2, v, a + i) = Item(t, w, i) BY <2>2, <2>3, <2>4, <1>1, <1>7
    <3>5. Moving(r, v, w, c, a) = <<w, i>> BY <3>1, <2>2 DEF Moving
    <3>7. r[1] = v /\ r[2] = a + i BY <3>1
    <3> QED BY <3>3, <3>4, <3>5, <3>7, <1>3, <1>11 DEF x, i, a, c
  <2>5. CASE ~(a + i <= c)
    <3>1. r = <<w, a + i - c>> BY <2>5, <1>9, <1>11, <1>1 DEF Moving, x, i
    <3>2. a + i - c \in 1 .. d /\ a + i - c \in Nat BY <2>5, <2>2, <1>1, <1>2
    <3>3. r \in Places(t2) BY <3>1, <3>2, <1>1, <1>4 DEF d
    <3>4. Item(t2, w, a + i - c) = Item(t, w, i)
      <4>1. Row(t2, v, w, a + i) = Item(t2, w, (a + i) - c) BY <2>5, <1>8
      <4>2. (a + i) - c = a + i - c BY <2>2, <1>2
      <4> QED BY <4>1, <4>2, <2>2, <2>3, <1>1
    <3>5. c + (a + i - c) = a + i BY <2>2, <1>2
    <3> DEFINE k == a + i - c
    <3>9. r = <<w, k>> /\ c + k = a + i /\ ~(c + k <= a) /\ k \in Int BY <3>1, <3>5, <2>2, <1>2
    <3> HIDE DEF k
    <3>6. Moving(r, v, w, c, a) = <<w, c + k - a>> BY <3>9, <1>1, <1>2 DEF Moving
    <3>7. c + k - a = i BY <3>9, <2>2, <1>2
    <3>8. r[1] = w /\ r[2] = a + i - c BY <3>1
    <3> QED BY <3>3, <3>4, <3>6, <3>7, <3>8, <1>3, <1>11 DEF x, i, a, c
  <2> QED BY <2>4, <2>5
<1>12. CASE x # v /\ x # w
  <2>1. r = s BY <1>12, <1>9 DEF Moving, x
  <2>2. LeafSize(t2, x) = LeafSize(t, x) /\ Item(t2, x, i) = Item(t, x, i) BY <1>12, <1>1, <1>3
  <2>3. r \in Places(t2) BY <2>1, <2>2, <1>3, <1>4
  <2>4. Moving(s, v, w, c, a) = s BY <1>12 DEF Moving, x
  <2> QED BY <2>1, <2>2, <2>3, <2>4 DEF x, i, a, c
<1> QED BY <1>10, <1>11, <1>12

(* So two leaves that keep their row of items keep the entries.            *)
LEMMA MovedItemsKept ==
  ASSUME NEW t \in Trees, NEW t2 \in Trees, NEW v, NEW w, MovedItems(t, t2, v, w)
  PROVE  SameEntries(t, t2)
<1> DEFINE a == LeafSize(t, v)
           c == LeafSize(t2, v)
           f == [s \in Places(t) |-> Moving(s, v, w, a, c)]
           g == [s \in Places(t2) |-> Moving(s, v, w, c, a)]
<1>1. MovedItems(t2, t, v, w)
  <2>1. /\ v \in Pages /\ w \in Pages /\ v # w
        /\ \A x \in Pages \ {v, w} :
             /\ LeafSize(t2, x) = LeafSize(t, x)
             /\ \A i \in 1 .. LeafSize(t, x) : Item(t2, x, i) = Item(t, x, i)
        /\ LeafSize(t2, v) + LeafSize(t2, w) = LeafSize(t, v) + LeafSize(t, w)
        /\ \A i \in 1 .. LeafSize(t, v) + LeafSize(t, w) : Row(t2, v, w, i) = Row(t, v, w, i)
    BY DEF MovedItems
  <2> QED BY <2>1 DEF MovedItems
<1> HIDE DEF a, c
<1>2. \A s \in Places(t) : LET r == Moving(s, v, w, a, c) IN
        /\ r \in Places(t2)
        /\ Item(t2, r[1], r[2]) = Item(t, s[1], s[2])
        /\ Moving(r, v, w, c, a) = s
  BY MovingIs DEF a, c
<1>3. \A s \in Places(t2) : LET r == Moving(s, v, w, c, a) IN
        /\ r \in Places(t)
        /\ Item(t, r[1], r[2]) = Item(t2, s[1], s[2])
        /\ Moving(r, v, w, a, c) = s
  BY <1>1, MovingIs DEF a, c
<1>4. f \in [Places(t) -> Places(t2)] /\ g \in [Places(t2) -> Places(t)] BY <1>2, <1>3
<1>5. \A s \in Places(t) : g[f[s]] = s /\ Item(t2, f[s][1], f[s][2]) = Item(t, s[1], s[2]) BY <1>2
<1>6. \A s \in Places(t2) : f[g[s]] = s BY <1>3
<1> HIDE DEF f, g
<1> QED BY <1>4, <1>5, <1>6, PlacesMatch

(* The leaves are the same.                                                *)
LEMMA LeavesKept ==
  ASSUME NEW t, NEW t2,
         \A x \in Pages : LeafSize(t2, x) = LeafSize(t, x)
                          /\ \A i \in 1 .. LeafSize(t, x) : Item(t2, x, i) = Item(t, x, i)
  PROVE  SameEntries(t, t2)
<1>1. Places(t2) = Places(t) BY DEF Places
<1>2. \A s \in Places(t) : Item(t2, s[1], s[2]) = Item(t, s[1], s[2]) BY DEF Places
<1>3. HeldIn(t2) = HeldIn(t) BY <1>1, <1>2 DEF HeldIn
<1> QED BY <1>1, <1>3 DEF SameEntries

(* Keeping the entries, twice.                                             *)
LEMMA SameEntriesStep ==
  ASSUME NEW t, NEW t2, NEW t3, SameEntries(t, t2), SameEntries(t2, t3)
  PROVE  SameEntries(t, t3)
BY DEF SameEntries

==============================================================================
