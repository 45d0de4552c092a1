-------------------------- MODULE IndexScan_proofs ---------------------------
(***************************************************************************)
(* For every width of an int and every set of entries and record ids: the  *)
(* comparison of index entries is an order as long as the ints are close   *)
(* enough, and it is not when they may be any ints; and scans of an index  *)
(* into which entries are only inserted, in any order, return what its     *)
(* table has.                                                              *)
(***************************************************************************)
EXTENDS IndexScan, BTree_proofs

(* The parts of an entry are numbers.                                      *)
LEMMA EntryParts ==
  ASSUME NEW e \in IndexEntries
  PROVE  e.rid \in Int /\ e.cell.data \in Int /\ e.cell.isNull \in BOOLEAN
<1>1. e.cell \in Cells /\ e.rid \in RIDs
  BY DEF IndexEntries
<1>2. e.cell.data \in Ints /\ e.cell.isNull \in BOOLEAN
  BY <1>1 DEF Cells
<1>3. e.cell.data \in Int
  BY <1>2, MaxIntAssumption DEF Ints
<1>4. e.rid \in Nat
  BY <1>1, RIDsAssumption
<1> QED
  BY <1>2, <1>3, <1>4

(* Where comp puts a value among those that are not null.                  *)
Place(type, e) ==
  IF e.cell.isNull \/ type \notin {"INT", "STRING"} THEN 0 ELSE e.cell.data

(* What Precedes says of close entries: nulls first, then by Place, then   *)
(* by record id.                                                           *)
LEMMA PrecedesByPlace ==
  ASSUME NEW type \in Types, NEW e \in IndexEntries, NEW f \in IndexEntries,
         Close(e, f)
  PROVE  Precedes(type, e, f) <=>
           \/ e.cell.isNull /\ ~f.cell.isNull
           \/ /\ (e.cell.isNull <=> f.cell.isNull)
              /\ \/ Place(type, e) < Place(type, f)
                 \/ Place(type, e) = Place(type, f) /\ e.rid < f.rid
<1>1. /\ e.rid \in Int /\ f.rid \in Int
      /\ e.cell.data \in Int /\ f.cell.data \in Int
      /\ e.cell.isNull \in BOOLEAN /\ f.cell.isNull \in BOOLEAN
  BY EntryParts
<1>2. CompRids(e.rid, f.rid) < 0 <=> e.rid < f.rid
  BY <1>1 DEF CompRids
<1>3. Wrap(e.cell.data - f.cell.data) = e.cell.data - f.cell.data
  BY <1>1, MaxIntAssumption DEF Wrap, Close, Ints
<1>4. CASE e.cell.isNull
  <2>1. Comp(type, e.cell, f.cell) = IF f.cell.isNull THEN 0 ELSE -1
    BY <1>4 DEF Comp
  <2>2. Place(type, e) = 0 /\ (f.cell.isNull => Place(type, f) = 0)
    BY <1>4 DEF Place
  <2>3. CASE f.cell.isNull
    BY <1>1, <1>2, <1>4, <2>1, <2>2, <2>3 DEF Precedes, CompEntries
  <2>4. CASE ~f.cell.isNull
    BY <1>4, <2>1, <2>4 DEF Precedes, CompEntries
  <2> QED
    BY <2>3, <2>4
<1>5. CASE ~e.cell.isNull /\ f.cell.isNull
  BY <1>1, <1>5 DEF Precedes, CompEntries, Comp
<1>6. CASE ~e.cell.isNull /\ ~f.cell.isNull
  <2>1. Comp(type, e.cell, f.cell) = Place(type, e) - Place(type, f)
    BY <1>1, <1>3, <1>6 DEF Comp, CompData, Place, Types
  <2>2. Place(type, e) \in Int /\ Place(type, f) \in Int
    BY <1>1 DEF Place
  <2>3. Precedes(type, e, f) <=>
          IF Place(type, e) - Place(type, f) = 0 THEN e.rid < f.rid
          ELSE Place(type, e) - Place(type, f) < 0
    BY <2>1, <1>2 DEF Precedes, CompEntries
  <2> QED
    BY <2>2, <2>3, <1>6
<1> QED
  BY <1>4, <1>5, <1>6

(* comp with record ids orders the entries of an index, for every width of *)
(* an int and every set of record ids, while differences of ints fit.      *)
THEOREM ComparisonOrdersEntries == CompOrdersEntries
<1> SUFFICES ASSUME NEW type \in Types, NEW e \in IndexEntries, NEW f \in IndexEntries,
                    Close(e, f), Close(f, e)
             PROVE  /\ ~(Precedes(type, e, f) /\ Precedes(type, f, e))
                    /\ Precedes(type, e, f) \/ Precedes(type, f, e) \/ e.rid = f.rid
                    /\ type \in {"INT", "STRING"} /\ ~e.cell.isNull /\ ~f.cell.isNull =>
                         (Compare("<", e.cell.data, f.cell.data) => Precedes(type, e, f))
                    /\ \A g \in IndexEntries : Close(f, g) /\ Close(e, g) =>
                         (Precedes(type, e, f) /\ Precedes(type, f, g) => Precedes(type, e, g))
  BY DEF CompOrdersEntries
<1>1. \A g \in IndexEntries :
        g.rid \in Int /\ g.cell.isNull \in BOOLEAN /\ g.cell.data \in Int /\ Place(type, g) \in Int
  BY EntryParts DEF Place
<1>2. ~(Precedes(type, e, f) /\ Precedes(type, f, e))
  BY <1>1, PrecedesByPlace
<1>3. Precedes(type, e, f) \/ Precedes(type, f, e) \/ e.rid = f.rid
  BY <1>1, PrecedesByPlace
<1>4. ASSUME type \in {"INT", "STRING"}, ~e.cell.isNull, ~f.cell.isNull,
             Compare("<", e.cell.data, f.cell.data)
      PROVE  Precedes(type, e, f)
  <2>1. e.cell.data < f.cell.data
    BY <1>4 DEF Compare
  <2> QED
    BY <1>4, <2>1, PrecedesByPlace DEF Place
<1>5. ASSUME NEW g \in IndexEntries, Close(f, g), Close(e, g),
             Precedes(type, e, f), Precedes(type, f, g)
      PROVE  Precedes(type, e, g)
  BY <1>1, <1>5, PrecedesByPlace
<1> QED
  BY <1>2, <1>3, <1>4, <1>5

(* Three ints that comp puts in a circle: the least one, 0 and the         *)
(* greatest, whose difference wraps around.                                *)
THEOREM IntsFarApartInCircle ==
  ASSUME MaxInt >= 1
  PROVE  \E u, v, w \in Ints :
           LET C(n) == [data |-> n, isNull |-> FALSE] IN
           /\ Comp("INT", C(u), C(v)) < 0
           /\ Comp("INT", C(v), C(w)) < 0
           /\ Comp("INT", C(w), C(u)) < 0
<1> DEFINE least == -(MaxInt + 1)
           C(n) == [data |-> n, isNull |-> FALSE]
<1>1. least \in Ints /\ 0 \in Ints /\ MaxInt \in Ints /\ MaxInt \in Int /\ least \in Int
  BY MaxIntAssumption DEF Ints
<1>2. \A u, v \in Int : Comp("INT", C(u), C(v)) = Wrap(u - v)
  BY DEF Comp, CompData
<1>3. Wrap(least - 0) < 0 /\ Wrap(0 - MaxInt) < 0 /\ Wrap(MaxInt - least) < 0
  BY MaxIntAssumption DEF Wrap
<1>4. /\ Comp("INT", C(least), C(0)) < 0
      /\ Comp("INT", C(0), C(MaxInt)) < 0
      /\ Comp("INT", C(MaxInt), C(least)) < 0
  BY <1>1, <1>2, <1>3
<1> QED
  BY <1>1, <1>4

(***************************************************************************)
(* What a scan returns of the entries it comes to.                         *)
(***************************************************************************)

Increasing(s) == \A i, j \in 1 .. Len(s) : i < j => s[i] < s[j]

(* What findNext has returned after n entries.                             *)
ReturnStep(E, sat, first) ==
  /\ first[0] = <<>>
  /\ \A n \in 1 .. Len(E) :
       first[n] = IF E[n] \in sat /\ (first[n - 1] = <<>> \/ E[n] > first[n - 1][Len(first[n - 1])])
                  THEN Append(first[n - 1], E[n]) ELSE first[n - 1]

(* The recursion of Returned, unrolled.                                    *)
LEMMA ReturnedRuns ==
  ASSUME NEW E \in Seq(Entries), NEW sat
  PROVE  \E first : Returned(E, sat) = first[Len(E)] /\ ReturnStep(E, sat, first)
<1> DEFINE K == Len(E)
           S == 0 .. K
           X == Seq(Entries)
           More(n, s) == IF E[n] \in sat /\ (s = <<>> \/ E[n] > s[Len(s)]) THEN Append(s, E[n]) ELSE s
           F(f) == [n \in S |-> IF n = 0 THEN <<>> ELSE More(n, f[n - 1])]
           G == [x \in S \X [S -> X] |-> IF x[1] = 0 THEN <<>> ELSE More(x[1], x[2][x[1] - 1])]
           h == [n \in S |-> n]
<1>0. Returned(E, sat) = (CHOOSE f : f = F(f))[K]
  <2>1. Returned(E, sat)
          = (CHOOSE f : f = [n \in 0 .. Len(E) |->
               IF n = 0 THEN <<>>
               ELSE IF E[n] \in sat /\ (f[n - 1] = <<>> \/ E[n] > f[n - 1][Len(f[n - 1])])
                    THEN Append(f[n - 1], E[n]) ELSE f[n - 1]])[Len(E)]
    BY Zenon DEF Returned
  <2> QED BY <2>1
<1>k. K \in Nat /\ \A n \in 1 .. K : E[n] \in Entries BY LenProperties, ElementOfSeq
<1>m. \A n \in 1 .. K, s \in X : More(n, s) \in X
  <2>1. SUFFICES ASSUME NEW n \in 1 .. K, NEW s \in X PROVE More(n, s) \in X OBVIOUS
  <2>2. Append(s, E[n]) \in X BY <1>k, AppendProperties
  <2> QED BY <2>2
<1> HIDE DEF K, More
<1>1. G \in [S \X [S -> X] -> X]
  <2>1. SUFFICES ASSUME NEW n \in S, NEW f \in [S -> X]
                 PROVE  (IF n = 0 THEN <<>> ELSE More(n, f[n - 1])) \in X
    OBVIOUS
  <2>2. CASE n = 0 BY <2>2
  <2>3. CASE n # 0
    <3>1. n \in 1 .. K /\ n - 1 \in S BY <2>3, <1>k
    <3>2. f[n - 1] \in X BY <3>1
    <3> QED BY <3>1, <3>2, <2>3, <1>m
  <2> QED BY <2>2, <2>3
<1>2. \A v \in S : \A f, g \in [S -> X] :
        (\A w \in S : h[w] < h[v] => f[w] = g[w]) => G[<<v, f>>] = G[<<v, g>>]
  <2>1. SUFFICES ASSUME NEW v \in S, NEW f \in [S -> X], NEW g \in [S -> X],
                        \A w \in S : h[w] < h[v] => f[w] = g[w]
                 PROVE  G[<<v, f>>] = G[<<v, g>>]
    OBVIOUS
  <2>2. v # 0 => f[v - 1] = g[v - 1]
    <3>1. SUFFICES ASSUME v # 0 PROVE f[v - 1] = g[v - 1] OBVIOUS
    <3>2. v - 1 \in S /\ v - 1 < v BY <3>1, <1>k
    <3>3. h[v - 1] = v - 1 /\ h[v] = v BY <3>2
    <3> QED BY <3>2, <3>3, <2>1
  <2> QED BY <2>2
<1>3. PICK f \in [S -> X] : \A v \in S : f[v] = G[<<v, f>>]
  <2>1. X # {} /\ h \in [S -> 0 .. K] BY <1>k
  <2> HIDE DEF G, X, S, h
  <2>2. IsRecursion(S, X, K, h, G) BY <1>k, <1>1, <1>2, <2>1 DEF IsRecursion
  <2> QED BY <2>2, RecursionExists
<1>4. f = F(f)
  <2>1. \A v \in S : f[v] = IF v = 0 THEN <<>> ELSE More(v, f[v - 1]) BY <1>3
  <2> QED BY <2>1
<1> DEFINE L == CHOOSE g : g = F(g)
<1>5. L = F(L)
  <2> HIDE DEF F
  <2> QED BY <1>4
<1> HIDE DEF L
<1>6. \A n \in S : L[n] = IF n = 0 THEN <<>> ELSE More(n, L[n - 1]) BY <1>5
<1>7. ReturnStep(E, sat, L)
  <2>1. L[0] = <<>> BY <1>6, <1>k
  <2>2. \A n \in 1 .. K : L[n] = More(n, L[n - 1])
    <3>1. \A n \in 1 .. K : n \in S /\ n # 0 BY <1>k
    <3> QED BY <3>1, <1>6
  <2> QED BY <2>1, <2>2 DEF ReturnStep, More, K
<1>8. Returned(E, sat) = L[Len(E)] BY <1>0 DEF L, K
<1> QED BY <1>7, <1>8

(* Of entries in order it returns those that satisfy the condition.        *)
ReturnsThose(s, E, sat) == InOrder(s) /\ ToSet(s) = ToSet(E) \cap sat

(* Of entries in order a scan returns all that satisfy its condition.      *)
LEMMA ReturnedIs ==
  ASSUME NEW E \in Seq(Entries), Increasing(E), NEW sat
  PROVE  ReturnsThose(Returned(E, sat), E, sat)
<1>1. PICK first : Returned(E, sat) = first[Len(E)] /\ ReturnStep(E, sat, first) BY ReturnedRuns
<1> DEFINE K == Len(E)
           Upto(n) == {E[i] : i \in 1 .. n}
           P(n) == n <= K => /\ first[n] \in Seq(Entries)
                             /\ InOrder(first[n])
                             /\ ToSet(first[n]) = Upto(n) \cap sat
           T == {n \in Nat : P(n)}
<1>k. K \in Nat /\ DOMAIN E = 1 .. K /\ \A n \in 1 .. K : E[n] \in Entries BY LenProperties, ElementOfSeq
<1>e. Entries \subseteq Nat BY EntriesAssumption
<1>2. P(0)
  <2>1. first[0] = <<>> BY <1>1 DEF ReturnStep
  <2>2. <<>> \in Seq(Entries) /\ Len(<<>>) = 0 /\ DOMAIN <<>> = {} OBVIOUS
  <2>3. InOrder(<<>>) BY <2>2 DEF InOrder
  <2>4. ToSet(<<>>) = {} BY <2>2 DEF ToSet
  <2>5. Upto(0) = {} OBVIOUS
  <2> HIDE DEF Upto
  <2> QED BY <2>1, <2>2, <2>3, <2>4, <2>5
<1>3. ASSUME NEW n \in Nat, P(n) PROVE P(n + 1)
  <2>1. SUFFICES ASSUME n + 1 <= K PROVE P(n + 1) OBVIOUS
  <2> DEFINE s == first[n]
             s2 == first[n + 1]
             m == n + 1
  <2>2. n <= K /\ m \in 1 .. K /\ m - 1 = n /\ m \in Nat BY <2>1, <1>k
  <2>3. s \in Seq(Entries) /\ InOrder(s) /\ ToSet(s) = Upto(n) \cap sat BY <2>2, <1>3
  <2>4. first[m] = IF E[m] \in sat /\ (first[m - 1] = <<>> \/ E[m] > first[m - 1][Len(first[m - 1])])
                   THEN Append(first[m - 1], E[m]) ELSE first[m - 1]
    BY <2>2, <1>1 DEF ReturnStep
  <2>5. s2 = IF E[m] \in sat /\ (s = <<>> \/ E[m] > s[Len(s)]) THEN Append(s, E[m]) ELSE s
    BY <2>2, <2>4
  <2>6. Upto(m) = Upto(n) \cup {E[m]}
    <3>1. 1 .. m = (1 .. n) \cup {m} BY <2>2
    <3> HIDE DEF m
    <3> QED BY <3>1
  <2> HIDE DEF s, s2, m, K, Upto
  <2>7. Len(s) \in Nat /\ (s # <<>> => Len(s) \in 1 .. Len(s)) /\ DOMAIN s = 1 .. Len(s)
        /\ \A i \in 1 .. Len(s) : s[i] \in Entries
    BY <2>3, LenProperties, EmptySeq, ElementOfSeq
  <2>8. s # <<>> => s[Len(s)] < E[m]
    <3>1. SUFFICES ASSUME s # <<>> PROVE s[Len(s)] < E[m] OBVIOUS
    <3>2. s[Len(s)] \in ToSet(s) BY <3>1, <2>7 DEF ToSet
    <3>3. PICK i \in 1 .. n : s[Len(s)] = E[i] BY <3>2, <2>3 DEF Upto
    <3>4. i \in 1 .. K /\ i < m BY <2>2, <1>k
    <3>5. E[i] < E[m] BY <3>4, <2>2 DEF Increasing, K
    <3> QED BY <3>3, <3>5
  <2>9. CASE E[m] \notin sat
    <3>1. s2 = s BY <2>5, <2>9
    <3>2. ToSet(s) = Upto(m) \cap sat BY <2>3, <2>6, <2>9
    <3> QED BY <3>1, <3>2, <2>3 DEF s2, m
  <2>10. CASE E[m] \in sat
    <3>0. E[m] \in Entries /\ E[m] \in Nat BY <2>2, <1>k, <1>e
    <3>1. s2 = Append(s, E[m])
      <4>1. s # <<>> => E[m] > s[Len(s)]
        <5>1. s # <<>> => s[Len(s)] \in Nat BY <2>7, <1>e
        <5> QED BY <5>1, <3>0, <2>8
      <4> QED BY <4>1, <2>5, <2>10
    <3>2. /\ s2 \in Seq(Entries) /\ Len(s2) = Len(s) + 1 /\ s2[Len(s) + 1] = E[m]
          /\ \A i \in 1 .. Len(s) : s2[i] = s[i]
      BY <3>0, <3>1, <2>3, AppendProperties
    <3>3. InOrder(s2)
      <4>1. SUFFICES ASSUME NEW i \in 1 .. Len(s) PROVE s2[i] < s2[i + 1] BY <3>2, <2>7 DEF InOrder
      <4>2. CASE i < Len(s)
        <5>1. i \in 1 .. Len(s) - 1 /\ i + 1 \in 1 .. Len(s) BY <4>2, <2>7
        <5>2. s[i] < s[i + 1] BY <5>1, <2>3 DEF InOrder
        <5>3. s2[i] = s[i] BY <3>2
        <5>4. s2[i + 1] = s[i + 1] BY <5>1, <3>2
        <5> QED BY <5>2, <5>3, <5>4
      <4>3. CASE ~(i < Len(s))
        <5> DEFINE k == Len(s)
        <5>0. k \in Nat /\ i \in 1 .. k /\ ~(i < k) BY <4>3, <2>7
        <5> HIDE DEF k
        <5>3. i = k /\ k # 0 BY <5>0
        <5>1. i = Len(s) /\ Len(s) # 0 BY <5>3 DEF k
        <5>2. s # <<>> BY <5>1, <2>3, EmptySeq
        <5> QED BY <5>1, <5>2, <3>2, <2>8
      <4> QED BY <4>2, <4>3
    <3>4. ToSet(s2) = ToSet(s) \cup {E[m]}
      <4>1. DOMAIN s2 = 1 .. Len(s) + 1 BY <3>2, LenProperties
      <4>2. \A i \in 1 .. Len(s) + 1 : i \in 1 .. Len(s) \/ i = Len(s) + 1 BY <2>7
      <4>3. \A i \in 1 .. Len(s) : i \in 1 .. Len(s) + 1 BY <2>7
      <4>4. Len(s) + 1 \in 1 .. Len(s) + 1 BY <2>7
      <4>5. ToSet(s2) \subseteq ToSet(s) \cup {E[m]} BY <4>1, <4>2, <3>2, <2>7 DEF ToSet
      <4>6. ToSet(s) \subseteq ToSet(s2)
        <5>1. SUFFICES ASSUME NEW i \in 1 .. Len(s) PROVE s[i] \in ToSet(s2) BY <2>7 DEF ToSet
        <5>2. s2[i] = s[i] /\ i \in DOMAIN s2 BY <4>1, <4>3, <3>2
        <5> QED BY <5>2 DEF ToSet
      <4>7. E[m] \in ToSet(s2) BY <4>1, <4>4, <3>2 DEF ToSet
      <4> QED BY <4>5, <4>6, <4>7
    <3>5. ToSet(s2) = Upto(m) \cap sat BY <3>4, <2>3, <2>6, <2>10
    <3> QED BY <3>2, <3>3, <3>5 DEF s2, m
  <2> QED BY <2>9, <2>10
<1>4. T = Nat
  <2> HIDE DEF P
  <2>1. T \in SUBSET Nat /\ \A n \in T : n + 1 \in T BY <1>3
  <2>2. 0 \in T BY <1>2
  <2> HIDE DEF T
  <2> QED BY <2>1, <2>2, Induction
<1>5. P(K) BY <1>4, <1>k
<1>6. Upto(K) = ToSet(E) BY <1>k DEF ToSet
<1> HIDE DEF Upto, K
<1>7. K <= K BY <1>k
<1>8. InOrder(first[K]) /\ ToSet(first[K]) = ToSet(E) \cap sat BY <1>5, <1>6, <1>7
<1> QED BY <1>1, <1>8 DEF ReturnsThose, K

(***************************************************************************)
(* Where a scan begins.                                                    *)
(***************************************************************************)
(* comp says that e is below c; entries are below c up to some entry.      *)
IsBelow(type, c, e) == Comp(type, c, Cell(type, e)) > 0

Cuts(type, c) ==
  \A e, f \in Entries : /\ Comp(type, c, Cell(type, e)) \in Int
                        /\ e < f /\ IsBelow(type, c, f) => IsBelow(type, c, e)

(* The bisection of findFirstValue stops at an item below c.               *)
LEMMA LastBelowIs ==
  ASSUME NEW type, NEW c, Cuts(type, c), NEW items \in Seq(Entries),
         \A i, j \in 2 .. Len(items) : i < j => items[i] < items[j],
         NEW r, r = LastBelow(type, items, c)
  PROVE  r \in 0 .. Len(items) /\ (r # 0 => IsBelow(type, c, items[r]))
<1> DEFINE n == Len(items)
           low == [i \in DOMAIN items |-> Comp(type, c, Cell(type, items[i])) > 0]
<1>1. n \in Nat /\ DOMAIN items = 1 .. n /\ \A i \in 1 .. n : items[i] \in Entries
  BY LenProperties, ElementOfSeq
<1>0. items = <<>> <=> n = 0 BY EmptySeq
<1>2. CASE items = <<>> \/ Comp(type, c, Cell(type, items[1])) <= 0
  <2>1. r = 0 BY <1>2 DEF LastBelow
  <2> QED BY <2>1, <1>1
<1>3. CASE ~(items = <<>> \/ Comp(type, c, Cell(type, items[1])) <= 0)
  <2>1. r = BisectLow(low, 1) BY <1>3 DEF LastBelow
  <2>2. n >= 1 /\ n \in 1 .. n /\ 1 \in 1 .. n
    <3>1. n # 0 BY <1>0, <1>3
    <3> HIDE DEF n
    <3> QED BY <3>1, <1>1
  <2>3. Len(low) = n /\ \A i \in 1 .. n : low[i] <=> IsBelow(type, c, items[i])
    <3>1. low = [i \in 1 .. n |-> IsBelow(type, c, items[i])] BY <1>1 DEF IsBelow
    <3>2. low \in Seq(BOOLEAN)
      <4>1. \A i \in 1 .. n : IsBelow(type, c, items[i]) \in BOOLEAN BY DEF IsBelow
      <4>2. low \in [1 .. n -> BOOLEAN]
        <5> HIDE DEF low
        <5> QED BY <3>1, <4>1
      <4> QED BY <4>2, <1>1
    <3>3. Len(low) \in Nat /\ DOMAIN low = 1 .. Len(low) BY <3>2, LenProperties
    <3>4. DOMAIN low = 1 .. n /\ \A i \in 1 .. n : low[i] <=> IsBelow(type, c, items[i])
      <4> HIDE DEF low
      <4> QED BY <3>1
    <3> HIDE DEF low, n
    <3>5. 1 .. Len(low) = 1 .. n BY <3>3, <3>4
    <3>6. Len(low) = n BY <3>3, <3>5, <1>1, SameRange
    <3> QED BY <3>4, <3>6
  <2>4. IsBelow(type, c, items[1])
    <3>1. Comp(type, c, Cell(type, items[1])) \in Int
      <4>1. items[1] \in Entries BY <1>1, <2>2
      <4> QED BY <4>1 DEF Cuts
    <3> QED BY <3>1, <1>3 DEF IsBelow
  <2> HIDE DEF low, n
  <2>5. r = LowBisection(low)[<<1, n>>] BY <2>1, <2>3 DEF BisectLow
  <2>6. LowUpTo(low, 1, n, r)
    <3>1. 1 \in 1 .. Len(low) + 1 /\ n \in 0 .. Len(low) /\ 1 <= n + 1 /\ Len(low) \in Nat
      BY <2>2, <2>3, <1>1
    <3> QED BY <3>1, <2>5, LowFound
  <2>7. r \in 0 .. n BY <2>6 DEF LowUpTo
  <2>8. ASSUME NEW i \in 1 .. n, NEW j \in 1 .. n, i < j, low[j] PROVE low[i]
    <3>1. CASE i = 1 BY <3>1, <2>3, <2>4
    <3>2. CASE i # 1
      <4>1. i \in 2 .. n /\ j \in 2 .. n BY <3>2, <2>8, <1>1
      <4>2. items[i] < items[j] BY <4>1, <2>8 DEF n
      <4>3. IsBelow(type, c, items[j]) BY <2>3, <2>8
      <4>4. items[i] \in Entries /\ items[j] \in Entries BY <1>1
      <4>5. IsBelow(type, c, items[i]) BY <4>2, <4>3, <4>4 DEF Cuts
      <4> QED BY <4>5, <2>3
    <3> QED BY <3>1, <3>2
  <2>9. \A i \in 1 .. n : low[i] <=> i <= r BY <2>6, <2>8 DEF LowUpTo
  <2>10. r # 0 => IsBelow(type, c, items[r])
    <3>1. SUFFICES ASSUME r # 0 PROVE IsBelow(type, c, items[r]) OBVIOUS
    <3>2. r \in 1 .. n /\ r <= r BY <3>1, <2>7, <1>1
    <3> QED BY <3>2, <2>3, <2>9
  <2> QED BY <2>7, <2>10 DEF n
<1> QED BY <1>2, <1>3

(* The way down of findFirstValue.                                         *)
PlaceBelow(type, t, c, v) ==
  IF LastBelow(type, Items(t, v), c) = 0 THEN 1 ELSE LastBelow(type, Items(t, v), c)

WayDown(type, t, c) == [v \in Pages |-> Childs(t, v)[PlaceBelow(type, t, c, v)]]

(* findFirstValue goes down, then looks in the leaf.                       *)
LEMMA FindFirstParts ==
  ASSUME NEW type, NEW t, NEW c
  PROVE  /\ FindFirst(type, t, c).leaf = LeafBelow(t, WayDown(type, t, c))[t.root]
         /\ FindFirst(type, t, c).rank = LastBelow(type, Items(t, FindFirst(type, t, c).leaf), c)
BY DEF FindFirst, WayDown, PlaceBelow

(* The entries to the left of a node are below c.                          *)
LeftBelow(type, c, S) == \A x \in Entries, y \in S : x < y /\ x \notin S => IsBelow(type, c, x)

(* It comes to a leaf before which all entries are below c.                *)
LEMMA FindFirstIs ==
  ASSUME NEW t, NEW N, NEW h, NEW nx, NEW pv, Good(t, N, h, nx, pv), NEW R, Ordered(t, N, nx, R),
         NEW type, NEW c, Cuts(type, c),
         NEW w, w = FindFirst(type, t, c).leaf, NEW k, k = FindFirst(type, t, c).rank
  PROVE  /\ w \in N /\ Kids(t, w) = 0
         /\ k \in 0 .. Size(t, w) /\ \A i \in 1 .. k : IsBelow(type, c, Item(t, w, i))
         /\ LeftBelow(type, c, R[w])
<1> DEFINE child == WayDown(type, t, c)
           L == LeafBelow(t, child)
           j(v) == PlaceBelow(type, t, c, v)
           P == {v \in Pages : v \in N /\ LeftBelow(type, c, R[v]) => LeftBelow(type, c, R[L[v]])}
<1>g. t \in Trees /\ Shape(t, N, h) /\ Matched(t, N) BY DEF Good
<1>s. /\ N \subseteq Pages /\ t.root \in N /\ h \in [Pages -> Nat]
      /\ \A x \in N : Kids(t, x) \in Nat
      /\ \A x \in N : \A i \in 1 .. Kids(t, x) : Kid(t, x, i) \in N /\ h[x] = h[Kid(t, x, i)] + 1
  BY <1>g, ShapeFacts
<1>r. /\ R \in [Pages -> SUBSET Nat] /\ R[t.root] = Nat
      /\ RangesDown(t, N, R) /\ Separates(t, N, R) /\ LeavesSorted(t, N, R)
  BY DEF Ordered, RangesAre
<1>t. \A v \in N : /\ Items(t, v) \in Seq(Entries) /\ Size(t, v) = Len(Items(t, v)) /\ Size(t, v) \in Nat
                   /\ \A i \in 1 .. Size(t, v) : Item(t, v, i) \in Entries
  BY <1>g, <1>s, TreeTypes DEF Size
<1>e. Entries \subseteq Nat BY EntriesAssumption
<1>1. ASSUME NEW v \in N, Kids(t, v) > 0
      PROVE  /\ j(v) \in 1 .. Kids(t, v) /\ child[v] = Kid(t, v, j(v))
             /\ j(v) # 1 => IsBelow(type, c, Item(t, v, j(v)))
  <2> DEFINE r == LastBelow(type, Items(t, v), c)
  <2>1. Size(t, v) = Kids(t, v) /\ Kids(t, v) \in Nat
    <3>1. Kids(t, v) \in Nat /\ Kids(t, v) # 0 BY <1>1, <1>s
    <3> QED BY <3>1, <1>g DEF Matched
  <2>2. \A a, b \in 2 .. Len(Items(t, v)) : a < b => Items(t, v)[a] < Items(t, v)[b]
    <3>1. \A a, b \in 2 .. Kids(t, v) : a < b => Item(t, v, a) < Item(t, v, b) BY <1>r DEF Separates
    <3> QED BY <3>1, <2>1, <1>t DEF Item
  <2>3. r \in 0 .. Len(Items(t, v)) /\ (r # 0 => IsBelow(type, c, Items(t, v)[r]))
    BY <2>2, <1>t, LastBelowIs
  <2> HIDE DEF r
  <2>4. j(v) = IF r = 0 THEN 1 ELSE r BY DEF PlaceBelow, r
  <2>5. j(v) \in 1 .. Kids(t, v)
    <3>1. r \in 0 .. Kids(t, v) BY <2>1, <2>3, <1>t
    <3> QED BY <3>1, <2>1, <2>4, <1>1
  <2>6. j(v) # 1 => IsBelow(type, c, Item(t, v, j(v))) BY <2>3, <2>4 DEF Item
  <2>7. child[v] = Kid(t, v, j(v)) BY <1>s DEF WayDown, Kid
  <2> QED BY <2>5, <2>6, <2>7
<1>2. w = L[t.root] /\ k = LastBelow(type, Items(t, w), c) BY FindFirstParts
<1> HIDE DEF child, j
<1>3. \A v \in N : /\ L[v] \in N /\ Kids(t, L[v]) = 0
                   /\ L[v] = IF Kids(t, v) = 0 THEN v ELSE L[child[v]]
  <2>1. \A v \in N : Kids(t, v) > 0 => \E i \in 1 .. Kids(t, v) : child[v] = Kid(t, v, i) BY <1>1
  <2>2. \A v \in N : /\ LeafBelow(t, child)[v] \in N /\ Kids(t, LeafBelow(t, child)[v]) = 0
                     /\ LeafBelow(t, child)[v] = IF Kids(t, v) = 0 THEN v ELSE LeafBelow(t, child)[child[v]]
    BY <2>1, <1>g, LeafBelowIs
  <2> QED BY <2>2
<1> HIDE DEF L
<1>4. ASSUME NEW v \in N, Kids(t, v) > 0, LeftBelow(type, c, R[v])
      PROVE  LeftBelow(type, c, R[Kid(t, v, j(v))])
  <2> DEFINE u == Kid(t, v, j(v))
             i == j(v)
  <2>1. SUFFICES ASSUME NEW x \in Entries, NEW y \in R[u], x < y, x \notin R[u]
                 PROVE  IsBelow(type, c, x)
    BY DEF LeftBelow
  <2>2. i \in 1 .. Kids(t, v) /\ (i # 1 => IsBelow(type, c, Item(t, v, i))) BY <1>4, <1>1
  <2>3. u \in N /\ u \in Pages BY <2>2, <1>s
  <2>4. y \in Nat /\ x \in Nat BY <2>3, <1>r, <1>e
  <2>5. y \in R[v] /\ Passes(t, v, i, y) BY <2>2, <2>4, <1>r DEF RangesDown
  <2>6. ~(x \in R[v] /\ Passes(t, v, i, x)) BY <2>1, <2>2, <2>4, <1>r DEF RangesDown
  <2> HIDE DEF u, i
  <2>7. CASE x \notin R[v] BY <2>7, <2>1, <2>5, <1>4 DEF LeftBelow
  <2>8. CASE ~Passes(t, v, i, x)
    <3>0. /\ Kids(t, v) \in Nat /\ Kids(t, v) = Size(t, v)
          /\ \A a \in 1 .. Kids(t, v) : Item(t, v, a) \in Entries /\ Item(t, v, a) \in Nat
      <4>1. Kids(t, v) \in Nat /\ Kids(t, v) # 0 BY <1>4, <1>s
      <4>2. Kids(t, v) = Size(t, v) BY <4>1, <1>g DEF Matched
      <4> QED BY <4>1, <4>2, <1>t, <1>e
    <3>1. i < Kids(t, v) => x < Item(t, v, i + 1)
      <4>1. SUFFICES ASSUME i < Kids(t, v) PROVE x < Item(t, v, i + 1) OBVIOUS
      <4>2. y < Item(t, v, i + 1) BY <4>1, <2>5 DEF Passes
      <4>3. i + 1 \in 1 .. Kids(t, v) BY <4>1, <2>2, <3>0
      <4>4. Item(t, v, i + 1) \in Nat BY <4>3, <3>0
      <4> QED BY <4>2, <4>4, <2>1, <2>4
    <3>2. i > 1 /\ ~(Item(t, v, i) <= x) BY <3>1, <2>8 DEF Passes
    <3>3. Item(t, v, i) \in Entries /\ Item(t, v, i) \in Nat BY <2>2, <3>0
    <3>4. x < Item(t, v, i) BY <3>2, <3>3, <2>4
    <3>5. IsBelow(type, c, Item(t, v, i))
      <4>1. i # 1 BY <3>2, <2>2, <3>0
      <4> QED BY <4>1, <2>2
    <3> QED BY <3>3, <3>4, <3>5 DEF Cuts
  <2> QED BY <2>6, <2>7, <2>8
<1>5. ASSUME NEW v \in Pages, \A u \in Pages : h[u] < h[v] => u \in P PROVE v \in P
  <2>1. SUFFICES ASSUME v \in N, LeftBelow(type, c, R[v]) PROVE LeftBelow(type, c, R[L[v]]) OBVIOUS
  <2>2. CASE Kids(t, v) = 0 BY <2>1, <2>2, <1>3
  <2>3. CASE Kids(t, v) # 0
    <3>1. Kids(t, v) > 0 BY <2>1, <2>3, <1>s
    <3> DEFINE u == Kid(t, v, j(v))
    <3>2. u \in N /\ h[v] = h[u] + 1 /\ child[v] = u
      <4>1. j(v) \in 1 .. Kids(t, v) /\ child[v] = Kid(t, v, j(v)) BY <2>1, <3>1, <1>1
      <4> QED BY <4>1, <2>1, <1>s
    <3>3. LeftBelow(type, c, R[u]) BY <2>1, <3>1, <1>4
    <3> HIDE DEF u
    <3>4. L[v] = L[u] BY <2>1, <2>3, <3>2, <1>3
    <3>5. u \in Pages /\ h[u] \in Nat BY <3>2, <1>s
    <3>6. u \in P BY <3>2, <3>5, <1>5
    <3> QED BY <3>2, <3>3, <3>4, <3>6
  <2> QED BY <2>2, <2>3
<1>6. P = Pages
  <2>1. P \in SUBSET Pages OBVIOUS
  <2> HIDE DEF P
  <2> QED BY <2>1, <1>5, <1>s, LevelInduction
<1>7. LeftBelow(type, c, R[w])
  <2>1. LeftBelow(type, c, R[t.root])
    <3>1. \A x \in Entries : x \in R[t.root] BY <1>e, <1>r
    <3> QED BY <3>1 DEF LeftBelow
  <2>2. t.root \in P BY <1>6, <1>s
  <2> QED BY <2>1, <2>2, <1>2, <1>s
<1>8. w \in N /\ Kids(t, w) = 0 BY <1>2, <1>3, <1>s
<1>9. \A a, b \in 1 .. Size(t, w) : a < b => Item(t, w, a) < Item(t, w, b) BY <1>8, <1>r DEF LeavesSorted
<1>10. k \in 0 .. Size(t, w) /\ (k # 0 => IsBelow(type, c, Item(t, w, k)))
  <2>1. \A a, b \in 2 .. Len(Items(t, w)) : a < b => Items(t, w)[a] < Items(t, w)[b]
    <3>1. \A a \in 2 .. Size(t, w) : a \in 1 .. Size(t, w) BY <1>8, <1>t
    <3> QED BY <3>1, <1>8, <1>9, <1>t DEF Item
  <2>2. k \in 0 .. Len(Items(t, w)) /\ (k # 0 => IsBelow(type, c, Items(t, w)[k]))
    BY <2>1, <1>2, <1>8, <1>t, LastBelowIs
  <2> QED BY <2>2, <1>8, <1>t DEF Item
<1>11. ASSUME NEW i \in 1 .. k PROVE IsBelow(type, c, Item(t, w, i))
  <2>1. Size(t, w) \in Nat /\ k # 0 /\ i \in 1 .. Size(t, w) /\ k \in 1 .. Size(t, w) BY <1>8, <1>10, <1>t
  <2>2. CASE i = k BY <2>1, <2>2, <1>10
  <2>3. CASE i # k
    <3>1. i < k BY <2>1, <2>3
    <3>2. Item(t, w, i) < Item(t, w, k) BY <3>1, <2>1, <1>9
    <3>3. Item(t, w, i) \in Entries /\ Item(t, w, k) \in Entries BY <2>1, <1>8, <1>t
    <3> QED BY <2>1, <3>2, <3>3, <1>10 DEF Cuts
  <2> QED BY <2>2, <2>3
<1> QED BY <1>7, <1>8, <1>10, <1>11

(***************************************************************************)
(* The leaves in a row.                                                    *)
(***************************************************************************)
(* nx and pv link places in one row from first on, in the order of m.      *)
OneRow(L, m, nx, pv, first) ==
  /\ m \in [L -> Nat] /\ first \in L
  /\ \A v, w \in L : m[v] = m[w] => v = w
  /\ \A v \in L : nx[v] # 0 => nx[v] \in L /\ m[v] < m[nx[v]]
  /\ \A v \in L : pv[v] # 0 => pv[v] \in L /\ nx[pv[v]] = v
  /\ \A v \in L : pv[v] = 0 => v = first
  /\ 0 \notin L

(* Then each place is followed by the next in the order.                   *)
LEMMA RowFollowsOrder ==
  ASSUME NEW L, NEW m, NEW nx, NEW pv, NEW first, OneRow(L, m, nx, pv, first)
  PROVE  /\ \A v \in L : m[first] <= m[v]
         /\ \A u, v \in L : m[u] < m[v] => nx[u] # 0 /\ m[nx[u]] <= m[v]
<1>r. /\ m \in [L -> Nat] /\ first \in L
      /\ \A v, w \in L : m[v] = m[w] => v = w
      /\ \A v \in L : nx[v] # 0 => nx[v] \in L /\ m[v] < m[nx[v]]
      /\ \A v \in L : pv[v] # 0 => pv[v] \in L /\ nx[pv[v]] = v
      /\ \A v \in L : pv[v] = 0 => v = first
      /\ 0 \notin L
  BY DEF OneRow
<1>b. \A v \in L : pv[v] # 0 => m[pv[v]] < m[v]
  <2>1. SUFFICES ASSUME NEW v \in L, pv[v] # 0 PROVE m[pv[v]] < m[v] OBVIOUS
  <2>2. pv[v] \in L /\ nx[pv[v]] = v BY <2>1, <1>r
  <2>3. v # 0 BY <1>r
  <2> QED BY <2>2, <2>3, <1>r
<1>1. \A v \in L : m[first] <= m[v]
  <2> DEFINE P == {v \in L : m[first] <= m[v]}
  <2>1. ASSUME NEW v \in L, \A w \in L : m[w] < m[v] => w \in P PROVE v \in P
    <3>1. CASE pv[v] = 0
      <4>1. v = first /\ m[first] \in Nat BY <3>1, <1>r
      <4> QED BY <4>1
    <3>2. CASE pv[v] # 0
      <4>1. pv[v] \in L /\ m[pv[v]] < m[v] BY <3>2, <1>r, <1>b
      <4>2. m[first] <= m[pv[v]] BY <4>1, <2>1
      <4>3. m[first] \in Nat /\ m[pv[v]] \in Nat /\ m[v] \in Nat BY <4>1, <1>r
      <4> QED BY <4>1, <4>2, <4>3
    <3> QED BY <3>1, <3>2
  <2>2. P \in SUBSET L OBVIOUS
  <2> HIDE DEF P
  <2>3. P = L BY <2>1, <2>2, <1>r, LevelInduction
  <2> QED BY <2>3 DEF P
<1>2. \A v \in L : \A u \in L : m[u] < m[v] => nx[u] # 0 /\ m[nx[u]] <= m[v]
  <2> DEFINE P == {v \in L : \A u \in L : m[u] < m[v] => nx[u] # 0 /\ m[nx[u]] <= m[v]}
  <2>1. ASSUME NEW v \in L, \A w \in L : m[w] < m[v] => w \in P PROVE v \in P
    <3>1. SUFFICES ASSUME NEW u \in L, m[u] < m[v] PROVE nx[u] # 0 /\ m[nx[u]] <= m[v] OBVIOUS
    <3> DEFINE x == pv[v]
    <3>2. x # 0
      <4>1. SUFFICES ASSUME x = 0 PROVE FALSE OBVIOUS
      <4>2. v = first BY <4>1, <1>r
      <4>3. m[v] <= m[u] BY <4>2, <1>1
      <4>4. m[v] \in Nat /\ m[u] \in Nat BY <1>r
      <4> QED BY <4>3, <4>4, <3>1
    <3>3. x \in L /\ nx[x] = v /\ m[x] < m[v] BY <3>2, <1>r, <1>b
    <3> HIDE DEF x
    <3>4. m[x] \in Nat /\ m[u] \in Nat /\ m[v] \in Nat BY <3>3, <1>r
    <3>5. CASE m[u] < m[x]
      <4>1. x \in P BY <3>3, <2>1
      <4>2. nx[u] # 0 /\ m[nx[u]] <= m[x] BY <4>1, <3>5
      <4>3. m[nx[u]] \in Nat BY <4>2, <1>r
      <4> QED BY <4>2, <4>3, <3>3, <3>4
    <3>6. CASE m[u] = m[x]
      <4>1. u = x BY <3>6, <3>3, <1>r
      <4>2. v # 0 BY <1>r
      <4> QED BY <4>1, <4>2, <3>3, <3>4
    <3>7. CASE m[x] < m[u]
      <4>1. u \in P BY <3>1, <2>1
      <4>2. m[v] <= m[u] BY <4>1, <3>3, <3>7
      <4> QED BY <4>2, <3>1, <3>4
    <3> QED BY <3>4, <3>5, <3>6, <3>7
  <2>2. P \in SUBSET L OBVIOUS
  <2> HIDE DEF P
  <2>3. P = L BY <2>1, <2>2, <1>r, LevelInduction
  <2> QED BY <2>3 DEF P
<1> QED BY <1>1, <1>2

(* One increasing sequence after the other.                                *)
LEMMA ConcatIncreases ==
  ASSUME NEW s \in Seq(Entries), NEW u \in Seq(Entries), Increasing(s), Increasing(u),
         \A x \in ToSet(s), y \in ToSet(u) : x < y
  PROVE  /\ s \o u \in Seq(Entries) /\ Increasing(s \o u)
         /\ ToSet(s \o u) = ToSet(s) \cup ToSet(u)
<1> DEFINE q == s \o u
           a == Len(s)
           b == Len(u)
<1>1. /\ q \in Seq(Entries) /\ Len(q) = a + b
      /\ \A i \in 1 .. a + b : q[i] = IF i <= a THEN s[i] ELSE u[i - a]
  BY ConcatProperties
<1>2. a \in Nat /\ DOMAIN s = 1 .. a /\ b \in Nat /\ DOMAIN u = 1 .. b /\ DOMAIN q = 1 .. Len(q)
  BY <1>1, LenProperties
<1>3. /\ \A i, j \in 1 .. a : i < j => s[i] < s[j]
      /\ \A i, j \in 1 .. b : i < j => u[i] < u[j]
  BY DEF Increasing
<1>4. /\ \A i \in 1 .. a : s[i] \in ToSet(s)
      /\ \A i \in 1 .. b : u[i] \in ToSet(u)
  BY <1>2 DEF ToSet
<1> HIDE DEF q, a, b
<1>5. \A i \in 1 .. a : i \in 1 .. a + b /\ q[i] = s[i] BY <1>1, <1>2
<1>6. \A i \in 1 .. b : i + a \in 1 .. a + b /\ q[i + a] = u[i]
  <2>1. SUFFICES ASSUME NEW i \in 1 .. b PROVE i + a \in 1 .. a + b /\ q[i + a] = u[i] OBVIOUS
  <2>2. i + a \in 1 .. a + b /\ ~(i + a <= a) /\ (i + a) - a = i BY <1>2
  <2> QED BY <2>2, <1>1
<1>7. \A i \in 1 .. a + b : i \in 1 .. a \/ (i > a /\ i - a \in 1 .. b /\ q[i] = u[i - a])
  <2>1. SUFFICES ASSUME NEW i \in 1 .. a + b, i \notin 1 .. a
                 PROVE  i > a /\ i - a \in 1 .. b /\ q[i] = u[i - a]
    OBVIOUS
  <2>2. i > a /\ i - a \in 1 .. b /\ ~(i <= a) BY <2>1, <1>2
  <2> QED BY <2>2, <1>1
<1>8. ASSUME NEW i \in 1 .. a + b, NEW j \in 1 .. a + b, i < j PROVE q[i] < q[j]
  <2>1. CASE j \in 1 .. a
    <3>1. i \in 1 .. a BY <2>1, <1>8, <1>2
    <3> QED BY <2>1, <3>1, <1>3, <1>5, <1>8
  <2>2. CASE j \notin 1 .. a /\ i \in 1 .. a
    <3>1. q[j] = u[j - a] /\ j - a \in 1 .. b BY <2>2, <1>7
    <3> QED BY <3>1, <2>2, <1>4, <1>5
  <2>3. CASE j \notin 1 .. a /\ i \notin 1 .. a
    <3>1. q[j] = u[j - a] /\ j - a \in 1 .. b /\ q[i] = u[i - a] /\ i - a \in 1 .. b BY <2>3, <1>7
    <3>2. i - a < j - a BY <1>8, <1>2
    <3> QED BY <3>1, <3>2, <1>3
  <2> QED BY <2>1, <2>2, <2>3
<1>9. Increasing(q) BY <1>1, <1>8 DEF Increasing
<1>10. ToSet(q) \subseteq ToSet(s) \cup ToSet(u)
  <2>1. SUFFICES ASSUME NEW i \in 1 .. a + b PROVE q[i] \in ToSet(s) \cup ToSet(u) BY <1>1, <1>2 DEF ToSet
  <2> QED BY <1>4, <1>5, <1>7
<1>11. ToSet(s) \cup ToSet(u) \subseteq ToSet(q)
  <2>1. \A i \in 1 .. a : s[i] \in ToSet(q) BY <1>1, <1>2, <1>5 DEF ToSet
  <2>2. \A i \in 1 .. b : u[i] \in ToSet(q) BY <1>1, <1>2, <1>6 DEF ToSet
  <2> QED BY <2>1, <2>2, <1>2 DEF ToSet
<1> QED BY <1>1, <1>9, <1>10, <1>11 DEF q

(* The rest of an increasing sequence.                                     *)
LEMMA RestIncreases ==
  ASSUME NEW s \in Seq(Entries), Increasing(s), NEW k \in 0 .. Len(s)
  PROVE  LET q == SubSeq(s, k + 1, Len(s))
         IN  /\ q \in Seq(Entries) /\ Increasing(q)
             /\ ToSet(q) = {s[i] : i \in k + 1 .. Len(s)}
<1> DEFINE n == Len(s)
           q == SubSeq(s, k + 1, n)
<1>1. n \in Nat /\ \A i \in 1 .. n : s[i] \in Entries BY LenProperties, ElementOfSeq
<1>2. k \in Nat /\ k <= n BY <1>1
<1>3. \A i, j \in 1 .. n : i < j => s[i] < s[j] BY DEF Increasing
<1>4. \A i \in k + 1 .. n : i \in 1 .. n
  <2> HIDE DEF n
  <2> QED BY <1>1, <1>2
<1>5. /\ q \in Seq(Entries) /\ Len(q) = (IF k + 1 <= n THEN n - (k + 1) + 1 ELSE 0)
      /\ \A i \in 1 .. n - (k + 1) + 1 : q[i] = s[(k + 1) + i - 1]
  <2>1. k + 1 \in Int /\ n \in Int BY <1>1, <1>2
  <2>2. \A i \in k + 1 .. n : s[i] \in Entries BY <1>1, <1>4
  <2> HIDE DEF n
  <2> QED BY <2>1, <2>2, SubSeqProperties
<1>6. DOMAIN q = 1 .. Len(q) BY <1>5, LenProperties
<1> HIDE DEF q, n
<1>7. Len(q) = n - k BY <1>5, <1>1, <1>2
<1>8. \A i \in 1 .. n - k : i + k \in k + 1 .. n /\ i + k \in 1 .. n /\ q[i] = s[i + k]
  <2>1. SUFFICES ASSUME NEW i \in 1 .. n - k
                 PROVE  i + k \in k + 1 .. n /\ i + k \in 1 .. n /\ q[i] = s[i + k]
    OBVIOUS
  <2>2. i \in 1 .. n - (k + 1) + 1 /\ (k + 1) + i - 1 = i + k BY <1>1, <1>2
  <2>3. i + k \in k + 1 .. n /\ i + k \in 1 .. n BY <1>1, <1>2
  <2> QED BY <2>2, <2>3, <1>5
<1>9. ASSUME NEW i \in 1 .. n - k, NEW j \in 1 .. n - k, i < j PROVE q[i] < q[j]
  <2>1. i + k < j + k BY <1>9, <1>1, <1>2
  <2> QED BY <2>1, <1>3, <1>8
<1>10. \A i \in k + 1 .. n : i - k \in 1 .. n - k /\ (i - k) + k = i BY <1>1, <1>2
<1>11. ToSet(q) = {s[i] : i \in k + 1 .. n}
  <2>1. ToSet(q) \subseteq {s[i] : i \in k + 1 .. n} BY <1>6, <1>7, <1>8 DEF ToSet
  <2>2. ASSUME NEW i \in k + 1 .. n PROVE s[i] \in ToSet(q)
    <3>1. i - k \in DOMAIN q /\ q[i - k] = s[i] BY <1>6, <1>7, <1>8, <1>10
    <3> QED BY <3>1 DEF ToSet
  <2> QED BY <2>1, <2>2
<1>12. Increasing(q) BY <1>7, <1>9 DEF Increasing
<1> QED BY <1>5, <1>11, <1>12 DEF q, n

LeafNodes(t, N) == {v \in N : Kids(t, v) = 0}

FirstItem(t, v) == IF Size(t, v) = 0 THEN 0 ELSE Item(t, v, 1)

FirstItems(t, N) == [v \in LeafNodes(t, N) |-> FirstItem(t, v)]

(* A good tree in order, with its ranges.                                  *)
LinedUp(t, N, h, nx, pv, R) ==
  /\ Good(t, N, h, nx, pv) /\ Ordered(t, N, nx, R)
  /\ \A x \in N \ {t.root} : Size(t, x) >= 1

(* The items of a leaf, the first of them least.                           *)
LEMMA FirstItemIs ==
  ASSUME NEW t, NEW N, NEW h, NEW nx, NEW pv, NEW R, LinedUp(t, N, h, nx, pv, R),
         NEW v \in LeafNodes(t, N)
  PROVE  /\ v \in N /\ v \in Pages /\ Kids(t, v) = 0
         /\ FirstItem(t, v) \in Nat /\ FirstItems(t, N)[v] = FirstItem(t, v)
         /\ Items(t, v) \in Seq(Entries) /\ Size(t, v) = Len(Items(t, v)) /\ Size(t, v) \in Nat
         /\ Increasing(Items(t, v))
         /\ \A i \in 1 .. Size(t, v) : /\ Item(t, v, i) \in Entries /\ Item(t, v, i) \in R[v]
                                       /\ FirstItem(t, v) <= Item(t, v, i)
         /\ v # t.root => FirstItem(t, v) \in Entries /\ FirstItem(t, v) \in R[v]
<1>g. t \in Trees /\ Shape(t, N, h) BY DEF LinedUp, Good
<1>s. N \subseteq Pages BY <1>g, ShapeFacts
<1>e. Entries \subseteq Nat BY EntriesAssumption
<1>1. v \in N /\ v \in Pages /\ Kids(t, v) = 0 BY <1>s DEF LeafNodes
<1>2. /\ Items(t, v) \in Seq(Entries) /\ Size(t, v) = Len(Items(t, v)) /\ Size(t, v) \in Nat
      /\ \A i \in 1 .. Size(t, v) : Item(t, v, i) \in Entries
  BY <1>1, <1>g, TreeTypes DEF Size
<1>3. /\ \A i \in 1 .. Size(t, v) : Item(t, v, i) \in R[v]
      /\ \A i, j \in 1 .. Size(t, v) : i < j => Item(t, v, i) < Item(t, v, j)
  BY <1>1 DEF LinedUp, Ordered, LeavesSorted
<1>4. Size(t, v) # 0 => 1 \in 1 .. Size(t, v) BY <1>2
<1>5. FirstItem(t, v) \in Nat BY <1>2, <1>4, <1>e DEF FirstItem
<1>6. Increasing(Items(t, v)) BY <1>2, <1>3 DEF Increasing, Item
<1>7. ASSUME NEW i \in 1 .. Size(t, v) PROVE FirstItem(t, v) <= Item(t, v, i)
  <2>1. FirstItem(t, v) = Item(t, v, 1) /\ 1 \in 1 .. Size(t, v) BY <1>2, <1>4 DEF FirstItem
  <2>2. Item(t, v, i) \in Nat /\ Item(t, v, 1) \in Nat BY <1>2, <1>e, <2>1
  <2>3. CASE i = 1 BY <2>1, <2>2, <2>3
  <2>4. CASE i # 1
    <3>1. 1 < i BY <2>4, <1>2
    <3>2. Item(t, v, 1) < Item(t, v, i) BY <3>1, <2>1, <1>3
    <3> QED BY <3>2, <2>1, <2>2
  <2> QED BY <2>3, <2>4
<1>8. v # t.root => FirstItem(t, v) \in Entries /\ FirstItem(t, v) \in R[v]
  <2>1. SUFFICES ASSUME v # t.root PROVE FirstItem(t, v) \in Entries /\ FirstItem(t, v) \in R[v] OBVIOUS
  <2>2. Size(t, v) # 0 BY <2>1, <1>1, <1>2 DEF LinedUp
  <2> QED BY <2>2, <1>2, <1>3, <1>4 DEF FirstItem
<1>9. FirstItems(t, N)[v] = FirstItem(t, v) BY DEF FirstItems
<1> QED BY <1>1, <1>2, <1>3, <1>5, <1>6, <1>7, <1>8, <1>9

(* A root that is a leaf is the only node.                                 *)
LEMMA RootLeafAlone ==
  ASSUME NEW t, NEW N, NEW h, Shape(t, N, h), Kids(t, t.root) = 0
  PROVE  N = {t.root}
<1>1. /\ N \subseteq Pages /\ t.root \in N
      /\ \A x \in N \ {t.root} :
           Parent(t, x) \in N /\ \E i \in 1 .. Kids(t, Parent(t, x)) : Kid(t, Parent(t, x), i) = x
      /\ \A x \in N : h[x] >= 1 /\ (Kids(t, x) = 0 => h[x] = 1)
      /\ \A x \in N : \A i \in 1 .. Kids(t, x) : h[x] = h[Kid(t, x, i)] + 1
  BY ShapeFacts
<1>2. h \in [Pages -> 0 .. h[t.root]] /\ h[t.root] \in Nat BY RootHighest
<1>3. SUFFICES ASSUME NEW x \in N \ {t.root} PROVE FALSE BY <1>1
<1>4. PICK i \in 1 .. Kids(t, Parent(t, x)) : Kid(t, Parent(t, x), i) = x BY <1>1
<1> DEFINE p == Parent(t, x)
<1>5. p \in N /\ h[p] = h[x] + 1 BY <1>1, <1>4
<1>6. h[x] >= 1 /\ h[t.root] = 1 BY <1>1
<1>7. h[p] \in 0 .. h[t.root] /\ h[x] \in 0 .. h[t.root] BY <1>1, <1>2, <1>5
<1> HIDE DEF p
<1> QED BY <1>5, <1>6, <1>7

(* The links of the leaves make one row, in the order of their items.      *)
LEMMA LeavesInRow ==
  ASSUME NEW t, NEW N, NEW h, NEW nx, NEW pv, NEW R, LinedUp(t, N, h, nx, pv, R)
  PROVE  /\ OneRow(LeafNodes(t, N), FirstItems(t, N), nx, pv, t.right)
         /\ \A v \in LeafNodes(t, N) : nx[v] # 0 => nx[v] # t.root /\ v # t.root
         /\ \A v \in LeafNodes(t, N) : \A w \in LeafNodes(t, N) : v # w => v # t.root
<1> DEFINE L == LeafNodes(t, N)
           m == FirstItems(t, N)
<1>g. /\ Good(t, N, h, nx, pv) /\ Ordered(t, N, nx, R)
      /\ t \in Trees /\ Shape(t, N, h) /\ Links(t, N, h, nx, pv) /\ LeafLinks(t, N, nx, pv)
  BY DEF LinedUp, Good
<1>s. /\ N \subseteq Pages /\ t.root \in N /\ 0 \notin Pages /\ h \in [Pages -> Nat]
      /\ \A x \in N : Kids(t, x) \in Nat
      /\ \A x \in N : h[x] >= 1 /\ (Kids(t, x) = 0 => h[x] = 1)
      /\ \A x \in N : \A i \in 1 .. Kids(t, x) : Kid(t, x, i) \in N /\ h[x] = h[Kid(t, x, i)] + 1
  BY <1>g, ShapeFacts
<1>l. /\ nx[t.root] = 0 /\ pv[t.root] = 0
      /\ \A x \in N : nx[x] \in N \cup {0} /\ pv[x] \in N \cup {0}
      /\ \A x \in N : nx[x] # 0 => pv[nx[x]] = x /\ h[nx[x]] = h[x]
      /\ \A x \in N : pv[x] # 0 => nx[pv[x]] = x
  BY <1>g, LinkFacts
<1>r. /\ R \in [Pages -> SUBSET Nat] /\ RangesInRow(N, nx, R) BY <1>g DEF Ordered, RangesAre
<1>1. \A x \in N : Kids(t, x) = 0 <=> h[x] = 1
  <2>1. SUFFICES ASSUME NEW x \in N, h[x] = 1, Kids(t, x) # 0 PROVE FALSE BY <1>s
  <2>2. 1 \in 1 .. Kids(t, x) BY <2>1, <1>s
  <2> DEFINE y == Kid(t, x, 1)
  <2>3. y \in N /\ h[x] = h[y] + 1 /\ h[y] >= 1 /\ h[y] \in Nat BY <2>2, <1>s
  <2> QED BY <2>1, <2>3
<1>2. \A v \in L : nx[v] # 0 => nx[v] \in L /\ nx[v] # t.root /\ v # t.root
  <2>1. SUFFICES ASSUME NEW v \in L, nx[v] # 0 PROVE nx[v] \in L /\ nx[v] # t.root /\ v # t.root OBVIOUS
  <2>2. v \in N /\ Kids(t, v) = 0 BY DEF LeafNodes
  <2>3. nx[v] \in N /\ pv[nx[v]] = v /\ h[nx[v]] = h[v] BY <2>1, <2>2, <1>l
  <2>4. h[nx[v]] = 1 BY <2>2, <2>3, <1>1
  <2>5. nx[v] \in L BY <2>3, <2>4, <1>1 DEF LeafNodes
  <2>6. v # 0 BY <2>2, <1>s
  <2> QED BY <2>1, <2>3, <2>5, <2>6, <1>l
<1>3. \A v \in L : pv[v] # 0 => pv[v] \in L /\ nx[pv[v]] = v
  <2>1. SUFFICES ASSUME NEW v \in L, pv[v] # 0 PROVE pv[v] \in L /\ nx[pv[v]] = v OBVIOUS
  <2>2. v \in N /\ Kids(t, v) = 0 /\ v # 0 BY <1>s DEF LeafNodes
  <2>3. pv[v] \in N /\ nx[pv[v]] = v BY <2>1, <2>2, <1>l
  <2>4. h[v] = h[pv[v]] BY <2>2, <2>3, <1>l
  <2>5. h[pv[v]] = 1 BY <2>2, <2>4, <1>1
  <2> QED BY <2>3, <2>5, <1>1 DEF LeafNodes
<1>4. \A v, w \in L : v # w => v # t.root
  <2>1. SUFFICES ASSUME NEW v \in L, NEW w \in L, v # w, v = t.root PROVE FALSE OBVIOUS
  <2>2. N = {t.root} BY <2>1, <1>g, RootLeafAlone DEF LeafNodes
  <2> QED BY <2>1, <2>2 DEF LeafNodes
<1>5. \A v \in L : /\ v \in N /\ v \in Pages /\ Kids(t, v) = 0 /\ m[v] \in Nat
                   /\ v # t.root => m[v] \in Entries /\ m[v] \in R[v]
  BY FirstItemIs
<1>6. \A v, w \in L : m[v] = m[w] => v = w
  <2>1. SUFFICES ASSUME NEW v \in L, NEW w \in L, m[v] = m[w], v # w PROVE FALSE OBVIOUS
  <2>2. v # t.root /\ w # t.root BY <2>1, <1>4
  <2>3. m[v] \in Entries /\ m[v] \in R[v] /\ m[v] \in R[w] BY <2>1, <2>2, <1>5
  <2>4. Hot(t, m[v]) = v BY <2>3, <1>5, <1>g, HotOf
  <2>5. Hot(t, m[v]) = w BY <2>3, <1>5, <1>g, HotOf
  <2> QED BY <2>1, <2>4, <2>5
<1>7. \A v \in L : nx[v] # 0 => m[v] < m[nx[v]]
  <2>1. SUFFICES ASSUME NEW v \in L, nx[v] # 0 PROVE m[v] < m[nx[v]] OBVIOUS
  <2>2. nx[v] \in L /\ nx[v] # t.root /\ v # t.root BY <2>1, <1>2
  <2>3. m[v] \in R[v] /\ m[nx[v]] \in R[nx[v]] /\ v \in N BY <2>2, <1>5
  <2> QED BY <2>1, <2>3, <1>r DEF RangesInRow
<1>8. \A v \in L : pv[v] = 0 => v = t.right BY <1>5, <1>g DEF LeafLinks
<1>9. t.right \in L BY <1>g, FirstLeafIs DEF LeafNodes
<1>10. m \in [L -> Nat]
  <2>1. m = [v \in L |-> FirstItem(t, v)] BY DEF FirstItems
  <2>2. \A v \in L : FirstItem(t, v) \in Nat BY FirstItemIs
  <2> HIDE DEF m, L
  <2> QED BY <2>1, <2>2
<1>11. 0 \notin L BY <1>5, <1>s
<1> HIDE DEF m, L
<1>12. OneRow(L, m, nx, pv, t.right) BY <1>2, <1>3, <1>6, <1>7, <1>8, <1>9, <1>10, <1>11 DEF OneRow
<1> QED BY <1>2, <1>4, <1>12 DEF L, m

(* The links of pages that are no leaves lead nowhere.                     *)
LEMMA OthersEnd ==
  ASSUME NEW t, NEW N, NEW h, NEW nx, NEW pv, Good(t, N, h, nx, pv), NEW v \in Pages \ LeafNodes(t, N)
  PROVE  Right(t, v) = 0
<1>1. t \in Trees /\ Matched(t, N) /\ Blank(t, N) BY DEF Good
<1>2. CASE v \in N
  <2>1. Kids(t, v) # 0 BY <1>2 DEF LeafNodes
  <2> QED BY <2>1, <1>1, <1>2 DEF Matched
<1>3. CASE v \notin N BY <1>1, <1>3, BlankIs
<1> QED BY <1>2, <1>3

(* The recursion of LeafEntries is one: the row of leaves ends.            *)
LEMMA LeafEntriesAre ==
  ASSUME NEW t, NEW N, NEW h, NEW nx, NEW pv, NEW R, LinedUp(t, N, h, nx, pv, R)
  PROVE  \A v \in LeafNodes(t, N) :
           /\ LeafEntries(t)[v] \in Seq(Entries)
           /\ LeafEntries(t)[v] = Items(t, v) \o (IF nx[v] = 0 THEN <<>> ELSE LeafEntries(t)[nx[v]])
<1> DEFINE L == LeafNodes(t, N)
           m == FirstItems(t, N)
           X == Seq(Entries)
           F(f) == [v \in Pages |-> Items(t, v) \o (IF t.node[v].right = NULL_NODE THEN <<>> ELSE f[t.node[v].right])]
           G == [x \in Pages \X [Pages -> X] |->
                   Items(t, x[1]) \o (IF t.node[x[1]].right = NULL_NODE THEN <<>> ELSE x[2][t.node[x[1]].right])]
<1>g. t \in Trees /\ Good(t, N, h, nx, pv) /\ LeafLinks(t, N, nx, pv) BY DEF LinedUp, Good
<1>s. N \subseteq Pages /\ L \subseteq Pages /\ 0 \notin Pages
  <2>1. N \subseteq Pages /\ 0 \notin Pages BY <1>g, ShapeFacts DEF Good
  <2> QED BY <2>1 DEF LeafNodes
<1>t. \A v \in Pages : Items(t, v) \in X BY <1>g, TreeTypes
<1>r. /\ m \in [L -> Nat]
      /\ \A v \in L : nx[v] # 0 => nx[v] \in L /\ m[v] < m[nx[v]]
  <2>1. OneRow(L, m, nx, pv, t.right) BY LeavesInRow
  <2> QED BY <2>1 DEF OneRow
<1>n. \A v \in L : t.node[v].right = nx[v] BY <1>g DEF LeafNodes, LeafLinks, Right
<1>o. \A v \in Pages \ L : t.node[v].right = 0 BY <1>g, OthersEnd DEF Right
<1>1. LeafEntries(t) = CHOOSE f : f = F(f) BY DEF LeafEntries
<1> HIDE DEF L, m
<1>2. PICK b \in Nat : \A v \in L : m[v] <= b
  <2> DEFINE g == [v \in Pages |-> IF v \in L THEN m[v] ELSE 0]
  <2>1. g \in [Pages -> Nat] BY <1>r
  <2> HIDE DEF g
  <2>2. PICK b \in Nat : \A v \in Pages : g[v] <= b BY <2>1, Bounded
  <2>3. \A v \in L : m[v] <= b
    <3>1. \A v \in L : g[v] = m[v] /\ v \in Pages BY <1>s DEF g
    <3> QED BY <3>1, <2>2
  <2> QED BY <2>3
<1> DEFINE d == [v \in Pages |-> IF v \in L THEN b - m[v] ELSE 0]
<1>3. d \in [Pages -> 0 .. b]
  <2>1. \A v \in L : m[v] \in Nat /\ m[v] <= b BY <1>2, <1>r
  <2>2. \A v \in L : b - m[v] \in 0 .. b BY <2>1
  <2>3. 0 \in 0 .. b OBVIOUS
  <2> QED BY <2>2, <2>3
<1>4. \A v \in Pages : LET u == t.node[v].right IN u # 0 => u \in Pages /\ d[u] < d[v]
  <2>1. SUFFICES ASSUME NEW v \in Pages, t.node[v].right # 0
                 PROVE  t.node[v].right \in Pages /\ d[t.node[v].right] < d[v]
    OBVIOUS
  <2>2. v \in L /\ t.node[v].right = nx[v] BY <2>1, <1>n, <1>o
  <2>3. nx[v] \in L /\ m[v] < m[nx[v]] /\ m[v] \in Nat /\ m[nx[v]] \in Nat /\ m[nx[v]] <= b
    BY <2>1, <2>2, <1>r, <1>2
  <2>4. d[v] = b - m[v] /\ d[nx[v]] = b - m[nx[v]] BY <2>2, <2>3, <1>s
  <2> HIDE DEF d
  <2>5. d[nx[v]] < d[v] BY <2>3, <2>4
  <2> QED BY <2>2, <2>3, <2>5, <1>s
<1>5. <<>> \in X OBVIOUS
<1>6. \A v \in Pages, q \in X : Items(t, v) \o q \in X BY <1>t, ConcatProperties
<1> HIDE DEF d, X
<1>7. G \in [Pages \X [Pages -> X] -> X]
  <2>1. SUFFICES ASSUME NEW v \in Pages, NEW f \in [Pages -> X]
                 PROVE  Items(t, v) \o (IF t.node[v].right = NULL_NODE THEN <<>> ELSE f[t.node[v].right]) \in X
    OBVIOUS
  <2> DEFINE q == IF t.node[v].right = NULL_NODE THEN <<>> ELSE f[t.node[v].right]
  <2>2. q \in X BY <1>4, <1>5 DEF NULL_NODE
  <2> HIDE DEF q
  <2>3. Items(t, v) \o q \in X BY <2>2, <1>6
  <2> QED BY <2>3 DEF q
<1>8. \A v \in Pages : \A f, g \in [Pages -> X] :
        (\A w \in Pages : d[w] < d[v] => f[w] = g[w]) => G[<<v, f>>] = G[<<v, g>>]
  <2>1. SUFFICES ASSUME NEW v \in Pages, NEW f \in [Pages -> X], NEW g \in [Pages -> X],
                        \A w \in Pages : d[w] < d[v] => f[w] = g[w]
                 PROVE  G[<<v, f>>] = G[<<v, g>>]
    OBVIOUS
  <2>2. t.node[v].right # NULL_NODE => f[t.node[v].right] = g[t.node[v].right]
    BY <2>1, <1>4 DEF NULL_NODE
  <2> QED BY <2>2
<1>9. PICK f \in [Pages -> X] : \A v \in Pages : f[v] = G[<<v, f>>]
  <2> HIDE DEF G
  <2>1. X # {} BY <1>5
  <2>2. IsRecursion(Pages, X, b, d, G) BY <1>2, <1>3, <1>7, <1>8, <2>1 DEF IsRecursion
  <2> QED BY <2>2, RecursionExists
<1>10. f = F(f)
  <2>1. \A v \in Pages : f[v] = F(f)[v] BY <1>9
  <2>2. f = [v \in Pages |-> f[v]] BY <1>9
  <2> QED BY <2>1, <2>2
<1> DEFINE E == LeafEntries(t)
<1>11. E = F(E)
  <2> HIDE DEF F
  <2> QED BY <1>1, <1>10
<1> HIDE DEF E
<1>12. \A v \in Pages : E[v] = Items(t, v) \o (IF t.node[v].right = NULL_NODE THEN <<>> ELSE E[t.node[v].right])
  BY <1>11
<1>13. \A v \in L : E[v] = Items(t, v) \o (IF nx[v] = 0 THEN <<>> ELSE E[nx[v]])
  BY <1>12, <1>n, <1>s DEF NULL_NODE
<1> HIDE DEF F, G
<1> DEFINE P == {v \in L : E[v] \in X}
           k == [v \in L |-> d[v]]
<1>14. P = L
  <2>1. k \in [L -> Nat] /\ \A v \in L : k[v] = d[v]
    <3>1. \A v \in L : d[v] \in Nat BY <1>3, <1>s
    <3> QED BY <3>1
  <2>2. P \in SUBSET L OBVIOUS
  <2>3. ASSUME NEW v \in L, \A w \in L : k[w] < k[v] => w \in P PROVE v \in P
    <3>1. CASE nx[v] = 0
      <4>1. E[v] = Items(t, v) \o <<>> BY <3>1, <1>13
      <4> QED BY <4>1, <1>5, <1>6, <1>s
    <3>2. CASE nx[v] # 0
      <4>1. nx[v] \in L /\ d[nx[v]] < d[v]
        <5>1. nx[v] \in L BY <3>2, <1>r
        <5>2. t.node[v].right = nx[v] /\ v \in Pages BY <1>n, <1>s
        <5> QED BY <5>1, <5>2, <3>2, <1>4
      <4>2. E[nx[v]] \in X BY <4>1, <2>1, <2>3
      <4>3. E[v] = Items(t, v) \o E[nx[v]] BY <3>2, <1>13
      <4> QED BY <4>2, <4>3, <1>6, <1>s
    <3> QED BY <3>1, <3>2
  <2> HIDE DEF P, k
  <2> QED BY <2>1, <2>2, <2>3, LevelInduction
<1> QED BY <1>13, <1>14 DEF E, L, X

(* The entries that follow a leaf are those of the leaves from it on.      *)
FollowsFrom(t, N, v, E) ==
  /\ Increasing(E)
  /\ \A x : x \in ToSet(E) <=> \E w \in LeafNodes(t, N) : /\ FirstItem(t, v) <= FirstItem(t, w)
                                                         /\ x \in ToSet(Items(t, w))

(* A scan from a leaf comes to the entries of all leaves from it on.       *)
LEMMA RowOfEntries ==
  ASSUME NEW t, NEW N, NEW h, NEW nx, NEW pv, NEW R, LinedUp(t, N, h, nx, pv, R)
  PROVE  \A v \in LeafNodes(t, N) : FollowsFrom(t, N, v, LeafEntries(t)[v])
<1> DEFINE L == LeafNodes(t, N)
           m == FirstItems(t, N)
           E == LeafEntries(t)
           P == {v \in L : FollowsFrom(t, N, v, E[v])}
<1>1. /\ m \in [L -> Nat]
      /\ \A v, w \in L : m[v] = m[w] => v = w
      /\ \A v \in L : nx[v] # 0 => nx[v] \in L /\ m[v] < m[nx[v]] /\ nx[v] # t.root /\ v # t.root
      /\ \A u, v \in L : m[u] < m[v] => nx[u] # 0 /\ m[nx[u]] <= m[v]
  <2>1. OneRow(L, m, nx, pv, t.right) /\ \A v \in L : nx[v] # 0 => nx[v] # t.root /\ v # t.root
    BY LeavesInRow
  <2>2. \A u, v \in L : m[u] < m[v] => nx[u] # 0 /\ m[nx[u]] <= m[v] BY <2>1, RowFollowsOrder
  <2> QED BY <2>1, <2>2 DEF OneRow
<1>2. \A v \in L : /\ v \in N /\ v \in Pages /\ m[v] = FirstItem(t, v)
                   /\ Items(t, v) \in Seq(Entries) /\ Increasing(Items(t, v))
                   /\ \A x \in ToSet(Items(t, v)) : x \in Entries /\ x \in R[v] /\ m[v] <= x
                   /\ v # t.root => m[v] \in R[v]
  <2>1. SUFFICES ASSUME NEW v \in L
                 PROVE  /\ v \in N /\ v \in Pages /\ m[v] = FirstItem(t, v)
                        /\ Items(t, v) \in Seq(Entries) /\ Increasing(Items(t, v))
                        /\ \A x \in ToSet(Items(t, v)) : x \in Entries /\ x \in R[v] /\ m[v] <= x
                        /\ v # t.root => m[v] \in R[v]
    OBVIOUS
  <2>2. /\ v \in N /\ v \in Pages /\ m[v] = FirstItem(t, v)
        /\ Items(t, v) \in Seq(Entries) /\ Size(t, v) = Len(Items(t, v)) /\ Increasing(Items(t, v))
        /\ \A i \in 1 .. Size(t, v) : /\ Item(t, v, i) \in Entries /\ Item(t, v, i) \in R[v]
                                      /\ FirstItem(t, v) <= Item(t, v, i)
        /\ v # t.root => FirstItem(t, v) \in R[v]
    BY FirstItemIs
  <2> HIDE DEF m
  <2>3. DOMAIN Items(t, v) = 1 .. Size(t, v) BY <2>2, LenProperties
  <2>4. \A x \in ToSet(Items(t, v)) : \E i \in 1 .. Size(t, v) : x = Item(t, v, i) BY <2>3 DEF ToSet, Item
  <2> QED BY <2>2, <2>4
<1>3. \A v \in L : /\ E[v] \in Seq(Entries)
                   /\ E[v] = Items(t, v) \o (IF nx[v] = 0 THEN <<>> ELSE E[nx[v]])
  BY LeafEntriesAre
<1>r. R \in [Pages -> SUBSET Nat] /\ RangesInRow(N, nx, R) BY DEF LinedUp, Ordered, RangesAre
<1>e. Entries \subseteq Nat BY EntriesAssumption
<1> HIDE DEF L, m, E
<1>4. \A v, w \in L : m[v] <= m[w] <=> FirstItem(t, v) <= FirstItem(t, w) BY <1>2
<1>5. ASSUME NEW v \in L, nx[v] = 0 PROVE v \in P
  <2>1. E[v] = Items(t, v) BY <1>5, <1>2, <1>3, ConcatNone
  <2>2. \A w \in L : m[v] <= m[w] <=> w = v
    <3>1. SUFFICES ASSUME NEW w \in L PROVE m[v] <= m[w] <=> w = v OBVIOUS
    <3>2. m[v] \in Nat /\ m[w] \in Nat BY <1>1
    <3>3. ~(m[v] < m[w]) BY <1>1, <1>5
    <3>4. m[v] <= m[w] => m[v] = m[w] BY <3>2, <3>3
    <3> QED BY <3>2, <3>4, <1>1
  <2>3. FollowsFrom(t, N, v, E[v])
    <3>1. \A x : x \in ToSet(E[v]) <=> \E w \in L : FirstItem(t, v) <= FirstItem(t, w) /\ x \in ToSet(Items(t, w))
      BY <2>1, <2>2, <1>4
    <3> QED BY <3>1, <2>1, <1>2 DEF FollowsFrom, L
  <2> QED BY <2>3
<1>6. ASSUME NEW v \in L, nx[v] # 0, nx[v] \in P PROVE v \in P
  <2> DEFINE u == nx[v]
  <2>1. u \in L /\ m[v] < m[u] /\ u # t.root /\ v # t.root /\ m[v] \in Nat /\ m[u] \in Nat BY <1>1, <1>6
  <2>2. E[v] = Items(t, v) \o E[u] /\ E[u] \in Seq(Entries) /\ Items(t, v) \in Seq(Entries)
    BY <1>2, <1>3, <1>6, <2>1
  <2>3. FollowsFrom(t, N, u, E[u]) BY <1>6
  <2>i. u \in N /\ m[u] \in R[u] /\ \A x \in R[v] : x < m[u]
    <3>1. u \in N /\ v \in N /\ m[u] \in R[u] BY <2>1, <1>2
    <3> QED BY <3>1, <1>r, <1>6 DEF RangesInRow
  <2> HIDE DEF u
  <2>4. Increasing(E[u])
        /\ \A x : x \in ToSet(E[u]) <=> \E w \in L : m[u] <= m[w] /\ x \in ToSet(Items(t, w))
    <3>1. Increasing(E[u])
          /\ \A x : x \in ToSet(E[u]) <=> \E w \in L : FirstItem(t, u) <= FirstItem(t, w) /\ x \in ToSet(Items(t, w))
      BY <2>3 DEF FollowsFrom, L
    <3> QED BY <3>1, <2>1, <1>4
  <2>5. ASSUME NEW x \in ToSet(Items(t, v)), NEW y \in ToSet(E[u]) PROVE x < y
    <3>1. PICK w \in L : m[u] <= m[w] /\ y \in ToSet(Items(t, w)) BY <2>4
    <3>2. m[w] <= y /\ y \in Nat /\ m[w] \in Nat BY <3>1, <1>1, <1>2, <1>e
    <3>3. x < m[u] /\ x \in Nat
      <4>1. x \in R[v] /\ x \in Entries BY <1>2
      <4> QED BY <4>1, <2>i, <1>e
    <3> QED BY <3>1, <3>2, <3>3, <2>1
  <2>6. Increasing(E[v]) /\ ToSet(E[v]) = ToSet(Items(t, v)) \cup ToSet(E[u])
    BY <2>2, <2>4, <2>5, <1>2, ConcatIncreases
  <2>7. \A w \in L : m[v] <= m[w] <=> (w = v \/ m[u] <= m[w])
    <3>1. SUFFICES ASSUME NEW w \in L PROVE m[v] <= m[w] <=> (w = v \/ m[u] <= m[w]) OBVIOUS
    <3>2. m[v] \in Nat /\ m[w] \in Nat BY <1>1
    <3>3. m[v] < m[w] => m[u] <= m[w] BY <1>1 DEF u
    <3>4. m[v] = m[w] => w = v BY <1>1
    <3> QED BY <3>2, <3>3, <3>4, <2>1
  <2>8. \A x : x \in ToSet(E[v]) <=> \E w \in L : m[v] <= m[w] /\ x \in ToSet(Items(t, w))
    <3>1. SUFFICES ASSUME NEW x
                   PROVE  x \in ToSet(E[v]) <=> \E w \in L : m[v] <= m[w] /\ x \in ToSet(Items(t, w))
      OBVIOUS
    <3>2. x \in ToSet(E[v]) <=> x \in ToSet(Items(t, v)) \/ \E w \in L : m[u] <= m[w] /\ x \in ToSet(Items(t, w))
      BY <2>4, <2>6
    <3> QED BY <3>2, <2>7
  <2>9. FollowsFrom(t, N, v, E[v])
    <3>1. \A x : x \in ToSet(E[v]) <=> \E w \in L : FirstItem(t, v) <= FirstItem(t, w) /\ x \in ToSet(Items(t, w))
      BY <2>8, <1>4
    <3> QED BY <3>1, <2>6 DEF FollowsFrom, L
  <2> QED BY <2>9
<1>7. P \in SUBSET L OBVIOUS
<1> HIDE DEF P
<1>8. PICK b \in Nat : \A v \in L : m[v] <= b
  <2> DEFINE g == [v \in Pages |-> IF v \in L THEN m[v] ELSE 0]
  <2>1. g \in [Pages -> Nat] BY <1>1
  <2> HIDE DEF g
  <2>2. PICK b \in Nat : \A v \in Pages : g[v] <= b BY <2>1, Bounded
  <2>3. \A v \in L : g[v] = m[v] /\ v \in Pages BY <1>2 DEF g
  <2> QED BY <2>2, <2>3
<1> DEFINE k == [v \in L |-> b - m[v]]
<1>9. k \in [L -> Nat]
  <2>1. \A v \in L : m[v] \in Nat /\ m[v] <= b BY <1>1, <1>8
  <2>2. \A v \in L : b - m[v] \in Nat BY <2>1
  <2> QED BY <2>2
<1>10. ASSUME NEW v \in L, \A w \in L : k[w] < k[v] => w \in P PROVE v \in P
  <2>1. CASE nx[v] = 0 BY <2>1, <1>5
  <2>2. CASE nx[v] # 0
    <3>1. nx[v] \in L /\ m[v] < m[nx[v]] /\ m[v] \in Nat /\ m[nx[v]] \in Nat BY <2>2, <1>1
    <3>2. k[v] = b - m[v] /\ k[nx[v]] = b - m[nx[v]] BY <3>1
    <3> HIDE DEF k
    <3>3. k[nx[v]] < k[v] BY <3>1, <3>2
    <3>4. nx[v] \in P BY <3>1, <3>3, <1>10
    <3> QED BY <2>2, <3>4, <1>6
  <2> QED BY <2>1, <2>2
<1> HIDE DEF k
<1>11. P = L BY <1>7, <1>9, <1>10, LevelInduction
<1> QED BY <1>11 DEF P, L, E

(* What a leaf holds is what the leaves hold.                              *)
LEMMA HeldByLeaves ==
  ASSUME NEW t, NEW N, NEW h, NEW nx, NEW pv, Good(t, N, h, nx, pv)
  PROVE  \A x : x \in HeldIn(t) <=> \E w \in LeafNodes(t, N) : x \in ToSet(Items(t, w))
<1>1. t \in Trees /\ Matched(t, N) /\ Blank(t, N) /\ N \subseteq Pages
  <2>1. t \in Trees /\ Matched(t, N) /\ Blank(t, N) /\ Shape(t, N, h) BY DEF Good
  <2> QED BY <2>1, ShapeFacts
<1>2. \A w \in Pages : w \in LeafNodes(t, N) <=> Leaf(t, w)
  <2>1. \A w \in Pages \ N : ~Leaf(t, w) BY <1>1, BlankIs
  <2> QED BY <2>1, <1>1 DEF Matched, LeafNodes
<1>3. \A w \in Pages : DOMAIN Items(t, w) = 1 .. Size(t, w) /\ Size(t, w) \in Nat BY <1>1, TreeTypes
<1>4. SUFFICES ASSUME NEW x
               PROVE  x \in HeldIn(t) <=> \E w \in LeafNodes(t, N) : x \in ToSet(Items(t, w))
  OBVIOUS
<1>5. ASSUME x \in HeldIn(t) PROVE \E w \in LeafNodes(t, N) : x \in ToSet(Items(t, w))
  <2>1. PICK s \in Places(t) : x = Item(t, s[1], s[2]) BY <1>5 DEF HeldIn
  <2> DEFINE w == s[1]
             i == s[2]
  <2>2. w \in Pages /\ i \in Nat /\ i \in 1 .. LeafSize(t, w) BY DEF Places
  <2>3. x = Item(t, w, i) BY <2>1
  <2> HIDE DEF w, i
  <2>4. Leaf(t, w) /\ i \in 1 .. Size(t, w) BY <2>2 DEF LeafSize
  <2>5. x \in ToSet(Items(t, w)) BY <2>2, <2>3, <2>4, <1>3 DEF ToSet, Item
  <2> QED BY <2>2, <2>4, <2>5, <1>2
<1>6. ASSUME NEW w \in LeafNodes(t, N), x \in ToSet(Items(t, w)) PROVE x \in HeldIn(t)
  <2>1. w \in Pages /\ Leaf(t, w) BY <1>1, <1>2 DEF LeafNodes
  <2>2. PICK i \in 1 .. Size(t, w) : x = Item(t, w, i) BY <1>6, <2>1, <1>3 DEF ToSet, Item
  <2>3. <<w, i>> \in Places(t)
    <3>1. i \in Nat /\ LeafSize(t, w) = Size(t, w) BY <2>1, <1>3 DEF LeafSize
    <3> QED BY <3>1, <2>1, <2>2 DEF Places
  <2> QED BY <2>2, <2>3 DEF HeldIn
<1> QED BY <1>5, <1>6

(* The entries behind place k of the leaf w: what the leaves hold, but for *)
(* what the leaf has up to the place and what is in leaves before it.      *)
LEMMA EntriesFromIs ==
  ASSUME NEW t, NEW N, NEW h, NEW nx, NEW pv, NEW R, LinedUp(t, N, h, nx, pv, R),
         NEW w \in LeafNodes(t, N), NEW k \in 0 .. Size(t, w),
         NEW start, start.leaf = w, start.rank = k,
         NEW E, E = EntriesFrom(t, start)
  PROVE  /\ E \in Seq(Entries) /\ Increasing(E) /\ ToSet(E) \subseteq HeldIn(t)
         /\ \A e \in HeldIn(t) :
              \/ e \in ToSet(E)
              \/ \E i \in 1 .. k : e = Item(t, w, i)
              \/ \E u \in LeafNodes(t, N) : /\ ~(FirstItem(t, w) <= FirstItem(t, u))
                                            /\ e \in ToSet(Items(t, u))
<1> DEFINE s == LeafEntries(t)[w]
           rest == IF nx[w] = 0 THEN <<>> ELSE LeafEntries(t)[nx[w]]
           n == Len(s)
<1>g. Good(t, N, h, nx, pv) BY DEF LinedUp
<1>1. s \in Seq(Entries) /\ s = Items(t, w) \o rest BY LeafEntriesAre
<1>2. rest \in Seq(Entries)
  <2>1. CASE nx[w] = 0 BY <2>1
  <2>2. CASE nx[w] # 0
    <3>1. OneRow(LeafNodes(t, N), FirstItems(t, N), nx, pv, t.right) BY LeavesInRow
    <3>2. nx[w] \in LeafNodes(t, N) BY <3>1, <2>2 DEF OneRow
    <3>3. LeafEntries(t)[nx[w]] \in Seq(Entries) BY <3>2, LeafEntriesAre
    <3> QED BY <3>3, <2>2
  <2> QED BY <2>1, <2>2
<1>3. Items(t, w) \in Seq(Entries) /\ Size(t, w) = Len(Items(t, w)) /\ Size(t, w) \in Nat BY FirstItemIs
<1>4. FollowsFrom(t, N, w, s) BY RowOfEntries
<1>5. E = SubSeq(s, k + 1, n) BY DEF EntriesFrom
<1> HIDE DEF s, rest
<1>6. /\ Len(s) = Size(t, w) + Len(rest)
      /\ \A i \in 1 .. Size(t, w) + Len(rest) : i <= Size(t, w) => s[i] = Item(t, w, i)
  BY <1>1, <1>2, <1>3, ConcatProperties DEF Item
<1>7. n \in Nat /\ DOMAIN s = 1 .. n /\ Len(rest) \in Nat BY <1>1, <1>2, LenProperties
<1>8. k \in 0 .. n /\ k \in Nat BY <1>3, <1>6, <1>7
<1>9. /\ E \in Seq(Entries) /\ Increasing(E)
      /\ ToSet(E) = {s[i] : i \in k + 1 .. n}
  <2>1. Increasing(s) BY <1>4 DEF FollowsFrom
  <2> QED BY <2>1, <1>1, <1>5, <1>8, RestIncreases
<1>10. \A x : x \in ToSet(s) <=> \E u \in LeafNodes(t, N) : /\ FirstItem(t, w) <= FirstItem(t, u)
                                                            /\ x \in ToSet(Items(t, u))
  BY <1>4 DEF FollowsFrom
<1>11. \A x : x \in HeldIn(t) <=> \E u \in LeafNodes(t, N) : x \in ToSet(Items(t, u))
  BY <1>g, HeldByLeaves
<1> HIDE DEF n
<1>12. ToSet(E) \subseteq HeldIn(t)
  <2>1. \A i \in k + 1 .. n : i \in 1 .. n BY <1>7, <1>8
  <2>2. ToSet(E) \subseteq ToSet(s) BY <2>1, <1>7, <1>9 DEF ToSet
  <2> QED BY <2>2, <1>10, <1>11
<1>13. ASSUME NEW e \in HeldIn(t)
       PROVE  \/ e \in ToSet(E)
              \/ \E i \in 1 .. k : e = Item(t, w, i)
              \/ \E u \in LeafNodes(t, N) : /\ ~(FirstItem(t, w) <= FirstItem(t, u))
                                            /\ e \in ToSet(Items(t, u))
  <2>1. PICK u \in LeafNodes(t, N) : e \in ToSet(Items(t, u)) BY <1>11
  <2>2. CASE ~(FirstItem(t, w) <= FirstItem(t, u)) BY <2>1, <2>2
  <2>3. CASE FirstItem(t, w) <= FirstItem(t, u)
    <3>1. e \in ToSet(s) BY <2>1, <2>3, <1>10
    <3>2. PICK i \in 1 .. n : e = s[i] BY <3>1, <1>7 DEF ToSet
    <3>3. CASE i <= k
      <4>1. i \in 1 .. k /\ i <= Size(t, w) /\ i \in 1 .. Size(t, w) + Len(rest) BY <3>3, <1>3, <1>7, <1>8
      <4> QED BY <4>1, <3>2, <1>6
    <3>4. CASE ~(i <= k)
      <4>1. i \in k + 1 .. n BY <3>4, <1>7, <1>8
      <4> QED BY <4>1, <3>2, <1>9
    <3> QED BY <3>3, <3>4
  <2> QED BY <2>2, <2>3
<1> QED BY <1>9, <1>12, <1>13

(* From the first leaf a scan comes to all entries.                        *)
LEMMA FromFirstLeaf ==
  ASSUME NEW t, NEW N, NEW h, NEW nx, NEW pv, NEW R, LinedUp(t, N, h, nx, pv, R),
         NEW E, E = EntriesFrom(t, FirstLeaf(t))
  PROVE  E \in Seq(Entries) /\ Increasing(E) /\ ToSet(E) = HeldIn(t)
<1> DEFINE w == t.right
           start == FirstLeaf(t)
<1>1. start.leaf = w /\ start.rank = 0 BY DEF FirstLeaf
<1>2. /\ w \in LeafNodes(t, N)
      /\ \A u \in LeafNodes(t, N) : FirstItems(t, N)[w] <= FirstItems(t, N)[u]
  <2>1. OneRow(LeafNodes(t, N), FirstItems(t, N), nx, pv, w) BY LeavesInRow
  <2>2. \A u \in LeafNodes(t, N) : FirstItems(t, N)[w] <= FirstItems(t, N)[u] BY <2>1, RowFollowsOrder
  <2> QED BY <2>1, <2>2 DEF OneRow
<1>3. \A u \in LeafNodes(t, N) : FirstItem(t, w) <= FirstItem(t, u)
  <2>1. \A u \in LeafNodes(t, N) : FirstItems(t, N)[u] = FirstItem(t, u) BY FirstItemIs
  <2> QED BY <2>1, <1>2
<1>4. 0 \in 0 .. Size(t, w)
  <2>1. Size(t, w) \in Nat BY <1>2, FirstItemIs
  <2> QED BY <2>1
<1> HIDE DEF w, start
<1>5. /\ E \in Seq(Entries) /\ Increasing(E) /\ ToSet(E) \subseteq HeldIn(t)
      /\ \A e \in HeldIn(t) :
           \/ e \in ToSet(E)
           \/ \E i \in 1 .. 0 : e = Item(t, w, i)
           \/ \E u \in LeafNodes(t, N) : /\ ~(FirstItem(t, w) <= FirstItem(t, u))
                                         /\ e \in ToSet(Items(t, u))
  <2>1. E = EntriesFrom(t, start) BY DEF start
  <2> QED BY <2>1, <1>1, <1>2, <1>4, EntriesFromIs
<1>6. \A i \in 1 .. 0 : FALSE OBVIOUS
<1>7. HeldIn(t) \subseteq ToSet(E) BY <1>3, <1>5, <1>6
<1> QED BY <1>5, <1>7

(* From where findFirstValue leads it comes to all but entries below c.    *)
LEMMA FromFindFirst ==
  ASSUME NEW t, NEW N, NEW h, NEW nx, NEW pv, NEW R, LinedUp(t, N, h, nx, pv, R),
         NEW type, NEW c, Cuts(type, c),
         NEW E, E = EntriesFrom(t, FindFirst(type, t, c))
  PROVE  /\ E \in Seq(Entries) /\ Increasing(E) /\ ToSet(E) \subseteq HeldIn(t)
         /\ \A e \in HeldIn(t) : e \in ToSet(E) \/ IsBelow(type, c, e)
<1> DEFINE start == FindFirst(type, t, c)
           w == start.leaf
           k == start.rank
           L == LeafNodes(t, N)
           m == FirstItems(t, N)
<1>g. Good(t, N, h, nx, pv) /\ Ordered(t, N, nx, R) BY DEF LinedUp
<1>1. /\ w \in N /\ Kids(t, w) = 0
      /\ k \in 0 .. Size(t, w) /\ \A i \in 1 .. k : IsBelow(type, c, Item(t, w, i))
      /\ LeftBelow(type, c, R[w])
  BY <1>g, FindFirstIs
<1>2. w \in L BY <1>1 DEF LeafNodes
<1>3. E = EntriesFrom(t, start) OBVIOUS
<1> HIDE DEF start, L, m
<1>4. /\ E \in Seq(Entries) /\ Increasing(E) /\ ToSet(E) \subseteq HeldIn(t)
      /\ \A e \in HeldIn(t) :
           \/ e \in ToSet(E)
           \/ \E i \in 1 .. k : e = Item(t, w, i)
           \/ \E u \in L : /\ ~(FirstItem(t, w) <= FirstItem(t, u))
                           /\ e \in ToSet(Items(t, u))
  <2> HIDE DEF w, k
  <2>1. start.leaf = w /\ start.rank = k BY DEF w, k
  <2> QED BY <2>1, <1>1, <1>2, <1>3, EntriesFromIs DEF L
<1> HIDE DEF w, k
<1>5. /\ \A u \in L : u \in N /\ Kids(t, u) = 0 /\ m[u] = FirstItem(t, u) /\ m[u] \in Nat
                      /\ (u # t.root => m[u] \in R[u])
      /\ \A u \in L : \A i \in 1 .. Size(t, u) : Item(t, u, i) \in Entries /\ Item(t, u, i) \in R[u]
      /\ \A u \in L : DOMAIN Items(t, u) = 1 .. Size(t, u)
  <2>1. \A u \in L : Items(t, u) \in Seq(Entries) /\ Size(t, u) = Len(Items(t, u)) BY FirstItemIs DEF L
  <2>2. \A u \in L : DOMAIN Items(t, u) = 1 .. Size(t, u) BY <2>1, LenProperties
  <2>3. \A u \in L : /\ u \in N /\ Kids(t, u) = 0 /\ m[u] = FirstItem(t, u) /\ m[u] \in Nat
                     /\ (u # t.root => m[u] \in R[u])
    BY FirstItemIs DEF L, m
  <2>4. \A u \in L : \A i \in 1 .. Size(t, u) : Item(t, u, i) \in Entries /\ Item(t, u, i) \in R[u]
    BY FirstItemIs DEF L
  <2> QED BY <2>2, <2>3, <2>4
<1>6. /\ \A u \in L : nx[u] # 0 => nx[u] \in L /\ nx[u] # t.root
      /\ \A u, v \in L : m[u] < m[v] => nx[u] # 0 /\ m[nx[u]] <= m[v]
      /\ \A u, v \in L : u # v => u # t.root
  <2>1. /\ OneRow(L, m, nx, pv, t.right)
        /\ \A v \in L : nx[v] # 0 => nx[v] # t.root
        /\ \A u, v \in L : u # v => u # t.root
    BY LeavesInRow DEF L, m
  <2>2. \A u, v \in L : m[u] < m[v] => nx[u] # 0 /\ m[nx[u]] <= m[v] BY <2>1, RowFollowsOrder
  <2> QED BY <2>1, <2>2 DEF OneRow
<1>7. ASSUME NEW u \in L, ~(FirstItem(t, w) <= FirstItem(t, u)), NEW e \in ToSet(Items(t, u))
      PROVE  IsBelow(type, c, e)
  <2>1. e \in Entries /\ e \in R[u] /\ e \in Nat
    <3>1. PICK i \in 1 .. Size(t, u) : e = Item(t, u, i) BY <1>5 DEF ToSet, Item
    <3> QED BY <3>1, <1>5, EntriesAssumption
  <2>2. m[u] < m[w] /\ m[w] \in Nat BY <1>2, <1>5, <1>7
  <2>3. w # u BY <1>2, <1>5, <2>2
  <2>4. nx[u] \in L /\ nx[u] # 0 /\ m[nx[u]] <= m[w] /\ m[nx[u]] \in R[nx[u]] /\ m[nx[u]] \in Nat
    <3>1. nx[u] \in L /\ nx[u] # 0 /\ m[nx[u]] <= m[w] /\ nx[u] # t.root BY <1>2, <1>6, <2>2
    <3> QED BY <3>1, <1>5
  <2>5. e < m[nx[u]] BY <2>1, <2>4, <1>5, <1>g DEF Ordered, RangesInRow
  <2>6. e < m[w] BY <2>1, <2>2, <2>4, <2>5
  <2>7. m[w] \in R[w] BY <1>2, <1>5, <1>6, <2>3
  <2>8. e \notin R[w]
    <3>1. SUFFICES ASSUME e \in R[w] PROVE FALSE OBVIOUS
    <3>2. Hot(t, e) = w BY <3>1, <2>1, <1>1, <1>g, HotOf DEF w
    <3>3. Hot(t, e) = u BY <2>1, <1>5, <1>g, HotOf
    <3> QED BY <3>2, <3>3, <2>3
  <2>9. LeftBelow(type, c, R[w]) BY <1>1
  <2> QED BY <2>1, <2>6, <2>7, <2>8, <2>9 DEF LeftBelow
<1> QED BY <1>1, <1>4, <1>7

(***************************************************************************)
(* What comp makes of the value of a condition and an entry.               *)
(***************************************************************************)

IndexTypes == {"INT", "FLOAT"}

(* What is below a null is a null.                                         *)
LEMMA NullsLeast ==
  ASSUME NEW e \in Entries, NEW f \in NullEntries, e < f
  PROVE  e \in NullEntries
<1>1. SUFFICES ASSUME e \notin NullEntries PROVE FALSE OBVIOUS
<1>2. f < e /\ f \in Nat /\ e \in Nat BY <1>1, NullEntriesAssumption, EntriesAssumption
<1> QED BY <1>2

(* Ints: nulls are below all values, other entries by their value.         *)
LEMMA IntsBelow ==
  ASSUME NEW v \in ScanValues("INT"), NEW e \in Entries
  PROVE  /\ Comp("INT", NotNull(v), Cell("INT", e)) \in Int
         /\ v \in Int /\ Data("INT", e) \in Int
         /\ IsBelow("INT", NotNull(v), e) <=> e \in NullEntries \/ v > Data("INT", e)
<1> DEFINE d == Data("INT", e)
<1>1. \A f \in Entries : Data("INT", f) \in Int
  <2>1. SUFFICES ASSUME NEW f \in Entries PROVE Data("INT", f) \in Int OBVIOUS
  <2>2. f \in Nat BY EntriesAssumption
  <2>3. (f - 1) \div 2 \in Int BY <2>2
  <2> QED BY <2>3 DEF Data
<1>2. PICK g \in Entries : v = Data("INT", g) BY DEF ScanValues
<1>3. v \in Int /\ d \in Int BY <1>1, <1>2
<1>4. v - d \in Ints BY <1>2, CloseAssumption
<1> HIDE DEF d
<1>5. Wrap(v - d) = v - d
  <2>1. MaxInt \in Nat BY MaxIntAssumption
  <2> QED BY <2>1, <1>3, <1>4 DEF Wrap, Ints
<1>6. Comp("INT", NotNull(v), Cell("INT", e)) = IF e \in NullEntries THEN 1 ELSE v - d
  BY <1>5 DEF Comp, NotNull, Cell, CompData, d
<1> HIDE DEF Comp
<1>7. IsBelow("INT", NotNull(v), e) <=> e \in NullEntries \/ v > d BY <1>3, <1>6 DEF IsBelow
<1> QED BY <1>3, <1>6, <1>7 DEF d

(* Floats: only nulls are below a value.                                   *)
LEMMA FloatsBelow ==
  ASSUME NEW v, NEW e \in Entries
  PROVE  /\ Comp("FLOAT", NotNull(v), Cell("FLOAT", e)) \in Int
         /\ IsBelow("FLOAT", NotNull(v), e) <=> e \in NullEntries
<1>1. Comp("FLOAT", NotNull(v), Cell("FLOAT", e)) = IF e \in NullEntries THEN 1 ELSE 0
  BY DEF Comp, NotNull, Cell, CompData
<1> QED BY <1>1 DEF IsBelow

(* Nothing is below a null.                                                *)
LEMMA NeverBelowNull ==
  ASSUME NEW type, NEW e \in Entries
  PROVE  Comp(type, Null, Cell(type, e)) \in Int /\ ~IsBelow(type, Null, e)
<1>1. Comp(type, Null, Cell(type, e)) = IF e \in NullEntries THEN 0 ELSE -1 BY DEF Comp, Null, Cell
<1> QED BY <1>1 DEF IsBelow

(* The entries below a value or a null come first.                         *)
LEMMA ValuesCut ==
  ASSUME NEW type \in IndexTypes, NEW v \in ScanValues(type)
  PROVE  Cuts(type, NotNull(v))
<1>1. CASE type = "INT"
  <2>1. \A e \in Entries : Comp("INT", NotNull(v), Cell("INT", e)) \in Int BY <1>1, IntsBelow
  <2>2. ASSUME NEW e \in Entries, NEW f \in Entries, e < f, IsBelow("INT", NotNull(v), f)
        PROVE  IsBelow("INT", NotNull(v), e)
    <3>1. CASE e \in NullEntries BY <3>1, <1>1, IntsBelow
    <3>2. CASE e \notin NullEntries
      <4>1. f \notin NullEntries BY <2>2, <3>2, NullsLeast
      <4>2. v > Data("INT", f) /\ v \in Int BY <4>1, <2>2, <1>1, IntsBelow
      <4>3. e \in Nat /\ f \in Nat BY EntriesAssumption
      <4>4. (e - 1) \div 2 <= (f - 1) \div 2 /\ (e - 1) \div 2 \in Int /\ (f - 1) \div 2 \in Int BY <4>3, <2>2
      <4>5. Data("INT", e) = (e - 1) \div 2 /\ Data("INT", f) = (f - 1) \div 2 BY <3>2, <4>1 DEF Data
      <4>6. v > Data("INT", e)
        <5> DEFINE a == (e - 1) \div 2
                   b == (f - 1) \div 2
        <5>1. a <= b /\ a \in Int /\ b \in Int /\ v > b BY <4>2, <4>4, <4>5
        <5> HIDE DEF a, b
        <5>2. v > a BY <5>1, <4>2
        <5> QED BY <5>2, <4>5 DEF a
      <4> QED BY <4>6, <1>1, IntsBelow
    <3> QED BY <3>1, <3>2
  <2> QED BY <2>1, <2>2, <1>1 DEF Cuts
<1>2. CASE type = "FLOAT"
  <2>1. \A e \in Entries : Comp("FLOAT", NotNull(v), Cell("FLOAT", e)) \in Int BY FloatsBelow
  <2>2. ASSUME NEW e \in Entries, NEW f \in Entries, e < f, IsBelow("FLOAT", NotNull(v), f)
        PROVE  IsBelow("FLOAT", NotNull(v), e)
    BY <2>2, FloatsBelow, NullsLeast
  <2> QED BY <2>1, <2>2, <1>2 DEF Cuts
<1> QED BY <1>1, <1>2 DEF IndexTypes

(* A null is above none of them.                                           *)
LEMMA NullCuts ==
  ASSUME NEW type
  PROVE  Cuts(type, Null)
BY NeverBelowNull DEF Cuts

(* What is below the value does not satisfy a condition that begins there. *)
LEMMA BelowFails ==
  ASSUME NEW type \in IndexTypes, NEW v \in ScanValues(type), NEW op \in {"=", ">", ">="},
         NEW e \in Entries \ NullEntries, IsBelow(type, NotNull(v), e)
  PROVE  e \notin Satisfying(type, op, v)
<1>1. type = "INT"
  <2>1. type # "FLOAT" BY FloatsBelow
  <2> QED BY <2>1 DEF IndexTypes
<1> DEFINE d == Data("INT", e)
<1>2. v > d /\ v \in Int /\ d \in Int BY <1>1, IntsBelow
<1> HIDE DEF d
<1>3. ~(v = d) /\ ~(d > v) /\ ~(d >= v) BY <1>2
<1>4. ~Compare(op, d, v) BY <1>3 DEF Compare
<1> QED BY <1>1, <1>4 DEF Satisfying, d

(***************************************************************************)
(* The scans.                                                              *)
(***************************************************************************)

LEMMA TreeLinedUp ==
  ASSUME IInvGrowing, Running
  PROVE  \E N, h, nx, pv, R : LinedUp(tree, N, h, nx, pv, R) /\ HeldIn(tree) = rows /\ rows \subseteq Entries
<1>1. TreeSound(tree, rows, TRUE) /\ rows \subseteq Entries BY DEF IInvGrowing
<1>2. PICK N, h, nx, pv : /\ Good(tree, N, h, nx, pv)
                          /\ Whole(tree, N, rows) /\ InOrderWith(tree, N, nx, rows)
  BY <1>1 DEF TreeSound, Running
<1>3. PICK R : Ordered(tree, N, nx, R) BY <1>2 DEF InOrderWith, OrderedTree
<1>4. HeldIn(tree) = rows BY <1>2 DEF Whole, InOrderWith
<1>5. \A x \in N \ {tree.root} : Size(tree, x) >= 1
  <2>1. N \subseteq Pages /\ tree \in Trees BY <1>2, GoodNodes
  <2>2. \A x \in N \ {tree.root} : Size(tree, x) >= MinItems /\ Size(tree, x) \in Nat
    BY <1>2, <2>1, TreeTypes DEF Whole, OverSized
  <2> QED BY <2>2, MinItemsIs
<1>6. LinedUp(tree, N, h, nx, pv, R) BY <1>2, <1>3, <1>5 DEF LinedUp
<1> QED BY <1>1, <1>4, <1>6

(* A scan with a value returns what the table has.                         *)
LEMMA ScanReturns ==
  ASSUME IInvGrowing, Running, NEW type \in IndexTypes
  PROVE  ScansReturn(type)
<1>1. PICK N, h, nx, pv, R : LinedUp(tree, N, h, nx, pv, R) /\ HeldIn(tree) = rows /\ rows \subseteq Entries
  BY TreeLinedUp
<1>2. SUFFICES ASSUME NEW op \in ScanOps, NEW v \in ScanValues(type), NEW seq, seq = ScanFor(type, tree, op, v)
               PROVE  /\ InOrder(seq)
                      /\ ToSet(seq) \ NullEntries = (rows \cap Satisfying(type, op, v)) \ NullEntries
  BY DEF ScansReturn
<1> DEFINE sat == Satisfying(type, op, v)
           E == EntriesFrom(tree, Start(type, tree, op, NotNull(v)))
<1>3. seq = Returned(E, sat) BY <1>2 DEF ScanFor
<1>4. /\ E \in Seq(Entries) /\ Increasing(E) /\ ToSet(E) \subseteq rows
      /\ \A e \in rows : e \in ToSet(E) \/ e \notin sat \/ e \in NullEntries
  <2>1. CASE op \in {"=", ">", ">="}
    <3>1. E = EntriesFrom(tree, FindFirst(type, tree, NotNull(v))) BY <2>1 DEF Start
    <3> HIDE DEF E
    <3>2. /\ E \in Seq(Entries) /\ Increasing(E) /\ ToSet(E) \subseteq HeldIn(tree)
          /\ \A e \in HeldIn(tree) : e \in ToSet(E) \/ IsBelow(type, NotNull(v), e)
      BY <3>1, <1>1, ValuesCut, FromFindFirst
    <3>3. \A e \in rows : e \notin NullEntries /\ IsBelow(type, NotNull(v), e) => e \notin sat
      BY <1>1, <2>1, BelowFails
    <3> HIDE DEF sat
    <3> QED BY <3>2, <3>3, <1>1
  <2>2. CASE op \notin {"=", ">", ">="}
    <3>1. E = EntriesFrom(tree, FirstLeaf(tree)) BY <2>2 DEF Start
    <3> HIDE DEF E
    <3>2. E \in Seq(Entries) /\ Increasing(E) /\ ToSet(E) = HeldIn(tree) BY <3>1, <1>1, FromFirstLeaf
    <3> QED BY <3>2, <1>1
  <2> QED BY <2>1, <2>2
<1> HIDE DEF E, sat
<1>5. InOrder(seq) /\ ToSet(seq) = ToSet(E) \cap sat
  <2>1. ReturnsThose(seq, E, sat) BY <1>3, <1>4, ReturnedIs
  <2> QED BY <2>1 DEF ReturnsThose
<1>6. ToSet(seq) \ NullEntries = (rows \cap sat) \ NullEntries BY <1>4, <1>5
<1> QED BY <1>5, <1>6 DEF sat

(* A scan for nulls does.                                                  *)
LEMMA NullScanReturns ==
  ASSUME IInvGrowing, Running, NEW type, NEW seq, seq = ScanForNull(type, tree)
  PROVE  InOrder(seq) /\ ToSet(seq) = rows \cap NullEntries
<1>1. PICK N, h, nx, pv, R : LinedUp(tree, N, h, nx, pv, R) /\ HeldIn(tree) = rows /\ rows \subseteq Entries
  BY TreeLinedUp
<1> DEFINE E == EntriesFrom(tree, Start(type, tree, "=", Null))
<1>2. seq = Returned(E, NullEntries) BY DEF ScanForNull
<1>3. E = EntriesFrom(tree, FindFirst(type, tree, Null)) BY DEF Start
<1> HIDE DEF E
<1>4. /\ E \in Seq(Entries) /\ Increasing(E) /\ ToSet(E) \subseteq HeldIn(tree)
      /\ \A e \in HeldIn(tree) : e \in ToSet(E) \/ IsBelow(type, Null, e)
  BY <1>1, <1>3, NullCuts, FromFindFirst
<1>5. ToSet(E) = rows BY <1>1, <1>4, NeverBelowNull
<1>6. ReturnsThose(seq, E, NullEntries) BY <1>2, <1>4, ReturnedIs
<1> QED BY <1>5, <1>6 DEF ReturnsThose

(* The invariant says what the runs check of scans.                        *)
LEMMA GrowingScans ==
  ASSUME IInvGrowing
  PROVE  ScansFind /\ FloatScansFind /\ NullScansFind
<1>1. ScansFind /\ FloatScansFind BY ScanReturns DEF ScansFind, FloatScansFind, IndexTypes
<1>2. NullScansFind BY NullScanReturns DEF NullScansFind
<1> QED BY <1>1, <1>2

(* Whatever entries an index has, comp puts them in an order, which its    *)
(* bisections and its scans rely on.                                       *)
THEOREM ItemsComparableHolds == SpecGrowing => []ItemsComparable
<1>1. ItemsComparable BY ComparisonOrdersEntries DEF ItemsComparable
<1> QED BY <1>1, PTL

(* While entries are only inserted, a scan of an index of ints returns the *)
(* entry of every record that satisfies its condition, once, in order, and *)
(* no other but of nulls: findFirstValue leads to a place before the first *)
(* of them, and the links of the leaves from there to all of them.         *)
THEOREM ScansFindHolds == SpecGrowing => []ScansFind
BY IInvGrowingHolds, GrowingScans, PTL

(* The same of an index of floats, which comp does not compare:            *)
(* findFirstValue passes over nulls alone, and GetNextEntry compares what  *)
(* comes after.                                                            *)
THEOREM FloatScansFindHolds == SpecGrowing => []FloatScansFind
BY IInvGrowingHolds, GrowingScans, PTL

(* While entries are only inserted, a scan for nulls returns the entries   *)
(* of the nulls and no other.                                              *)
THEOREM NullScansFindHolds == SpecGrowing => []NullScansFind
BY IInvGrowingHolds, GrowingScans, PTL

==============================================================================
