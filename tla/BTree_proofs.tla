---------------------------- MODULE BTree_proofs -----------------------------
(***************************************************************************)
(* The invariants of BTree, for every set of entries, limit of items in a  *)
(* node and size of the file, and any insertions and deletions.            *)
(***************************************************************************)
EXTENDS BTreeSteps_proofs

(***************************************************************************)
(* The searches in a node.                                                 *)
(***************************************************************************)

Middle(l, r) == (l + r - 2) \div 2 + 1

(* The middle is between the ends.                                         *)
LEMMA MiddleIs ==
  ASSUME NEW l \in Nat, NEW r \in Nat, l >= 1, l <= r
  PROVE  Middle(l, r) \in l .. r /\ (l < r => Middle(l, r) < r)
BY DEF Middle

LowStep(low, K, last) ==
  \A l \in 1 .. K + 1, r \in 0 .. K :
    last[<<l, r>>] = IF l > r THEN l - 1
                     ELSE IF low[Middle(l, r)] THEN last[<<Middle(l, r) + 1, r>>]
                     ELSE last[<<l, Middle(l, r) - 1>>]

(* The bisection is what its recursion says.                               *)
LEMMA LowBisectionRuns ==
  ASSUME NEW low, Len(low) \in Nat
  PROVE  LowStep(low, Len(low), LowBisection(low))
<1> DEFINE K == Len(low)
           S == (1 .. K + 1) \X (0 .. K)
           X == 0 .. K
           M(i) == (i[1] + i[2] - 2) \div 2 + 1
           F(f) == [i \in S |-> IF i[1] > i[2] THEN i[1] - 1
                                ELSE IF low[M(i)] THEN f[<<M(i) + 1, i[2]>>] ELSE f[<<i[1], M(i) - 1>>]]
           G == [x \in S \X [S -> X] |->
                  IF x[1][1] > x[1][2] THEN x[1][1] - 1
                  ELSE IF low[M(x[1])] THEN x[2][<<M(x[1]) + 1, x[1][2]>>]
                  ELSE x[2][<<x[1][1], M(x[1]) - 1>>]]
           h == [i \in S |-> IF i[1] > i[2] THEN 0 ELSE i[2] + 1 - i[1]]
<1>k. K \in Nat OBVIOUS
<1>0. LowBisection(low) = CHOOSE f : f = F(f) BY DEF LowBisection
<1> HIDE DEF K
<1>m. \A i \in S : i[1] <= i[2] =>
        /\ <<M(i) + 1, i[2]>> \in S /\ <<i[1], M(i) - 1>> \in S
        /\ h[<<M(i) + 1, i[2]>>] < h[i] /\ h[<<i[1], M(i) - 1>>] < h[i]
  <2>1. SUFFICES ASSUME NEW i \in S, i[1] <= i[2]
                 PROVE  /\ <<M(i) + 1, i[2]>> \in S /\ <<i[1], M(i) - 1>> \in S
                        /\ h[<<M(i) + 1, i[2]>>] < h[i] /\ h[<<i[1], M(i) - 1>>] < h[i]
    OBVIOUS
  <2>2. i[1] \in Nat /\ i[2] \in Nat /\ i[1] >= 1 /\ i[2] <= K BY <1>k
  <2>3. M(i) \in i[1] .. i[2] BY <2>1, <2>2, MiddleIs DEF Middle
  <2> HIDE DEF M
  <2>4. <<M(i) + 1, i[2]>> \in S /\ <<i[1], M(i) - 1>> \in S BY <2>2, <2>3, <1>k
  <2>5. h[i] = i[2] + 1 - i[1] BY <2>1, <2>2
  <2>6. h[<<M(i) + 1, i[2]>>] = IF M(i) + 1 > i[2] THEN 0 ELSE i[2] + 1 - (M(i) + 1) BY <2>4
  <2>7. h[<<i[1], M(i) - 1>>] = IF i[1] > M(i) - 1 THEN 0 ELSE (M(i) - 1) + 1 - i[1] BY <2>4
  <2> QED BY <2>1, <2>2, <2>3, <2>4, <2>5, <2>6, <2>7
<1> HIDE DEF M
<1>h. h \in [S -> 0 .. K]
  <2>1. \A i \in S : (IF i[1] > i[2] THEN 0 ELSE i[2] + 1 - i[1]) \in 0 .. K BY <1>k
  <2> QED BY <2>1
<1> HIDE DEF h
<1>1. G \in [S \X [S -> X] -> X]
  <2>1. SUFFICES ASSUME NEW i \in S, NEW f \in [S -> X]
                 PROVE  (IF i[1] > i[2] THEN i[1] - 1
                         ELSE IF low[M(i)] THEN f[<<M(i) + 1, i[2]>>] ELSE f[<<i[1], M(i) - 1>>]) \in X
    OBVIOUS
  <2>2. i[1] - 1 \in X BY <1>k
  <2>3. i[1] \in Nat /\ i[2] \in Nat BY <1>k
  <2>4. CASE i[1] > i[2] BY <2>2, <2>4
  <2>5. CASE ~(i[1] > i[2])
    <3>0. i[1] <= i[2] BY <2>3, <2>5
    <3>1. <<M(i) + 1, i[2]>> \in S /\ <<i[1], M(i) - 1>> \in S BY <3>0, <1>m
    <3> QED BY <3>1, <2>5
  <2> QED BY <2>4, <2>5
<1>2. \A v \in S : \A f, g \in [S -> X] :
        (\A w \in S : h[w] < h[v] => f[w] = g[w]) => G[<<v, f>>] = G[<<v, g>>]
  <2>1. SUFFICES ASSUME NEW v \in S, NEW f \in [S -> X], NEW g \in [S -> X],
                        \A w \in S : h[w] < h[v] => f[w] = g[w]
                 PROVE  G[<<v, f>>] = G[<<v, g>>]
    OBVIOUS
  <2>2. v[1] \in Nat /\ v[2] \in Nat BY <1>k
  <2>3. CASE v[1] > v[2] BY <2>3
  <2>4. CASE ~(v[1] > v[2])
    <3>0. v[1] <= v[2] BY <2>2, <2>4
    <3>1. /\ <<M(v) + 1, v[2]>> \in S /\ <<v[1], M(v) - 1>> \in S
          /\ h[<<M(v) + 1, v[2]>>] < h[v] /\ h[<<v[1], M(v) - 1>>] < h[v]
      BY <3>0, <1>m
    <3>2. /\ f[<<M(v) + 1, v[2]>>] = g[<<M(v) + 1, v[2]>>]
          /\ f[<<v[1], M(v) - 1>>] = g[<<v[1], M(v) - 1>>]
      BY <3>1, <2>1
    <3> QED BY <3>2, <2>4
  <2> QED BY <2>3, <2>4
<1>3. PICK f \in [S -> X] : \A v \in S : f[v] = G[<<v, f>>]
  <2>1. X # {} BY <1>k
  <2> HIDE DEF G, X, S
  <2>2. IsRecursion(S, X, K, h, G) BY <1>h, <1>k, <1>1, <1>2, <2>1 DEF IsRecursion
  <2> QED BY <2>2, RecursionExists
<1>4. f = F(f)
  <2>1. \A v \in S : f[v] = IF v[1] > v[2] THEN v[1] - 1
                            ELSE IF low[M(v)] THEN f[<<M(v) + 1, v[2]>>] ELSE f[<<v[1], M(v) - 1>>]
    BY <1>3
  <2> QED BY <2>1
<1>5. LowBisection(low) = F(LowBisection(low))
  <2> HIDE DEF F
  <2> QED BY <1>0, <1>4
<1>6. \A i \in S : LowBisection(low)[i] = IF i[1] > i[2] THEN i[1] - 1
                            ELSE IF low[M(i)] THEN LowBisection(low)[<<M(i) + 1, i[2]>>]
                            ELSE LowBisection(low)[<<i[1], M(i) - 1>>]
  <2> DEFINE L == LowBisection(low)
  <2>1. L = F(L) BY <1>5
  <2> HIDE DEF L
  <2> QED BY <2>1 DEF L
<1> DEFINE L == LowBisection(low)
<1>7. \A i \in S : L[i] = IF i[1] > i[2] THEN i[1] - 1
                          ELSE IF low[M(i)] THEN L[<<M(i) + 1, i[2]>>] ELSE L[<<i[1], M(i) - 1>>]
  BY <1>6
<1> HIDE DEF L
<1>8. LowStep(low, K, L)
  <2>1. SUFFICES ASSUME NEW l \in 1 .. K + 1, NEW r \in 0 .. K
                 PROVE  L[<<l, r>>] = IF l > r THEN l - 1
                                      ELSE IF low[Middle(l, r)] THEN L[<<Middle(l, r) + 1, r>>]
                                      ELSE L[<<l, Middle(l, r) - 1>>]
    BY DEF LowStep
  <2> DEFINE i == <<l, r>>
  <2>2. i \in S /\ i[1] = l /\ i[2] = r OBVIOUS
  <2>3. M(i) = Middle(l, r) BY DEF M, Middle
  <2> HIDE DEF i, S
  <2>4. L[i] = IF l > r THEN l - 1 ELSE IF low[Middle(l, r)] THEN L[<<Middle(l, r) + 1, r>>]
               ELSE L[<<l, Middle(l, r) - 1>>]
    BY <2>2, <2>3, <1>7
  <2> QED BY <2>4 DEF i
<1> QED BY <1>8 DEF K, L

(* The place the bisection answers is one of those searched or the one     *)
(* before, and it tells low from high when the low places come first.      *)
LowUpTo(low, l, r, k) ==
  /\ k \in l - 1 .. r
  /\ (\A i, j \in l .. r : i < j /\ low[j] => low[i]) => \A i \in l .. r : low[i] <=> i <= k

(* By induction over the number of places.                                 *)
LEMMA LowFound ==
  ASSUME NEW low, Len(low) \in Nat, NEW l \in 1 .. Len(low) + 1, NEW r \in 0 .. Len(low), l <= r + 1
  PROVE  LowUpTo(low, l, r, LowBisection(low)[<<l, r>>])
<1> DEFINE K == Len(low)
           L == LowBisection(low)
           P(d) == \A a \in 1 .. K + 1, b \in 0 .. K :
                     a <= b + 1 /\ b + 1 - a <= d => LowUpTo(low, a, b, L[<<a, b>>])
           T == {d \in Nat : P(d)}
<1>k. K \in Nat OBVIOUS
<1>s. LowStep(low, K, L) BY LowBisectionRuns
<1> HIDE DEF K, L
<1>1. 0 \in T
  <2>1. SUFFICES ASSUME NEW a \in 1 .. K + 1, NEW b \in 0 .. K, a <= b + 1, b + 1 - a <= 0
                 PROVE  LowUpTo(low, a, b, L[<<a, b>>])
    OBVIOUS
  <2>2. a > b /\ a - 1 = b /\ a \in Nat /\ b \in Nat BY <2>1, <1>k
  <2>3. L[<<a, b>>] = a - 1 BY <2>2, <1>s DEF LowStep
  <2>4. a .. b = {} /\ a - 1 \in a - 1 .. b BY <2>2
  <2> QED BY <2>3, <2>4 DEF LowUpTo
<1>2. ASSUME NEW d \in Nat, P(d) PROVE P(d + 1)
  <2>1. SUFFICES ASSUME NEW a \in 1 .. K + 1, NEW b \in 0 .. K, a <= b + 1, b + 1 - a <= d + 1
                 PROVE  LowUpTo(low, a, b, L[<<a, b>>])
    OBVIOUS
  <2>2. CASE a > b
    <3>2. a - 1 = b /\ a \in Nat /\ b \in Nat BY <2>1, <2>2, <1>k
    <3>3. L[<<a, b>>] = a - 1 BY <2>2, <1>s DEF LowStep
    <3>4. a .. b = {} /\ a - 1 \in a - 1 .. b BY <3>2
    <3> QED BY <3>3, <3>4 DEF LowUpTo
  <2>3. CASE ~(a > b)
    <3> DEFINE m == Middle(a, b)
    <3>1. a \in Nat /\ b \in Nat /\ a >= 1 /\ a <= b /\ b <= K BY <2>1, <2>3, <1>k
    <3>2. m \in a .. b BY <3>1, MiddleIs
    <3>3. L[<<a, b>>] = IF low[m] THEN L[<<m + 1, b>>] ELSE L[<<a, m - 1>>]
      BY <2>3, <1>s DEF LowStep
    <3> HIDE DEF m
    <3>4. m \in Nat /\ a <= m /\ m <= b BY <3>1, <3>2
    <3>5. LowUpTo(low, m + 1, b, L[<<m + 1, b>>])
      <4>1. m + 1 \in 1 .. K + 1 /\ m + 1 <= b + 1 /\ b + 1 - (m + 1) <= d BY <3>1, <3>4, <2>1, <1>k
      <4> QED BY <4>1, <1>2
    <3>6. LowUpTo(low, a, m - 1, L[<<a, m - 1>>])
      <4>1. m - 1 \in 0 .. K /\ a <= (m - 1) + 1 /\ (m - 1) + 1 - a <= d BY <3>1, <3>4, <2>1, <1>k
      <4> QED BY <4>1, <1>2
    <3>7. CASE low[m]
      <4> DEFINE k == L[<<m + 1, b>>]
      <4>1. L[<<a, b>>] = k BY <3>3, <3>7
      <4>2. LowUpTo(low, m + 1, b, k) BY <3>5
      <4> HIDE DEF k
      <4>3. k \in m .. b
        <5>1. k \in (m + 1) - 1 .. b BY <4>2 DEF LowUpTo
        <5> QED BY <5>1, <3>4
      <4>4. ASSUME \A i, j \in a .. b : i < j /\ low[j] => low[i]
            PROVE  \A i \in a .. b : low[i] <=> i <= k
        <5>1. \A i \in m + 1 .. b : i \in a .. b BY <3>1, <3>4
        <5>2. \A i, j \in m + 1 .. b : i < j /\ low[j] => low[i] BY <4>4, <5>1
        <5>3. \A i \in m + 1 .. b : low[i] <=> i <= k BY <4>2, <5>2 DEF LowUpTo
        <5>4. m \in a .. b BY <3>1, <3>4
        <5>5. SUFFICES ASSUME NEW i \in a .. b PROVE low[i] <=> i <= k OBVIOUS
        <5>6. CASE i <= m
          <6>1. low[i] \/ i = m BY <5>4, <5>6, <4>4, <3>7, <3>4
          <6>2. i <= k BY <5>6, <4>3, <3>4
          <6> QED BY <6>1, <6>2, <3>7
        <5>7. CASE i > m
          <6>1. i \in m + 1 .. b BY <5>7, <3>4
          <6> QED BY <6>1, <5>3
        <5> QED BY <5>6, <5>7, <3>4
      <4>5. k \in a - 1 .. b BY <4>3, <3>1, <3>4
      <4> QED BY <4>1, <4>4, <4>5 DEF LowUpTo
    <3>8. CASE ~low[m]
      <4> DEFINE k == L[<<a, m - 1>>]
      <4>1. L[<<a, b>>] = k BY <3>3, <3>8
      <4>2. LowUpTo(low, a, m - 1, k) BY <3>6
      <4> HIDE DEF k
      <4>3. k \in a - 1 .. m - 1 BY <4>2 DEF LowUpTo
      <4>4. ASSUME \A i, j \in a .. b : i < j /\ low[j] => low[i]
            PROVE  \A i \in a .. b : low[i] <=> i <= k
        <5>1. \A i \in a .. m - 1 : i \in a .. b BY <3>1, <3>4
        <5>2. \A i, j \in a .. m - 1 : i < j /\ low[j] => low[i] BY <4>4, <5>1
        <5>3. \A i \in a .. m - 1 : low[i] <=> i <= k BY <4>2, <5>2 DEF LowUpTo
        <5>4. m \in a .. b BY <3>1, <3>4
        <5>5. SUFFICES ASSUME NEW i \in a .. b PROVE low[i] <=> i <= k OBVIOUS
        <5>6. CASE i >= m
          <6>1. ~low[i]
            <7>1. CASE i = m BY <7>1, <3>8
            <7>2. CASE i # m
              <8>1. m < i BY <7>2, <5>6, <3>4
              <8> QED BY <8>1, <5>4, <4>4, <3>8
            <7> QED BY <7>1, <7>2
          <6>2. ~(i <= k) BY <5>6, <4>3, <3>4
          <6> QED BY <6>1, <6>2
        <5>7. CASE ~(i >= m)
          <6>1. i \in a .. m - 1 BY <5>7, <3>4
          <6> QED BY <6>1, <5>3
        <5> QED BY <5>6, <5>7
      <4>5. k \in a - 1 .. b BY <4>3, <3>1, <3>4
      <4> QED BY <4>1, <4>4, <4>5 DEF LowUpTo
    <3> QED BY <3>7, <3>8
  <2> QED BY <2>2, <2>3
<1>3. T = Nat
  <2> HIDE DEF P
  <2>1. T \in SUBSET Nat /\ \A d \in T : d + 1 \in T BY <1>2
  <2> HIDE DEF T
  <2> QED BY <1>1, <2>1, Induction
<1>4. r + 1 - l \in Nat BY <1>k DEF K
<1>5. P(r + 1 - l) BY <1>3, <1>4
<1>6. LowUpTo(low, l, r, L[<<l, r>>])
  <2>1. r + 1 - l <= r + 1 - l BY <1>4
  <2>2. l \in 1 .. K + 1 /\ r \in 0 .. K BY DEF K
  <2> QED BY <1>5, <2>1, <2>2
<1> QED BY <1>6 DEF L

LeafStep(items, e, K, first) ==
  \A l, r \in 1 .. K :
    first[<<l, r>>] = IF l >= r THEN l
                      ELSE IF e <= items[Middle(l, r)] THEN first[<<l, Middle(l, r)>>]
                      ELSE first[<<Middle(l, r) + 1, r>>]

(* The other bisection is what its recursion says.                         *)
LEMMA LeafBisectionRuns ==
  ASSUME NEW items, NEW e, Len(items) \in Nat, Len(items) >= 1
  PROVE  LeafStep(items, e, Len(items), LeafBisection(items, e))
<1> DEFINE K == Len(items)
           S == (1 .. K) \X (1 .. K)
           X == 1 .. K
           M(i) == (i[1] + i[2] - 2) \div 2 + 1
           F(f) == [i \in S |-> IF i[1] >= i[2] THEN i[1]
                                ELSE IF e <= items[M(i)] THEN f[<<i[1], M(i)>>] ELSE f[<<M(i) + 1, i[2]>>]]
           G == [x \in S \X [S -> X] |->
                  IF x[1][1] >= x[1][2] THEN x[1][1]
                  ELSE IF e <= items[M(x[1])] THEN x[2][<<x[1][1], M(x[1])>>]
                  ELSE x[2][<<M(x[1]) + 1, x[1][2]>>]]
           h == [i \in S |-> IF i[1] >= i[2] THEN 0 ELSE i[2] - i[1]]
<1>k. K \in Nat /\ K >= 1 OBVIOUS
<1>0. LeafBisection(items, e) = CHOOSE f : f = F(f)
  <2>1. LeafBisection(items, e)
          = CHOOSE f : f = [i \in S |-> IF i[1] >= i[2] THEN i[1]
                              ELSE IF e <= items[M(i)] THEN f[<<i[1], M(i)>>] ELSE f[<<M(i) + 1, i[2]>>]]
    BY Zenon DEF LeafBisection
  <2> QED BY <2>1
<1> HIDE DEF K
<1>m. \A i \in S : i[1] < i[2] =>
        /\ <<M(i) + 1, i[2]>> \in S /\ <<i[1], M(i)>> \in S
        /\ h[<<M(i) + 1, i[2]>>] < h[i] /\ h[<<i[1], M(i)>>] < h[i]
  <2>1. SUFFICES ASSUME NEW i \in S, i[1] < i[2]
                 PROVE  /\ <<M(i) + 1, i[2]>> \in S /\ <<i[1], M(i)>> \in S
                        /\ h[<<M(i) + 1, i[2]>>] < h[i] /\ h[<<i[1], M(i)>>] < h[i]
    OBVIOUS
  <2>2. i[1] \in Nat /\ i[2] \in Nat /\ i[1] >= 1 /\ i[2] <= K BY <1>k
  <2>3. M(i) \in i[1] .. i[2] /\ M(i) < i[2] BY <2>1, <2>2, MiddleIs DEF Middle
  <2> HIDE DEF M
  <2>4. <<M(i) + 1, i[2]>> \in S /\ <<i[1], M(i)>> \in S BY <2>2, <2>3, <1>k
  <2>5. h[i] = i[2] - i[1] BY <2>1, <2>2
  <2>6. h[<<M(i) + 1, i[2]>>] = IF M(i) + 1 >= i[2] THEN 0 ELSE i[2] - (M(i) + 1) BY <2>4
  <2>7. h[<<i[1], M(i)>>] = IF i[1] >= M(i) THEN 0 ELSE M(i) - i[1] BY <2>4
  <2> QED BY <2>1, <2>2, <2>3, <2>4, <2>5, <2>6, <2>7
<1> HIDE DEF M
<1>h. h \in [S -> 0 .. K]
  <2>1. \A i \in S : (IF i[1] >= i[2] THEN 0 ELSE i[2] - i[1]) \in 0 .. K BY <1>k
  <2> QED BY <2>1
<1> HIDE DEF h
<1>1. G \in [S \X [S -> X] -> X]
  <2>1. SUFFICES ASSUME NEW i \in S, NEW f \in [S -> X]
                 PROVE  (IF i[1] >= i[2] THEN i[1]
                         ELSE IF e <= items[M(i)] THEN f[<<i[1], M(i)>>] ELSE f[<<M(i) + 1, i[2]>>]) \in X
    OBVIOUS
  <2>2. i[1] \in X BY <1>k
  <2>3. i[1] \in Nat /\ i[2] \in Nat BY <1>k
  <2>4. CASE i[1] >= i[2] BY <2>2, <2>4
  <2>5. CASE ~(i[1] >= i[2])
    <3>0. i[1] < i[2] BY <2>3, <2>5
    <3>1. <<M(i) + 1, i[2]>> \in S /\ <<i[1], M(i)>> \in S BY <3>0, <1>m
    <3> QED BY <3>1, <2>5
  <2> QED BY <2>4, <2>5
<1>2. \A v \in S : \A f, g \in [S -> X] :
        (\A w \in S : h[w] < h[v] => f[w] = g[w]) => G[<<v, f>>] = G[<<v, g>>]
  <2>1. SUFFICES ASSUME NEW v \in S, NEW f \in [S -> X], NEW g \in [S -> X],
                        \A w \in S : h[w] < h[v] => f[w] = g[w]
                 PROVE  G[<<v, f>>] = G[<<v, g>>]
    OBVIOUS
  <2>2. v[1] \in Nat /\ v[2] \in Nat BY <1>k
  <2>3. CASE v[1] >= v[2] BY <2>3
  <2>4. CASE ~(v[1] >= v[2])
    <3>0. v[1] < v[2] BY <2>2, <2>4
    <3>1. /\ <<M(v) + 1, v[2]>> \in S /\ <<v[1], M(v)>> \in S
          /\ h[<<M(v) + 1, v[2]>>] < h[v] /\ h[<<v[1], M(v)>>] < h[v]
      BY <3>0, <1>m
    <3>2. /\ f[<<M(v) + 1, v[2]>>] = g[<<M(v) + 1, v[2]>>]
          /\ f[<<v[1], M(v)>>] = g[<<v[1], M(v)>>]
      BY <3>1, <2>1
    <3> QED BY <3>2, <2>4
  <2> QED BY <2>3, <2>4
<1>3. PICK f \in [S -> X] : \A v \in S : f[v] = G[<<v, f>>]
  <2>1. X # {} BY <1>k
  <2> HIDE DEF G, X, S
  <2>2. IsRecursion(S, X, K, h, G) BY <1>h, <1>k, <1>1, <1>2, <2>1 DEF IsRecursion
  <2> QED BY <2>2, RecursionExists
<1>4. f = F(f)
  <2>1. \A v \in S : f[v] = IF v[1] >= v[2] THEN v[1]
                            ELSE IF e <= items[M(v)] THEN f[<<v[1], M(v)>>] ELSE f[<<M(v) + 1, v[2]>>]
    BY <1>3
  <2> QED BY <2>1
<1> DEFINE L == LeafBisection(items, e)
<1>5. L = F(L)
  <2> HIDE DEF F
  <2> QED BY <1>0, <1>4
<1> HIDE DEF L
<1>7. \A i \in S : L[i] = IF i[1] >= i[2] THEN i[1]
                          ELSE IF e <= items[M(i)] THEN L[<<i[1], M(i)>>] ELSE L[<<M(i) + 1, i[2]>>]
  BY <1>5
<1>8. LeafStep(items, e, K, L)
  <2>1. SUFFICES ASSUME NEW l \in 1 .. K, NEW r \in 1 .. K
                 PROVE  L[<<l, r>>] = IF l >= r THEN l
                                      ELSE IF e <= items[Middle(l, r)] THEN L[<<l, Middle(l, r)>>]
                                      ELSE L[<<Middle(l, r) + 1, r>>]
    BY DEF LeafStep
  <2> DEFINE i == <<l, r>>
  <2>2. i \in S /\ i[1] = l /\ i[2] = r OBVIOUS
  <2>3. M(i) = Middle(l, r) BY DEF M, Middle
  <2> HIDE DEF i, S
  <2>4. L[i] = IF l >= r THEN l ELSE IF e <= items[Middle(l, r)] THEN L[<<l, Middle(l, r)>>]
               ELSE L[<<Middle(l, r) + 1, r>>]
    BY <2>2, <2>3, <1>7
  <2> QED BY <2>4 DEF i
<1> QED BY <1>8 DEF K, L

(* The place the bisection answers is one of those searched, and it tells  *)
(* those below e from the others when the items are in order.              *)
NotBelowFrom(items, e, l, r, k) ==
  /\ k \in l .. r
  /\ (\A i, j \in l .. r : i < j /\ e <= items[i] => e <= items[j]) /\ e <= items[r]
       => \A i \in l .. r : e <= items[i] <=> i >= k

(* By induction over the number of places.                                 *)
LEMMA NotBelowFound ==
  ASSUME NEW items, NEW e, Len(items) \in Nat, NEW l \in 1 .. Len(items), NEW r \in 1 .. Len(items), l <= r
  PROVE  NotBelowFrom(items, e, l, r, LeafBisection(items, e)[<<l, r>>])
<1> DEFINE K == Len(items)
           L == LeafBisection(items, e)
           P(d) == \A a, b \in 1 .. K : a <= b /\ b - a <= d => NotBelowFrom(items, e, a, b, L[<<a, b>>])
           T == {d \in Nat : P(d)}
<1>k. K \in Nat /\ K >= 1 OBVIOUS
<1>s. LeafStep(items, e, K, L) BY <1>k, LeafBisectionRuns
<1> HIDE DEF K, L
<1>0. ASSUME NEW a \in 1 .. K, NEW b \in 1 .. K, a = b
      PROVE  NotBelowFrom(items, e, a, b, L[<<a, b>>])
  <2>1. a \in Nat /\ a >= b BY <1>0, <1>k
  <2>2. L[<<a, b>>] = a BY <2>1, <1>s DEF LeafStep
  <2>3. \A i \in a .. b : i = a /\ i >= a BY <2>1, <1>0
  <2>4. a \in a .. b BY <2>1, <1>0
  <2> HIDE DEF L
  <2> QED BY <2>2, <2>3, <2>4, <1>0 DEF NotBelowFrom
<1>1. 0 \in T
  <2>1. SUFFICES ASSUME NEW a \in 1 .. K, NEW b \in 1 .. K, a <= b, b - a <= 0
                 PROVE  NotBelowFrom(items, e, a, b, L[<<a, b>>])
    OBVIOUS
  <2>2. a = b BY <2>1, <1>k
  <2> QED BY <2>2, <1>0
<1>2. ASSUME NEW d \in Nat, P(d) PROVE P(d + 1)
  <2>1. SUFFICES ASSUME NEW a \in 1 .. K, NEW b \in 1 .. K, a <= b, b - a <= d + 1
                 PROVE  NotBelowFrom(items, e, a, b, L[<<a, b>>])
    OBVIOUS
  <2>2. CASE a = b BY <2>2, <1>0
  <2>3. CASE a # b
    <3> DEFINE m == Middle(a, b)
    <3>1. a \in Nat /\ b \in Nat /\ a >= 1 /\ a < b /\ b <= K BY <2>1, <2>3, <1>k
    <3>2. m \in a .. b /\ m < b BY <3>1, MiddleIs
    <3>3. L[<<a, b>>] = IF e <= items[m] THEN L[<<a, m>>] ELSE L[<<m + 1, b>>]
      BY <3>1, <1>s DEF LeafStep
    <3> HIDE DEF m
    <3>4. m \in Nat /\ a <= m /\ m < b BY <3>1, <3>2
    <3>5. NotBelowFrom(items, e, a, m, L[<<a, m>>])
      <4>1. m \in 1 .. K /\ a <= m /\ m - a <= d BY <3>1, <3>4, <2>1, <1>k
      <4> QED BY <4>1, <1>2
    <3>6. NotBelowFrom(items, e, m + 1, b, L[<<m + 1, b>>])
      <4>1. m + 1 \in 1 .. K /\ m + 1 <= b /\ b - (m + 1) <= d BY <3>1, <3>4, <2>1, <1>k
      <4> QED BY <4>1, <1>2
    <3>7. CASE e <= items[m]
      <4> DEFINE k == L[<<a, m>>]
      <4>1. L[<<a, b>>] = k BY <3>3, <3>7
      <4>2. NotBelowFrom(items, e, a, m, k) BY <3>5
      <4> HIDE DEF k
      <4>3. k \in a .. m BY <4>2 DEF NotBelowFrom
      <4>4. ASSUME \A i, j \in a .. b : i < j /\ e <= items[i] => e <= items[j]
            PROVE  \A i \in a .. b : e <= items[i] <=> i >= k
        <5>1. \A i \in a .. m : i \in a .. b BY <3>1, <3>4
        <5>2. \A i, j \in a .. m : i < j /\ e <= items[i] => e <= items[j] BY <4>4, <5>1
        <5>3. \A i \in a .. m : e <= items[i] <=> i >= k BY <4>2, <5>2, <3>7 DEF NotBelowFrom
        <5>4. m \in a .. b BY <3>1, <3>4
        <5>5. SUFFICES ASSUME NEW i \in a .. b PROVE e <= items[i] <=> i >= k OBVIOUS
        <5>6. CASE i > m
          <6>1. m < i BY <5>6, <3>4
          <6>2. e <= items[i] BY <6>1, <5>4, <4>4, <3>7
          <6>3. i >= k BY <5>6, <4>3, <3>4
          <6> QED BY <6>2, <6>3
        <5>7. CASE ~(i > m)
          <6>1. i \in a .. m BY <5>7, <3>4
          <6> QED BY <6>1, <5>3
        <5> QED BY <5>6, <5>7
      <4>5. k \in a .. b BY <4>3, <3>1, <3>4
      <4> QED BY <4>1, <4>4, <4>5 DEF NotBelowFrom
    <3>8. CASE ~(e <= items[m])
      <4> DEFINE k == L[<<m + 1, b>>]
      <4>1. L[<<a, b>>] = k BY <3>3, <3>8
      <4>2. NotBelowFrom(items, e, m + 1, b, k) BY <3>6
      <4> HIDE DEF k
      <4>3. k \in m + 1 .. b BY <4>2 DEF NotBelowFrom
      <4>4. ASSUME \A i, j \in a .. b : i < j /\ e <= items[i] => e <= items[j], e <= items[b]
            PROVE  \A i \in a .. b : e <= items[i] <=> i >= k
        <5>1. \A i \in m + 1 .. b : i \in a .. b BY <3>1, <3>4
        <5>2. \A i, j \in m + 1 .. b : i < j /\ e <= items[i] => e <= items[j] BY <4>4, <5>1
        <5>3. \A i \in m + 1 .. b : e <= items[i] <=> i >= k BY <4>2, <4>4, <5>2 DEF NotBelowFrom
        <5>4. m \in a .. b BY <3>1, <3>4
        <5>5. SUFFICES ASSUME NEW i \in a .. b PROVE e <= items[i] <=> i >= k OBVIOUS
        <5>6. CASE i <= m
          <6>1. ~(e <= items[i])
            <7>1. CASE i = m BY <7>1, <3>8
            <7>2. CASE i # m
              <8>1. i < m BY <7>2, <5>6, <3>4
              <8> QED BY <8>1, <5>4, <4>4, <3>8
            <7> QED BY <7>1, <7>2
          <6>2. ~(i >= k) BY <5>6, <4>3, <3>4
          <6> QED BY <6>1, <6>2
        <5>7. CASE ~(i <= m)
          <6>1. i \in m + 1 .. b BY <5>7, <3>4
          <6> QED BY <6>1, <5>3
        <5> QED BY <5>6, <5>7
      <4>5. k \in a .. b BY <4>3, <3>1, <3>4
      <4> QED BY <4>1, <4>4, <4>5 DEF NotBelowFrom
    <3> QED BY <3>7, <3>8
  <2> QED BY <2>2, <2>3
<1>3. T = Nat
  <2> HIDE DEF P
  <2>1. T \in SUBSET Nat /\ \A d \in T : d + 1 \in T BY <1>2
  <2> HIDE DEF T
  <2> QED BY <1>1, <2>1, Induction
<1>4. r - l \in Nat BY <1>k DEF K
<1>5. P(r - l) BY <1>3, <1>4
<1>6. NotBelowFrom(items, e, l, r, L[<<l, r>>])
  <2>1. r - l <= r - l BY <1>4
  <2>2. l \in 1 .. K /\ r \in 1 .. K BY DEF K
  <2> QED BY <1>5, <2>1, <2>2
<1> QED BY <1>6 DEF L

(***************************************************************************)
(* The places of the children and the items.                               *)
(***************************************************************************)
(* The items are in order from place k on.                                 *)
SortedFrom(items, k) == \A i, j \in k .. Len(items) : i < j => items[i] <= items[j]

(* The child a search goes to.                                             *)
ChildPlace(items, e, k) ==
  /\ k \in 1 .. Len(items)
  /\ SortedFrom(items, 2) => \A i \in 2 .. Len(items) : items[i] <= e <=> i <= k

(* A range of numbers determines its end.                                  *)
LEMMA SameRange ==
  ASSUME NEW a \in Nat, NEW b \in Nat, 1 .. a = 1 .. b
  PROVE  a = b
<1>1. CASE a < b
  <2>1. b \in 1 .. b /\ b \notin 1 .. a BY <1>1
  <2> QED BY <2>1
<1>2. CASE b < a
  <2>1. a \in 1 .. a /\ a \notin 1 .. b BY <1>2
  <2> QED BY <2>1
<1> QED BY <1>1, <1>2

(* search in an inner node.                                                *)
LEMMA ChildRankIs ==
  ASSUME NEW items \in Seq(Nat), Len(items) >= 1, NEW e \in Nat
  PROVE  ChildPlace(items, e, ChildRank(items, e))
<1> DEFINE n == Len(items)
           low == [i \in DOMAIN items |-> items[i] <= e]
           k == ChildRank(items, e)
<1>1. n \in Nat /\ n >= 1 /\ DOMAIN items = 1 .. n /\ \A i \in 1 .. n : items[i] \in Nat
  BY LenProperties, ElementOfSeq
<1>2. CASE n <= 1
  <2>1. n = 1 /\ k = 1 BY <1>1, <1>2 DEF ChildRank
  <2>2. 2 .. n = {} /\ 1 \in 1 .. n BY <2>1
  <2> QED BY <2>1, <2>2 DEF ChildPlace
<1>3. CASE n > 1 /\ e >= items[n]
  <2>1. k = n BY <1>1, <1>3 DEF ChildRank
  <2>2. SortedFrom(items, 2) => \A i \in 2 .. n : items[i] <= e
    <3>1. SUFFICES ASSUME SortedFrom(items, 2), NEW i \in 2 .. n PROVE items[i] <= e OBVIOUS
    <3>2. i \in 1 .. n /\ n \in 1 .. n BY <1>1
    <3>3. items[i] <= items[n]
      <4>1. CASE i = n BY <4>1, <3>2, <1>1
      <4>2. CASE i # n
        <5>0. n \in Nat BY <1>1
        <5> HIDE DEF n
        <5>1. i < n /\ n \in 2 .. n BY <4>2, <5>0, <3>1
        <5> QED BY <5>1, <3>1, <3>2 DEF SortedFrom, n
      <4> QED BY <4>1, <4>2
    <3>4. items[i] \in Nat /\ items[n] \in Nat BY <3>2, <1>1
    <3> QED BY <3>3, <3>4, <1>3
  <2> QED BY <2>1, <2>2, <1>1 DEF ChildPlace
<1>4. CASE n > 1 /\ ~(e >= items[n])
  <2>1. k = BisectLow(low, 2) BY <1>1, <1>4 DEF ChildRank
  <2>2. Len(low) = n /\ \A i \in 1 .. n : low[i] <=> items[i] <= e
    <3>1. low = [i \in 1 .. n |-> items[i] <= e] BY <1>1
    <3>2. low \in Seq(BOOLEAN)
      <4>1. low \in [1 .. n -> BOOLEAN]
        <5>1. \A i \in 1 .. n : (items[i] <= e) \in BOOLEAN BY <1>1
        <5> QED BY <5>1, <3>1
      <4> QED BY <4>1, <1>1
    <3>3. Len(low) \in Nat /\ DOMAIN low = 1 .. Len(low) BY <3>2, LenProperties
    <3>4. DOMAIN low = 1 .. n /\ \A i \in 1 .. n : low[i] <=> items[i] <= e BY <3>1
    <3> HIDE DEF low, n
    <3>5. 1 .. Len(low) = 1 .. n BY <3>3, <3>4
    <3>6. Len(low) = n BY <3>3, <3>5, <1>1, SameRange
    <3> QED BY <3>4, <3>6
  <2> HIDE DEF low, n, k
  <2>3. k = LowBisection(low)[<<2, n>>] BY <2>1, <2>2 DEF BisectLow
  <2>4. LowUpTo(low, 2, n, k)
    <3>1. 2 \in 1 .. Len(low) + 1 /\ n \in 0 .. Len(low) /\ 2 <= n + 1 /\ Len(low) \in Nat
      BY <2>2, <1>1, <1>4
    <3> QED BY <3>1, <2>3, LowFound
  <2>5. k \in 2 - 1 .. n BY <2>4 DEF LowUpTo
  <2>6. SortedFrom(items, 2) => \A i \in 2 .. n : items[i] <= e <=> i <= k
    <3>1. SUFFICES ASSUME SortedFrom(items, 2) PROVE \A i \in 2 .. n : items[i] <= e <=> i <= k OBVIOUS
    <3>2. \A i \in 2 .. n : i \in 1 .. n BY <1>1
    <3>3. ASSUME NEW i \in 2 .. n, NEW j \in 2 .. n, i < j, low[j] PROVE low[i]
      <4>1. items[i] <= items[j] BY <3>1, <3>3 DEF SortedFrom, n
      <4>2. items[j] <= e BY <2>2, <3>2, <3>3
      <4>3. items[i] \in Nat /\ items[j] \in Nat BY <3>2, <1>1
      <4>4. items[i] <= e BY <4>1, <4>2, <4>3
      <4> QED BY <4>4, <2>2, <3>2
    <3>4. \A i \in 2 .. n : low[i] <=> i <= k BY <2>4, <3>3 DEF LowUpTo
    <3> QED BY <3>4, <3>2, <2>2
  <2>7. k \in 1 .. n BY <2>5
  <2> QED BY <2>6, <2>7 DEF ChildPlace, n, k
<1> QED BY <1>1, <1>2, <1>3, <1>4

(* The place of e among the items of a leaf.                               *)
LeafPlace(items, e, k) ==
  /\ k \in 1 .. Len(items) + 1
  /\ SortedFrom(items, 1) => \A i \in 1 .. Len(items) : e <= items[i] <=> i >= k

(* search in a leaf.                                                       *)
LEMMA LeafRankIs ==
  ASSUME NEW items \in Seq(Nat), NEW e \in Nat
  PROVE  LeafPlace(items, e, LeafRank(items, e))
<1> DEFINE n == Len(items)
           k == LeafRank(items, e)
<1>1. n \in Nat /\ \A i \in 1 .. n : items[i] \in Nat
  BY LenProperties, ElementOfSeq
<1>0. items = <<>> <=> n = 0 BY EmptySeq
<1>2. CASE n = 0
  <2>1. k = 1 BY <1>0, <1>2 DEF LeafRank
  <2>2. 1 .. n = {} /\ 1 \in 1 .. n + 1 BY <1>2
  <2> QED BY <2>1, <2>2 DEF LeafPlace
<1>3. CASE n # 0 /\ e > items[n]
  <2>1. k = n + 1 BY <1>0, <1>3 DEF LeafRank
  <2>2. SortedFrom(items, 1) => \A i \in 1 .. n : ~(e <= items[i]) /\ ~(i >= n + 1)
    <3>1. SUFFICES ASSUME SortedFrom(items, 1), NEW i \in 1 .. n PROVE ~(e <= items[i]) /\ ~(i >= n + 1) OBVIOUS
    <3>2. n \in 1 .. n BY <1>1, <1>3
    <3>3. items[i] <= items[n]
      <4>1. CASE i = n BY <4>1, <1>1
      <4>2. CASE i # n
        <5>0. n \in Nat BY <1>1
        <5> HIDE DEF n
        <5>1. i < n BY <4>2, <5>0, <3>1
        <5> QED BY <5>1, <3>1, <3>2 DEF SortedFrom, n
      <4> QED BY <4>1, <4>2
    <3>4. items[i] \in Nat /\ items[n] \in Nat BY <3>2, <1>1
    <3> QED BY <3>3, <3>4, <1>1, <1>3
  <2>3. n + 1 \in 1 .. n + 1 BY <1>1
  <2> QED BY <2>1, <2>2, <2>3 DEF LeafPlace
<1>4. CASE n # 0 /\ ~(e > items[n])
  <2>1. k = LeafBisection(items, e)[<<1, n>>] BY <1>0, <1>4 DEF LeafRank, BisectLeaf
  <2> HIDE DEF n, k
  <2>2. 1 \in 1 .. n /\ n \in 1 .. n /\ 1 <= n BY <1>1, <1>4
  <2>3. NotBelowFrom(items, e, 1, n, k) BY <2>1, <2>2, <1>1, NotBelowFound DEF n
  <2>4. k \in 1 .. n BY <2>3 DEF NotBelowFrom
  <2>5. e <= items[n] BY <1>1, <1>4, <2>2
  <2>6. SortedFrom(items, 1) => \A i \in 1 .. n : e <= items[i] <=> i >= k
    <3>1. SUFFICES ASSUME SortedFrom(items, 1) PROVE \A i \in 1 .. n : e <= items[i] <=> i >= k OBVIOUS
    <3>3. ASSUME NEW i \in 1 .. n, NEW j \in 1 .. n, i < j, e <= items[i] PROVE e <= items[j]
      <4>1. items[i] <= items[j] BY <3>1, <3>3 DEF SortedFrom, n
      <4>3. items[i] \in Nat /\ items[j] \in Nat BY <1>1
      <4> QED BY <4>1, <4>3, <3>3
    <3> QED BY <2>3, <2>5, <3>3 DEF NotBelowFrom
  <2>7. k \in 1 .. n + 1 BY <2>4, <1>1
  <2> QED BY <2>6, <2>7 DEF LeafPlace, n, k
<1> QED BY <1>2, <1>3, <1>4

(* Sequences over a larger set.                                            *)
LEMMA SeqOfMore ==
  ASSUME NEW S, NEW T, S \subseteq T, NEW s \in Seq(S)
  PROVE  s \in Seq(T)
<1>1. PICK n \in Nat : s \in [1 .. n -> S] BY SeqDef
<1>2. s \in [1 .. n -> T] BY <1>1
<1> QED BY <1>2, SeqDef

(* A search ends in a leaf.                                                *)
LEMMA HotIs ==
  ASSUME NEW t, NEW N, NEW h, NEW nx, NEW pv, Good(t, N, h, nx, pv), NEW e \in Entries
  PROVE  Hot(t, e) \in N /\ Leaf(t, Hot(t, e)) /\ h[Hot(t, e)] = 1
<1> DEFINE child == [v \in Pages |-> Childs(t, v)[ChildRank(Items(t, v), e)]]
<1>g. t \in Trees /\ Shape(t, N, h) /\ Matched(t, N) BY DEF Good
<1>s. N \subseteq Pages /\ t.root \in N /\ \A x \in N : Kids(t, x) \in Nat /\ (Kids(t, x) = 0 => h[x] = 1)
  BY <1>g, ShapeFacts
<1>1. \A v \in N : Kids(t, v) > 0 => \E i \in 1 .. Kids(t, v) : child[v] = Kid(t, v, i)
  <2>1. SUFFICES ASSUME NEW v \in N, Kids(t, v) > 0
                 PROVE  \E i \in 1 .. Kids(t, v) : child[v] = Kid(t, v, i)
    OBVIOUS
  <2>2. v \in Pages BY <1>s
  <2>3. Size(t, v) = Kids(t, v) BY <2>1, <1>s, <1>g DEF Matched
  <2>4. Items(t, v) \in Seq(Entries) BY <2>2, <1>g, TreeTypes
  <2>5. Items(t, v) \in Seq(Nat)
    <3>1. Entries \subseteq Nat BY EntriesAssumption
    <3> QED BY <2>4, <3>1, SeqOfMore
  <2>6. Len(Items(t, v)) >= 1 BY <2>1, <2>3, <1>s DEF Size
  <2>7. e \in Nat BY EntriesAssumption
  <2>8. ChildPlace(Items(t, v), e, ChildRank(Items(t, v), e)) BY <2>5, <2>6, <2>7, ChildRankIs
  <2>9. ChildRank(Items(t, v), e) \in 1 .. Kids(t, v) BY <2>8, <2>3 DEF ChildPlace, Size
  <2>10. child[v] = Kid(t, v, ChildRank(Items(t, v), e)) BY <2>2 DEF Kid
  <2> QED BY <2>9, <2>10
<1>2. Hot(t, e) = LeafBelow(t, child)[t.root] BY DEF Hot
<1> HIDE DEF child
<1>3. Hot(t, e) \in N /\ Kids(t, Hot(t, e)) = 0 BY <1>1, <1>2, <1>g, <1>s, LeafBelowIs
<1> QED BY <1>3, <1>s, <1>g DEF Matched

(* Items are numbers.                                                      *)
LEMMA ItemsNat ==
  ASSUME NEW t \in Trees, NEW v \in Pages
  PROVE  /\ Items(t, v) \in Seq(Nat)
         /\ \A i \in 1 .. Size(t, v) : Item(t, v, i) \in Entries /\ Item(t, v, i) \in Nat
<1>1. Entries \subseteq Nat BY EntriesAssumption
<1>3. Items(t, v) \in Seq(Entries) /\ \A i \in 1 .. Size(t, v) : Item(t, v, i) \in Entries BY TreeTypes
<1>2. Items(t, v) \in Seq(Nat) BY <1>1, <1>3, SeqOfMore
<1> QED BY <1>1, <1>2, <1>3

(* The place of an entry is in the leaf or just behind it.                 *)
LEMMA RankInLeaf ==
  ASSUME NEW t \in Trees, NEW v \in Pages, NEW e \in Entries
  PROVE  LeafRank(Items(t, v), e) \in 1 .. Size(t, v) + 1
<1>1. Items(t, v) \in Seq(Nat) /\ e \in Nat BY ItemsNat, EntriesAssumption
<1>2. LeafPlace(Items(t, v), e, LeafRank(Items(t, v), e)) BY <1>1, LeafRankIs
<1> QED BY <1>2 DEF LeafPlace, Size

(* What a search finds is in the leaf.                                     *)
LEMMA FoundIs ==
  ASSUME NEW t, NEW N, NEW h, NEW nx, NEW pv, Good(t, N, h, nx, pv), NEW e \in Entries,
         NEW v, v = Hot(t, e), NEW r, r = LeafRank(Items(t, v), e), Found(t, e)
  PROVE  /\ r \in 1 .. Size(t, v) /\ Item(t, v, r) = e
         /\ e \in HeldIn(t)
<1>g. t \in Trees /\ Shape(t, N, h) BY DEF Good
<1>v. v \in N /\ v \in Pages /\ Leaf(t, v) BY <1>g, HotIs, ShapeFacts
<1>1. r \in DOMAIN Items(t, v) /\ Items(t, v)[r] = e BY DEF Found
<1>2. r \in 1 .. Size(t, v) /\ Item(t, v, r) = e BY <1>1, <1>v, <1>g, TreeTypes DEF Item
<1>3. Size(t, v) \in Nat BY <1>v, <1>g, TreeTypes
<1>4. <<v, r>> \in Places(t) BY <1>2, <1>3, <1>v DEF Places, LeafSize
<1>5. Item(t, <<v, r>>[1], <<v, r>>[2]) \in HeldIn(t) BY <1>4 DEF HeldIn
<1> QED BY <1>2, <1>5

(* t2 differs from t in the items of the leaf v.                           *)
LeafChanged(t, t2, v, q) ==
  /\ OtherItems(t, t2) /\ t2.status = t.status
  /\ Items(t2, v) = q
  /\ \A x \in Pages \ {v} : Items(t2, x) = Items(t, x)

(* Only the items of a leaf change.                                        *)
LEMMA LeafChange ==
  ASSUME NEW t \in Trees, NEW v \in Pages, Leaf(t, v), NEW q \in Seq(Entries),
         NEW t2, t2 = WithNode(t, v, [t.node[v] EXCEPT !.items = q])
  PROVE  LeafChanged(t, t2, v, q)
<1> DEFINE m == [t.node[v] EXCEPT !.items = q]
<1>1. t.node[v] \in TreeNodes BY DEF Trees
<1>2. /\ m \in TreeNodes /\ m.items = q /\ m.childs = t.node[v].childs /\ m.leaf = t.node[v].leaf
      /\ m.left = t.node[v].left /\ m.right = t.node[v].right /\ m.next_free = t.node[v].next_free
      /\ m.parent = t.node[v].parent
  BY <1>1 DEF TreeNodes
<1>3. t2 = WithNode(t, v, m) OBVIOUS
<1> HIDE DEF m
<1>4. /\ t2 \in Trees /\ SameHead(t, t2) /\ t2.status = t.status
      /\ t2.node[v] = m /\ \A x \in Pages \ {v} : t2.node[x] = t.node[x]
  <2>1. m \in TreeNodes BY <1>2
  <2>2. /\ WithNode(t, v, m) \in Trees /\ SameHead(t, WithNode(t, v, m))
        /\ WithNode(t, v, m).status = t.status
        /\ WithNode(t, v, m).node[v] = m
        /\ \A x \in Pages \ {v} : WithNode(t, v, m).node[x] = t.node[x]
    BY <2>1, NodeChange
  <2> QED BY <2>2, <1>3
<1>5. \A x \in Pages :
       /\ Childs(t2, x) = Childs(t, x) /\ Parent(t2, x) = Parent(t, x) /\ Leaf(t2, x) = Leaf(t, x)
       /\ Left(t2, x) = Left(t, x) /\ Right(t2, x) = Right(t, x) /\ NextFree(t2, x) = NextFree(t, x)
  BY <1>2, <1>4 DEF Childs, Parent, Leaf, Left, Right, NextFree
<1>6. Items(t2, v) = q /\ \A x \in Pages \ {v} : Items(t2, x) = Items(t, x)
  BY <1>2, <1>4 DEF Items
<1>7. \A x \in Pages : ~Leaf(t, x) => Size(t2, x) = Size(t, x)
  BY <1>6 DEF Size
<1> QED BY <1>4, <1>5, <1>6, <1>7 DEF LeafChanged, OtherItems, SameHead

(* What a change of the leaf v does to the entries.                        *)
LEMMA LeafChangedFacts ==
  ASSUME NEW t \in Trees, NEW t2, NEW v \in Pages, Leaf(t, v), NEW q, LeafChanged(t, t2, v, q)
  PROVE  /\ t2 \in Trees /\ LeafSize(t2, v) = Len(q) /\ Size(t2, v) = Len(q)
         /\ \A i : Item(t2, v, i) = q[i]
         /\ \A x \in Pages \ {v} : /\ LeafSize(t2, x) = LeafSize(t, x) /\ Size(t2, x) = Size(t, x)
                                   /\ \A i : Item(t2, x, i) = Item(t, x, i)
         /\ \A x \in Pages : Leaf(t2, x) = Leaf(t, x)
<1>1. /\ t2 \in Trees /\ \A x \in Pages : Leaf(t2, x) = Leaf(t, x)
  BY DEF LeafChanged, OtherItems
<1>2. Items(t2, v) = q /\ \A x \in Pages \ {v} : Items(t2, x) = Items(t, x) BY DEF LeafChanged
<1> QED BY <1>1, <1>2 DEF LeafSize, Size, Item

(* An entry more.                                                          *)
Added(t, t2, e) ==
  /\ HeldIn(t2) = HeldIn(t) \cup {e}
  /\ Cardinality(Places(t2)) = Cardinality(Places(t)) + 1

(* An entry goes into a leaf.                                              *)
LEMMA ItemAdded ==
  ASSUME NEW t \in Trees, NEW t2, NEW v \in Pages, Leaf(t, v),
         NEW r \in 1 .. Size(t, v) + 1, NEW e \in Entries,
         NEW q, q = InsertAt(Items(t, v), r, e), LeafChanged(t, t2, v, q)
  PROVE  /\ Size(t2, v) = Size(t, v) + 1
         /\ Added(t, t2, e)
<1> DEFINE n == Size(t, v)
           s == <<v, n + 1>>
<1>1. Items(t, v) \in Seq(Entries) /\ n = Len(Items(t, v)) /\ n \in Nat /\ LeafSize(t, v) = n
  BY TreeTypes DEF Size, LeafSize
<1> HIDE DEF n
<1>2. /\ Len(q) = n + 1
      /\ \A i \in 1 .. n + 1 : q[i] = IF i < r THEN Item(t, v, i) ELSE IF i = r THEN e ELSE Item(t, v, i - 1)
  BY <1>1, InsertAtIs DEF Item, n
<1>3. /\ t2 \in Trees /\ LeafSize(t2, v) = n + 1 /\ Size(t2, v) = n + 1
      /\ \A i : Item(t2, v, i) = q[i]
      /\ \A x \in Pages \ {v} : /\ LeafSize(t2, x) = LeafSize(t, x)
                                /\ \A i : Item(t2, x, i) = Item(t, x, i)
  <2>1. /\ t2 \in Trees /\ LeafSize(t2, v) = Len(q) /\ Size(t2, v) = Len(q)
        /\ \A i : Item(t2, v, i) = q[i]
        /\ \A x \in Pages \ {v} : /\ LeafSize(t2, x) = LeafSize(t, x) /\ Size(t2, x) = Size(t, x)
                                  /\ \A i : Item(t2, x, i) = Item(t, x, i)
    BY LeafChangedFacts
  <2> HIDE DEF s
  <2> QED BY <2>1, <1>2
<1>r. r \in 1 .. n + 1 /\ r \in Nat BY <1>1 DEF n
<1>4. Places(t2) = Places(t) \cup {s} /\ s \notin Places(t)
  <2>1. \A x \in Pages, i \in Nat : i \in 1 .. LeafSize(t2, x) <=> i \in 1 .. LeafSize(t, x) \/ <<x, i>> = s
    <3>1. SUFFICES ASSUME NEW x \in Pages, NEW i \in Nat
                   PROVE  i \in 1 .. LeafSize(t2, x) <=> i \in 1 .. LeafSize(t, x) \/ <<x, i>> = s
      OBVIOUS
    <3>2. CASE x = v
      <4>1. i \in 1 .. n + 1 <=> i \in 1 .. n \/ i = n + 1 BY <1>1
      <4> QED BY <4>1, <3>2, <1>1, <1>3
    <3>3. CASE x # v BY <3>3, <1>3
    <3> QED BY <3>2, <3>3
  <2>2. s \in Pages \X Nat /\ n + 1 \notin 1 .. n BY <1>1
  <2>3. s \notin Places(t) BY <2>2, <1>1 DEF Places
  <2>4. ASSUME NEW z \in Pages \X Nat PROVE z \in Places(t2) <=> z \in Places(t) \/ z = s
    <3>1. z[1] \in Pages /\ z[2] \in Nat /\ z = <<z[1], z[2]>> OBVIOUS
    <3>2. z[2] \in 1 .. LeafSize(t2, z[1]) <=> z[2] \in 1 .. LeafSize(t, z[1]) \/ z = s BY <2>1, <3>1
    <3> QED BY <3>2 DEF Places
  <2>5. Places(t) \subseteq Pages \X Nat /\ Places(t2) \subseteq Pages \X Nat BY DEF Places
  <2> HIDE DEF s
  <2> QED BY <2>2, <2>3, <2>4, <2>5
<1>5. Cardinality(Places(t2)) = Cardinality(Places(t)) + 1
  <2>1. IsFiniteSet(Places(t)) BY PlacesFinite
  <2> QED BY <2>1, <1>4, FS_AddElement
<1>6. HeldIn(t2) \subseteq HeldIn(t) \cup {e}
  <2>1. SUFFICES ASSUME NEW z \in Places(t2) PROVE Item(t2, z[1], z[2]) \in HeldIn(t) \cup {e}
    BY DEF HeldIn
  <2>2. z[1] \in Pages /\ z[2] \in Nat /\ z[2] \in 1 .. LeafSize(t2, z[1]) BY DEF Places
  <2>3. \A x \in Pages, i \in Nat : i \in 1 .. LeafSize(t, x) => Item(t, x, i) \in HeldIn(t)
    <3>1. SUFFICES ASSUME NEW x \in Pages, NEW i \in Nat, i \in 1 .. LeafSize(t, x)
                   PROVE  Item(t, x, i) \in HeldIn(t)
      OBVIOUS
    <3>2. <<x, i>> \in Places(t) BY <3>1 DEF Places
    <3>3. Item(t, <<x, i>>[1], <<x, i>>[2]) \in HeldIn(t) BY <3>2 DEF HeldIn
    <3> QED BY <3>3
  <2>4. CASE z[1] # v BY <2>2, <2>3, <2>4, <1>3
  <2>5. CASE z[1] = v
    <3> DEFINE i == z[2]
    <3>1. i \in 1 .. n + 1 /\ i \in Nat BY <2>2, <2>5, <1>3
    <3>2. Item(t2, v, i) = IF i < r THEN Item(t, v, i) ELSE IF i = r THEN e ELSE Item(t, v, i - 1)
      BY <3>1, <1>2, <1>3
    <3> HIDE DEF i
    <3>3. i < r => i \in 1 .. n BY <3>1, <1>r, <1>1
    <3>4. i > r => i - 1 \in 1 .. n /\ i - 1 \in Nat BY <3>1, <1>r, <1>1
    <3>5. Item(t2, v, i) \in HeldIn(t) \cup {e}
      <4>1. CASE i < r BY <4>1, <3>1, <3>2, <3>3, <2>3, <1>1
      <4>2. CASE i = r BY <4>2, <3>2, <1>r
      <4>3. CASE i > r
        <5>1. ~(i < r) /\ i # r BY <4>3, <3>1, <1>r
        <5>2. Item(t2, v, i) = Item(t, v, i - 1) BY <5>1, <3>2
        <5>3. Item(t, v, i - 1) \in HeldIn(t) BY <4>3, <3>4, <2>3, <1>1
        <5> QED BY <5>2, <5>3
      <4> QED BY <4>1, <4>2, <4>3, <3>1, <1>r
    <3> QED BY <3>5, <2>5 DEF i
  <2> QED BY <2>4, <2>5
<1>7. HeldIn(t) \cup {e} \subseteq HeldIn(t2)
  <2>3. \A x \in Pages, i \in Nat : i \in 1 .. LeafSize(t2, x) => Item(t2, x, i) \in HeldIn(t2)
    <3>1. SUFFICES ASSUME NEW x \in Pages, NEW i \in Nat, i \in 1 .. LeafSize(t2, x)
                   PROVE  Item(t2, x, i) \in HeldIn(t2)
      OBVIOUS
    <3>2. <<x, i>> \in Places(t2) BY <3>1 DEF Places
    <3>3. Item(t2, <<x, i>>[1], <<x, i>>[2]) \in HeldIn(t2) BY <3>2 DEF HeldIn
    <3> QED BY <3>3
  <2>0. e \in HeldIn(t2)
    <3>1. ~(r < r) BY <1>r
    <3>2. Item(t2, v, r) = e BY <3>1, <1>2, <1>3, <1>r
    <3> QED BY <3>2, <2>3, <1>3, <1>r
  <2>1. SUFFICES ASSUME NEW z \in Places(t) PROVE Item(t, z[1], z[2]) \in HeldIn(t2)
    BY <2>0 DEF HeldIn
  <2>2. z[1] \in Pages /\ z[2] \in Nat /\ z[2] \in 1 .. LeafSize(t, z[1]) BY DEF Places
  <2>4. CASE z[1] # v
    <3>1. Item(t2, z[1], z[2]) = Item(t, z[1], z[2]) /\ z[2] \in 1 .. LeafSize(t2, z[1])
      BY <2>2, <2>4, <1>3
    <3> QED BY <3>1, <2>2, <2>3
  <2>5. CASE z[1] = v
    <3> DEFINE i == z[2]
    <3>1. i \in 1 .. n /\ i \in Nat BY <2>2, <2>5, <1>1
    <3> HIDE DEF i
    <3>2. i \in 1 .. n + 1 /\ i + 1 \in 1 .. n + 1 /\ i + 1 \in Nat /\ (i + 1) - 1 = i BY <3>1, <1>1
    <3>3. CASE i < r
      <4>1. Item(t2, v, i) = Item(t, v, i) BY <3>2, <3>3, <1>2, <1>3
      <4>2. Item(t2, v, i) \in HeldIn(t2) BY <3>1, <3>2, <2>3, <1>3
      <4> QED BY <4>1, <4>2, <2>5 DEF i
    <3>4. CASE ~(i < r)
      <4>1. ~(i + 1 < r) /\ i + 1 # r BY <3>4, <3>1, <1>r
      <4>2. Item(t2, v, i + 1) = Item(t, v, i) BY <4>1, <3>2, <1>2, <1>3
      <4>3. Item(t2, v, i + 1) \in HeldIn(t2) BY <3>2, <2>3, <1>3
      <4> QED BY <4>2, <4>3, <2>5 DEF i
    <3> QED BY <3>3, <3>4
  <2> QED BY <2>4, <2>5
<1>8. HeldIn(t2) = HeldIn(t) \cup {e} BY <1>6, <1>7
<1>9. Size(t2, v) = Size(t, v) + 1 BY <1>3 DEF n
<1> QED BY <1>5, <1>8, <1>9 DEF Added

(* A search goes on to the only child that its entry may be below.         *)
LEMMA ChildPassed ==
  ASSUME NEW t, NEW N, NEW h, NEW nx, NEW pv, Good(t, N, h, nx, pv), NEW R, Ordered(t, N, nx, R),
         NEW v \in N, Kids(t, v) > 0, NEW e \in Entries,
         NEW k, k = ChildRank(Items(t, v), e)
  PROVE  /\ k \in 1 .. Kids(t, v)
         /\ \A i \in 1 .. Kids(t, v) : Passes(t, v, i, e) <=> i = k
<1>g. t \in Trees /\ Shape(t, N, h) /\ Matched(t, N) BY DEF Good
<1>1. v \in Pages /\ Kids(t, v) \in Nat BY <1>g, ShapeFacts
<1>2. Size(t, v) = Kids(t, v) BY <1>1, <1>g DEF Matched
<1>3. /\ Items(t, v) \in Seq(Nat) /\ \A i \in 1 .. Size(t, v) : Item(t, v, i) \in Nat
  BY <1>1, <1>g, ItemsNat
<1>4. Len(Items(t, v)) = Kids(t, v) /\ Len(Items(t, v)) >= 1 BY <1>1, <1>2 DEF Size
<1>5. e \in Nat BY EntriesAssumption
<1>6. ChildPlace(Items(t, v), e, k) BY <1>3, <1>4, <1>5, ChildRankIs
<1>7. SortedFrom(Items(t, v), 2)
  <2>1. Separates(t, N, R) BY DEF Ordered
  <2>2. \A i, j \in 2 .. Kids(t, v) : i < j => Item(t, v, i) < Item(t, v, j) BY <2>1 DEF Separates
  <2>3. \A i \in 2 .. Kids(t, v) : Item(t, v, i) \in Nat
    <3>1. \A i \in 2 .. Kids(t, v) : i \in 1 .. Kids(t, v) BY <1>1
    <3> QED BY <3>1, <1>2, <1>3
  <2>4. \A i, j \in 2 .. Kids(t, v) : i < j => Item(t, v, i) <= Item(t, v, j) BY <2>2, <2>3
  <2> QED BY <2>4, <1>4 DEF SortedFrom, Item
<1>8. /\ k \in 1 .. Kids(t, v)
      /\ \A i \in 2 .. Kids(t, v) : Item(t, v, i) <= e <=> i <= k
  BY <1>4, <1>6, <1>7 DEF ChildPlace, Item
<1>9. ASSUME NEW i \in 1 .. Kids(t, v) PROVE Passes(t, v, i, e) <=> i = k
  <2>1. i > 1 => (Item(t, v, i) <= e <=> i <= k)
    <3>1. i > 1 => i \in 2 .. Kids(t, v) BY <1>1
    <3> QED BY <3>1, <1>8
  <2>2. i < Kids(t, v) => (e < Item(t, v, i + 1) <=> ~(i + 1 <= k))
    <3>1. SUFFICES ASSUME i < Kids(t, v) PROVE e < Item(t, v, i + 1) <=> ~(i + 1 <= k) OBVIOUS
    <3>2. i + 1 \in 2 .. Kids(t, v) /\ i + 1 \in 1 .. Size(t, v) BY <3>1, <1>1, <1>2
    <3>3. Item(t, v, i + 1) <= e <=> i + 1 <= k BY <3>2, <1>8
    <3>4. Item(t, v, i + 1) \in Nat BY <3>2, <1>3
    <3> QED BY <3>3, <3>4, <1>5
  <2>3. Passes(t, v, i, e) <=> (i > 1 => i <= k) /\ (i < Kids(t, v) => ~(i + 1 <= k))
    BY <2>1, <2>2 DEF Passes
  <2> QED BY <2>3, <1>1, <1>8
<1> QED BY <1>8, <1>9

(* The way of a search from each page.                                     *)
Toward(t, e) == [v \in Pages |-> Childs(t, v)[ChildRank(Items(t, v), e)]]

SearchLeaf(t, e) == LeafBelow(t, Toward(t, e))

(* A search takes a step at each node.                                     *)
LEMMA SearchSteps ==
  ASSUME NEW t, NEW N, NEW h, NEW nx, NEW pv, Good(t, N, h, nx, pv), NEW R, Ordered(t, N, nx, R),
         NEW e \in Entries
  PROVE  /\ Hot(t, e) = SearchLeaf(t, e)[t.root]
         /\ \A v \in N : Kids(t, v) = 0 => SearchLeaf(t, e)[v] = v
         /\ \A v \in N : \A i \in 1 .. Kids(t, v) :
              Passes(t, v, i, e) => SearchLeaf(t, e)[v] = SearchLeaf(t, e)[Kid(t, v, i)]
         /\ \A v \in N : Kids(t, v) > 0 => \E i \in 1 .. Kids(t, v) : Passes(t, v, i, e)
<1> DEFINE child == Toward(t, e)
           k(v) == ChildRank(Items(t, v), e)
<1>g. t \in Trees /\ Shape(t, N, h) BY DEF Good
<1>s. N \subseteq Pages /\ \A x \in N : Kids(t, x) \in Nat BY <1>g, ShapeFacts
<1>1. ASSUME NEW v \in N, Kids(t, v) > 0
      PROVE  /\ k(v) \in 1 .. Kids(t, v) /\ child[v] = Kid(t, v, k(v))
             /\ \A i \in 1 .. Kids(t, v) : Passes(t, v, i, e) <=> i = k(v)
  <2>1. child[v] = Kid(t, v, k(v)) BY <1>s DEF Toward, Kid
  <2> QED BY <2>1, <1>1, ChildPassed
<1>2. Hot(t, e) = SearchLeaf(t, e)[t.root] BY DEF Hot, SearchLeaf, Toward
<1> HIDE DEF child, k
<1>3. \A v \in N : Kids(t, v) > 0 => \E i \in 1 .. Kids(t, v) : child[v] = Kid(t, v, i) BY <1>1
<1>4. \A v \in N : SearchLeaf(t, e)[v] = IF Kids(t, v) = 0 THEN v ELSE SearchLeaf(t, e)[child[v]]
  <2>1. SearchLeaf(t, e) = LeafBelow(t, child) BY DEF SearchLeaf, child
  <2>2. \A v \in N : LeafBelow(t, child)[v] = IF Kids(t, v) = 0 THEN v ELSE LeafBelow(t, child)[child[v]]
    BY <1>3, <1>g, LeafBelowIs
  <2> QED BY <2>1, <2>2
<1>5. ASSUME NEW v \in N, NEW i \in 1 .. Kids(t, v), Passes(t, v, i, e)
      PROVE  SearchLeaf(t, e)[v] = SearchLeaf(t, e)[Kid(t, v, i)]
  <2>1. Kids(t, v) > 0 /\ Kids(t, v) # 0 BY <1>s
  <2>2. i = k(v) /\ child[v] = Kid(t, v, k(v)) BY <2>1, <1>1, <1>5
  <2> QED BY <2>1, <2>2, <1>4
<1>6. \A v \in N : Kids(t, v) > 0 => \E i \in 1 .. Kids(t, v) : Passes(t, v, i, e) BY <1>1
<1> QED BY <1>2, <1>4, <1>5, <1>6

(* A search comes to a leaf whose range has its entry.                     *)
LEMMA HotRange ==
  ASSUME NEW t, NEW N, NEW h, NEW nx, NEW pv, Good(t, N, h, nx, pv), NEW R, Ordered(t, N, nx, R),
         NEW e \in Entries
  PROVE  e \in R[Hot(t, e)]
<1> DEFINE L == SearchLeaf(t, e)
           P == {v \in Pages : v \in N /\ e \in R[v] => e \in R[L[v]]}
<1>g. t \in Trees /\ Shape(t, N, h) BY DEF Good
<1>s. /\ N \subseteq Pages /\ t.root \in N /\ h \in [Pages -> Nat]
      /\ \A x \in N : Kids(t, x) \in Nat
      /\ \A x \in N : \A i \in 1 .. Kids(t, x) : Kid(t, x, i) \in N /\ h[x] = h[Kid(t, x, i)] + 1
  BY <1>g, ShapeFacts
<1>e. e \in Nat BY EntriesAssumption
<1>r. R[t.root] = Nat /\ RangesDown(t, N, R) BY DEF Ordered, RangesAre
<1>1. /\ Hot(t, e) = L[t.root]
      /\ \A v \in N : Kids(t, v) = 0 => L[v] = v
      /\ \A v \in N : \A i \in 1 .. Kids(t, v) : Passes(t, v, i, e) => L[v] = L[Kid(t, v, i)]
      /\ \A v \in N : Kids(t, v) > 0 => \E i \in 1 .. Kids(t, v) : Passes(t, v, i, e)
  BY SearchSteps
<1> HIDE DEF L
<1>2. ASSUME NEW v \in Pages, \A w \in Pages : h[w] < h[v] => w \in P PROVE v \in P
  <2>1. SUFFICES ASSUME v \in N, e \in R[v] PROVE e \in R[L[v]] OBVIOUS
  <2>2. CASE Kids(t, v) = 0 BY <2>1, <2>2, <1>1
  <2>3. CASE Kids(t, v) # 0
    <3>1. Kids(t, v) > 0 BY <2>1, <2>3, <1>s
    <3>2. PICK i \in 1 .. Kids(t, v) : Passes(t, v, i, e) BY <2>1, <3>1, <1>1
    <3> DEFINE c == Kid(t, v, i)
    <3>3. c \in N /\ h[v] = h[c] + 1 /\ L[v] = L[c] BY <2>1, <3>2, <1>s, <1>1
    <3>4. e \in R[c] BY <2>1, <3>2, <1>e, <1>r DEF RangesDown
    <3> HIDE DEF c
    <3>5. c \in Pages /\ h[c] \in Nat BY <3>3, <1>s
    <3>6. c \in P BY <3>3, <3>5, <1>2
    <3> QED BY <3>3, <3>4, <3>6
  <2> QED BY <2>2, <2>3
<1>3. P = Pages
  <2>1. P \in SUBSET Pages OBVIOUS
  <2> HIDE DEF P
  <2> QED BY <2>1, <1>2, <1>s, LevelInduction
<1>4. t.root \in P BY <1>3, <1>s
<1> QED BY <1>1, <1>4, <1>e, <1>r, <1>s

(* No other leaf has the entry in its range.                               *)
LEMMA HotOf ==
  ASSUME NEW t, NEW N, NEW h, NEW nx, NEW pv, Good(t, N, h, nx, pv), NEW R, Ordered(t, N, nx, R),
         NEW e \in Entries, NEW w \in N, Kids(t, w) = 0, e \in R[w]
  PROVE  Hot(t, e) = w
<1> DEFINE L == SearchLeaf(t, e)
           b == h[t.root]
           d == [x \in Pages |-> b - h[x]]
           P == {v \in Pages : v \in N /\ e \in R[v] => L[v] = L[t.root]}
<1>g. t \in Trees /\ Shape(t, N, h) BY DEF Good
<1>s. N \subseteq Pages /\ t.root \in N BY <1>g, ShapeFacts
<1>e. e \in Nat BY EntriesAssumption
<1>r. RangesDown(t, N, R) BY DEF Ordered
<1>1. /\ Hot(t, e) = L[t.root]
      /\ \A v \in N : Kids(t, v) = 0 => L[v] = v
      /\ \A v \in N : \A i \in 1 .. Kids(t, v) : Passes(t, v, i, e) => L[v] = L[Kid(t, v, i)]
  BY SearchSteps
<1> HIDE DEF L
<1>b. h \in [Pages -> 0 .. b] /\ b \in Nat BY <1>g, RootHighest
<1> HIDE DEF b
<1>d. d \in [Pages -> Nat] /\ \A x \in Pages : d[x] = b - h[x] /\ h[x] \in 0 .. b BY <1>b
<1> HIDE DEF d
<1>2. ASSUME NEW v \in Pages, \A u \in Pages : d[u] < d[v] => u \in P PROVE v \in P
  <2>1. SUFFICES ASSUME v \in N, e \in R[v] PROVE L[v] = L[t.root] OBVIOUS
  <2>2. CASE v = t.root BY <2>2
  <2>3. CASE v # t.root
    <3> DEFINE p == Parent(t, v)
               r == Rank(t, v, p)
    <3>1. /\ p \in N /\ r \in 1 .. Kids(t, p) /\ Kid(t, p, r) = v /\ h[p] = h[v] + 1
      BY <2>1, <2>3, <1>g, RankIs
    <3> HIDE DEF p, r
    <3>2. e \in R[p] /\ Passes(t, p, r, e) BY <2>1, <3>1, <1>e, <1>r DEF RangesDown
    <3>3. L[p] = L[v] BY <3>1, <3>2, <1>1
    <3>4. p \in Pages /\ d[p] < d[v] BY <3>1, <1>s, <1>d, <1>b
    <3>5. p \in P BY <3>4, <1>2
    <3> QED BY <3>1, <3>2, <3>3, <3>5
  <2> QED BY <2>2, <2>3
<1>3. P = Pages
  <2>1. P \in SUBSET Pages OBVIOUS
  <2> HIDE DEF P
  <2> QED BY <2>1, <1>2, <1>d, LevelInduction
<1>4. w \in P BY <1>3, <1>s
<1> QED BY <1>1, <1>4

(* The entries before the place of an entry that the search does not find  *)
(* are below it, and the others above it.                                  *)
LEMMA MissingPlace ==
  ASSUME NEW t, NEW N, NEW h, NEW nx, NEW pv, Good(t, N, h, nx, pv), NEW R, Ordered(t, N, nx, R),
         NEW e \in Entries, ~Found(t, e),
         NEW v, v = Hot(t, e), NEW r, r = LeafRank(Items(t, v), e)
  PROVE  \A i \in 1 .. Size(t, v) : /\ i < r => Item(t, v, i) < e
                                    /\ i >= r => e < Item(t, v, i)
<1>g. t \in Trees /\ Shape(t, N, h) /\ Matched(t, N) BY DEF Good
<1>s. N \subseteq Pages BY <1>g, ShapeFacts
<1>1. v \in N /\ v \in Pages /\ Kids(t, v) = 0
  <2>1. v \in N /\ Leaf(t, v) BY HotIs
  <2>2. Kids(t, v) = 0 BY <2>1, <1>g DEF Matched
  <2> QED BY <2>1, <2>2, <1>s
<1>2. /\ Items(t, v) \in Seq(Nat) /\ \A i \in 1 .. Size(t, v) : Item(t, v, i) \in Nat
  BY <1>1, <1>g, ItemsNat
<1>3. Size(t, v) = Len(Items(t, v)) /\ Size(t, v) \in Nat /\ DOMAIN Items(t, v) = 1 .. Size(t, v)
  BY <1>2, LenProperties DEF Size
<1>e. e \in Nat BY EntriesAssumption
<1>4. LeafPlace(Items(t, v), e, r) BY <1>2, <1>e, LeafRankIs
<1>5. r \in 1 .. Size(t, v) + 1 BY <1>4, <1>3 DEF LeafPlace
<1>6. \A i, j \in 1 .. Size(t, v) : i < j => Item(t, v, i) < Item(t, v, j)
  <2>1. LeavesSorted(t, N, R) BY DEF Ordered
  <2> QED BY <2>1, <1>1 DEF LeavesSorted
<1>7. SortedFrom(Items(t, v), 1)
  <2>1. \A i, j \in 1 .. Size(t, v) : i < j => Item(t, v, i) <= Item(t, v, j) BY <1>2, <1>6
  <2> QED BY <2>1, <1>3 DEF SortedFrom, Item
<1>8. \A i \in 1 .. Size(t, v) : e <= Item(t, v, i) <=> i >= r
  BY <1>3, <1>4, <1>7 DEF LeafPlace, Item
<1>9. r \in 1 .. Size(t, v) => Item(t, v, r) # e BY <1>3 DEF Found, Item
<1>10. ASSUME NEW i \in 1 .. Size(t, v)
       PROVE  /\ i < r => Item(t, v, i) < e
              /\ i >= r => e < Item(t, v, i)
  <2>1. Item(t, v, i) \in Nat /\ i \in Nat /\ r \in Nat BY <1>2, <1>3, <1>5
  <2>2. i < r => Item(t, v, i) < e
    <3>1. i < r => ~(i >= r) BY <2>1
    <3> QED BY <3>1, <2>1, <1>8, <1>e
  <2>3. ASSUME i >= r PROVE e < Item(t, v, i)
    <3>1. e <= Item(t, v, i) BY <2>3, <1>8
    <3>2. r \in 1 .. Size(t, v) BY <2>3, <2>1, <1>5, <1>3
    <3>3. CASE i = r BY <3>1, <3>2, <3>3, <1>9, <2>1, <1>e
    <3>4. CASE i # r
      <4>1. r < i BY <3>4, <2>3, <2>1
      <4>2. Item(t, v, r) < Item(t, v, i) BY <4>1, <3>2, <1>6
      <4>3. e <= Item(t, v, r)
        <5>1. r >= r BY <2>1
        <5> QED BY <5>1, <3>2, <1>8
      <4>4. Item(t, v, r) \in Nat BY <3>2, <1>2
      <4> QED BY <4>2, <4>3, <4>4, <2>1, <1>e
    <3> QED BY <3>3, <3>4
  <2> QED BY <2>2, <2>3
<1> QED BY <1>10

(* A search finds every entry that a leaf holds.                           *)
LEMMA HeldFound ==
  ASSUME NEW t, NEW N, NEW h, NEW nx, NEW pv, Good(t, N, h, nx, pv), NEW R, Ordered(t, N, nx, R),
         NEW w \in N, Kids(t, w) = 0, NEW i \in 1 .. Size(t, w), NEW e, e = Item(t, w, i)
  PROVE  Found(t, e)
<1>g. t \in Trees /\ Shape(t, N, h) BY DEF Good
<1>s. w \in Pages BY <1>g, ShapeFacts
<1>1. e \in Entries /\ Item(t, w, i) \in Nat BY <1>s, <1>g, ItemsNat
<1>2. e \in R[w]
  <2>1. LeavesSorted(t, N, R) BY DEF Ordered
  <2> QED BY <2>1 DEF LeavesSorted
<1>3. Hot(t, e) = w BY <1>1, <1>2, HotOf
<1>4. SUFFICES ASSUME ~Found(t, e) PROVE FALSE OBVIOUS
<1> DEFINE r == LeafRank(Items(t, w), e)
<1>5. r \in 1 .. Size(t, w) + 1 BY <1>1, <1>s, <1>g, RankInLeaf
<1>6. /\ i < r => Item(t, w, i) < e
      /\ i >= r => e < Item(t, w, i)
  BY <1>1, <1>3, <1>4, MissingPlace
<1> HIDE DEF r
<1>7. i \in Nat /\ r \in Nat
  <2>1. Size(t, w) \in Nat BY <1>s, <1>g, TreeTypes
  <2> QED BY <2>1, <1>5
<1> QED BY <1>1, <1>6, <1>7

(* InsertAt of an entry, place by place.                                   *)
LEMMA InsertedIs ==
  ASSUME NEW e \in Entries, NEW s \in Seq(Entries), NEW r \in 1 .. Len(s) + 1, NEW q, q = InsertAt(s, r, e)
  PROVE  /\ Len(q) = Len(s) + 1
         /\ \A i \in 1 .. Len(s) + 1 : q[i] = IF i < r THEN s[i] ELSE IF i = r THEN e ELSE s[i - 1]
<1>1. e \in Entries /\ s \in Seq(Entries) /\ r \in 1 .. Len(s) + 1 /\ q = InsertAt(s, r, e) OBVIOUS
<1> QED BY ONLY <1>1, InsertAtIs

(* An insertion into the leaf of the search keeps the order.               *)
LEMMA InsertOrdered ==
  ASSUME NEW t, NEW N, NEW h, NEW nx, NEW pv, Good(t, N, h, nx, pv), OrderedTree(t, N, nx),
         \A x \in N \ {t.root} : Size(t, x) >= 1,
         NEW e \in Entries, ~Found(t, e),
         NEW v, v = Hot(t, e), NEW r, r = LeafRank(Items(t, v), e),
         NEW q, q = InsertAt(Items(t, v), r, e), NEW t2, LeafChanged(t, t2, v, q)
  PROVE  OrderedTree(t2, N, nx)
<1>1. PICK R : Ordered(t, N, nx, R) BY DEF OrderedTree
<1>g. t \in Trees /\ Shape(t, N, h) /\ Matched(t, N) BY DEF Good
<1>s. /\ N \subseteq Pages
      /\ \A x \in N : Kids(t, x) \in Nat
      /\ \A x \in N : \A i \in 1 .. Kids(t, x) : Kid(t, x, i) \in N
  BY <1>g, ShapeFacts
<1>r. /\ RangesAre(t, R) /\ RangesDown(t, N, R) /\ Separates(t, N, R)
      /\ LeavesSorted(t, N, R) /\ RangesInRow(N, nx, R)
  BY <1>1 DEF Ordered
<1>2. v \in N /\ v \in Pages /\ Leaf(t, v) /\ Kids(t, v) = 0
  <2>1. v \in N /\ Leaf(t, v) BY HotIs
  <2>2. Kids(t, v) = 0 BY <2>1, <1>g DEF Matched
  <2> QED BY <2>1, <2>2, <1>s
<1> DEFINE n == Size(t, v)
<1>3. /\ Items(t, v) \in Seq(Nat) /\ n = Len(Items(t, v)) /\ n \in Nat
      /\ \A i \in 1 .. n : Item(t, v, i) \in Nat
  <2>1. /\ Items(t, v) \in Seq(Nat) /\ \A i \in 1 .. Size(t, v) : Item(t, v, i) \in Nat
    BY <1>2, <1>g, ItemsNat
  <2> QED BY <2>1, LenProperties DEF Size
<1>e. e \in Nat BY EntriesAssumption
<1>4. r \in 1 .. n + 1 BY <1>2, <1>g, RankInLeaf
<1> HIDE DEF n
<1>5. /\ Len(q) = n + 1
      /\ \A i \in 1 .. n + 1 : q[i] = IF i < r THEN Item(t, v, i) ELSE IF i = r THEN e ELSE Item(t, v, i - 1)
  <2> DEFINE s == Items(t, v)
  <2>1. s \in Seq(Entries) /\ r \in 1 .. Len(s) + 1 /\ q = InsertAt(s, r, e)
    BY <1>2, <1>3, <1>4, <1>g, TreeTypes
  <2> HIDE DEF s
  <2>2. Len(q) = Len(s) + 1 /\ \A i \in 1 .. Len(s) + 1 :
          q[i] = IF i < r THEN s[i] ELSE IF i = r THEN e ELSE s[i - 1]
    BY <2>1, InsertedIs
  <2> QED BY <2>2, <1>3 DEF Item, s
<1>6. /\ Size(t2, v) = n + 1 /\ \A i : Item(t2, v, i) = q[i]
      /\ \A x \in Pages \ {v} : /\ Size(t2, x) = Size(t, x)
                                /\ \A i : Item(t2, x, i) = Item(t, x, i)
  BY <1>2, <1>5, <1>g, LeafChangedFacts
<1>7. \A i \in 1 .. n : (i < r => Item(t, v, i) < e) /\ (i >= r => e < Item(t, v, i))
  BY <1>1, MissingPlace DEF n
<1>8. e \in R[v] BY <1>1, HotRange
<1>9. /\ t2.root = t.root
      /\ \A x \in N : Kids(t2, x) = Kids(t, x) /\ \A i : Kid(t2, x, i) = Kid(t, x, i)
  <2>1. OtherItems(t, t2) BY DEF LeafChanged
  <2>2. t2.root = t.root /\ \A x \in Pages : Childs(t2, x) = Childs(t, x) BY <2>1 DEF OtherItems
  <2> QED BY <2>2, <1>s DEF Kids, Kid
<1>10. \A x \in N : Kids(t, x) # 0 => \A i : Item(t2, x, i) = Item(t, x, i) BY <1>2, <1>6, <1>s
<1>11. RangesAre(t2, R) BY <1>r, <1>9 DEF RangesAre
<1>12. RangesDown(t2, N, R)
  <2>1. SUFFICES ASSUME NEW x \in N, NEW i \in 1 .. Kids(t, x), NEW y \in Nat
                 PROVE  y \in R[Kid(t, x, i)] <=> y \in R[x] /\ Passes(t2, x, i, y)
    BY <1>9 DEF RangesDown
  <2>2. Kids(t, x) # 0 BY <1>s
  <2>3. \A j : Item(t2, x, j) = Item(t, x, j) BY <2>2, <1>10
  <2>4. Passes(t2, x, i, y) <=> Passes(t, x, i, y) BY <2>3, <1>9 DEF Passes
  <2> QED BY <2>4, <1>r DEF RangesDown
<1>13. Separates(t2, N, R)
  <2>1. SUFFICES ASSUME NEW x \in N, NEW i \in 2 .. Kids(t, x)
                 PROVE  /\ Item(t2, x, i) \in R[x]
                        /\ Item(t2, Kid(t, x, i), 1) = Item(t2, x, i)
                        /\ \A j \in 2 .. Kids(t, x) : i < j => Item(t2, x, i) < Item(t2, x, j)
    BY <1>9 DEF Separates
  <2>2. Kids(t, x) # 0 /\ i \in 1 .. Kids(t, x) /\ i > 1 BY <1>s
  <2>3. \A j : Item(t2, x, j) = Item(t, x, j) BY <2>2, <1>10
  <2>4. /\ Item(t, x, i) \in R[x] /\ Item(t, Kid(t, x, i), 1) = Item(t, x, i)
        /\ \A j \in 2 .. Kids(t, x) : i < j => Item(t, x, i) < Item(t, x, j)
    BY <1>r DEF Separates
  <2> DEFINE c == Kid(t, x, i)
  <2>5. c \in N /\ c # t.root BY <2>2, <1>g, <1>s, RankOf
  <2>6. e \in R[c] => Item(t, x, i) <= e BY <2>2, <1>e, <1>r DEF RangesDown, Passes
  <2> HIDE DEF c
  <2>7. Item(t2, c, 1) = Item(t, c, 1)
    <3>1. CASE c # v BY <3>1, <2>5, <1>6, <1>s
    <3>2. CASE c = v
      <4>1. n >= 1 BY <3>2, <2>5 DEF n
      <4>2. 1 \in 1 .. n /\ 1 \in 1 .. n + 1 /\ Item(t, v, 1) \in Nat BY <4>1, <1>3
      <4>3. Item(t, v, 1) <= e BY <3>2, <2>4, <2>6, <1>8 DEF c
      <4>4. 1 < r
        <5>1. ~(1 >= r) BY <4>2, <4>3, <1>7, <1>e
        <5> QED BY <5>1, <1>4, <1>3
      <4>5. q[1] = Item(t, v, 1) BY <4>2, <4>4, <1>5
      <4> QED BY <3>2, <4>5, <1>6
    <3> QED BY <3>1, <3>2
  <2> QED BY <2>3, <2>4, <2>7 DEF c
<1>14. LeavesSorted(t2, N, R)
  <2>1. SUFFICES ASSUME NEW x \in N, Kids(t, x) = 0, NEW i \in 1 .. Size(t2, x)
                 PROVE  /\ Item(t2, x, i) \in R[x]
                        /\ \A j \in 1 .. Size(t2, x) : i < j => Item(t2, x, i) < Item(t2, x, j)
    BY <1>9 DEF LeavesSorted
  <2>2. CASE x # v
    <3>1. Size(t2, x) = Size(t, x) /\ \A j : Item(t2, x, j) = Item(t, x, j) BY <2>2, <1>6, <1>s
    <3> QED BY <3>1, <2>1, <1>r DEF LeavesSorted
  <2>3. CASE x = v
    <3>1. \A k \in 1 .. n : /\ Item(t, v, k) \in R[v]
                            /\ \A j \in 1 .. n : k < j => Item(t, v, k) < Item(t, v, j)
      BY <1>2, <1>r DEF LeavesSorted, n
    <3>2. i \in 1 .. n + 1 BY <2>3, <1>6
    <3>3. r \in Nat /\ i \in Nat /\ i >= 1 /\ i <= n + 1 /\ r >= 1 /\ r <= n + 1 BY <3>2, <1>3, <1>4
    <3>4. q[i] \in R[v]
      <4>1. CASE i < r
        <5>1. i \in 1 .. n BY <4>1, <3>3, <1>3
        <5> QED BY <5>1, <4>1, <3>1, <3>2, <1>5
      <4>2. CASE i = r BY <4>2, <3>2, <3>3, <1>5, <1>8
      <4>3. CASE i > r
        <5>1. i - 1 \in 1 .. n /\ ~(i < r) /\ i # r BY <4>3, <3>3, <1>3
        <5> QED BY <5>1, <3>1, <3>2, <1>5
      <4> QED BY <4>1, <4>2, <4>3, <3>3
    <3>5. ASSUME NEW j \in 1 .. n + 1, i < j PROVE q[i] < q[j]
      <4>0. j \in Nat /\ j >= 1 /\ j <= n + 1 BY <3>5, <1>3
      <4>i. q[i] = IF i < r THEN Item(t, v, i) ELSE IF i = r THEN e ELSE Item(t, v, i - 1) BY <3>2, <1>5
      <4>j. q[j] = IF j < r THEN Item(t, v, j) ELSE IF j = r THEN e ELSE Item(t, v, j - 1) BY <1>5
      <4>1. CASE j < r
        <5>1. i \in 1 .. n /\ j \in 1 .. n /\ i < r BY <4>1, <4>0, <3>5, <3>3, <1>3
        <5> QED BY <5>1, <4>1, <4>i, <4>j, <3>1, <3>5
      <4>2. CASE j = r
        <5>1. i \in 1 .. n /\ i < r /\ ~(j < r) BY <4>2, <4>0, <3>5, <3>3, <1>3
        <5> QED BY <5>1, <4>2, <4>i, <4>j, <1>7
      <4>3. CASE j > r /\ i < r
        <5>1. i \in 1 .. n /\ j - 1 \in 1 .. n /\ j - 1 >= r /\ ~(j < r) /\ j # r
          BY <4>3, <4>0, <3>5, <3>3, <1>3
        <5>2. Item(t, v, i) < e /\ e < Item(t, v, j - 1) BY <5>1, <4>3, <1>7
        <5>3. Item(t, v, i) \in Nat /\ Item(t, v, j - 1) \in Nat BY <5>1, <1>3
        <5>4. q[i] = Item(t, v, i) /\ q[j] = Item(t, v, j - 1) BY <5>1, <4>3, <4>i, <4>j
        <5> QED BY <5>2, <5>3, <5>4, <1>e
      <4>4. CASE j > r /\ i = r
        <5>1. j - 1 \in 1 .. n /\ j - 1 >= r /\ ~(j < r) /\ j # r /\ ~(i < r)
          BY <4>4, <4>0, <3>5, <3>3, <1>3
        <5>2. e < Item(t, v, j - 1) BY <5>1, <1>7
        <5>4. q[i] = e /\ q[j] = Item(t, v, j - 1) BY <5>1, <4>4, <4>i, <4>j
        <5> QED BY <5>2, <5>4
      <4>5. CASE j > r /\ i > r
        <5>1. /\ i - 1 \in 1 .. n /\ j - 1 \in 1 .. n /\ i - 1 < j - 1
              /\ ~(j < r) /\ j # r /\ ~(i < r) /\ i # r
          BY <4>5, <4>0, <3>5, <3>3, <1>3
        <5>2. Item(t, v, i - 1) < Item(t, v, j - 1) BY <5>1, <3>1
        <5>4. q[i] = Item(t, v, i - 1) /\ q[j] = Item(t, v, j - 1) BY <5>1, <4>i, <4>j
        <5> QED BY <5>2, <5>4
      <4> QED BY <4>0, <3>3, <4>1, <4>2, <4>3, <4>4, <4>5
    <3> QED BY <3>4, <3>5, <2>3, <1>6
  <2> QED BY <2>2, <2>3
<1>15. Ordered(t2, N, nx, R) BY <1>11, <1>12, <1>13, <1>14, <1>r DEF Ordered
<1> QED BY <1>15 DEF OrderedTree

(* An entry less.                                                          *)
Removed(t, t2, e) ==
  /\ HeldIn(t) \subseteq HeldIn(t2) \cup {e}
  /\ Cardinality(Places(t)) = Cardinality(Places(t2)) + 1

(* An entry is taken out of a leaf.                                        *)
LEMMA ItemRemoved ==
  ASSUME NEW t \in Trees, NEW t2, NEW v \in Pages, Leaf(t, v),
         NEW r \in 1 .. Size(t, v), NEW e, e = Item(t, v, r),
         NEW q, q = RemoveAt(Items(t, v), r), LeafChanged(t, t2, v, q)
  PROVE  /\ Size(t2, v) = Size(t, v) - 1
         /\ Removed(t, t2, e)
<1> DEFINE n == Size(t, v)
           s == <<v, n>>
<1>1. Items(t, v) \in Seq(Entries) /\ n = Len(Items(t, v)) /\ n \in Nat /\ LeafSize(t, v) = n /\ n >= 1
  BY TreeTypes DEF Size, LeafSize
<1> HIDE DEF n
<1>2. /\ Len(q) = n - 1
      /\ \A i \in 1 .. n - 1 : q[i] = IF i < r THEN Item(t, v, i) ELSE Item(t, v, i + 1)
  BY <1>1, RemoveAtIs DEF Item, n
<1>3. /\ t2 \in Trees /\ LeafSize(t2, v) = n - 1 /\ Size(t2, v) = n - 1
      /\ \A i : Item(t2, v, i) = q[i]
      /\ \A x \in Pages \ {v} : /\ LeafSize(t2, x) = LeafSize(t, x)
                                /\ \A i : Item(t2, x, i) = Item(t, x, i)
  <2>1. /\ t2 \in Trees /\ LeafSize(t2, v) = Len(q) /\ Size(t2, v) = Len(q)
        /\ \A i : Item(t2, v, i) = q[i]
        /\ \A x \in Pages \ {v} : /\ LeafSize(t2, x) = LeafSize(t, x) /\ Size(t2, x) = Size(t, x)
                                  /\ \A i : Item(t2, x, i) = Item(t, x, i)
    BY LeafChangedFacts
  <2> HIDE DEF s
  <2> QED BY <2>1, <1>2
<1>r. r \in 1 .. n /\ r \in Nat BY <1>1 DEF n
<1>4. Places(t) = Places(t2) \cup {s} /\ s \notin Places(t2)
  <2>1. \A x \in Pages, i \in Nat : i \in 1 .. LeafSize(t, x) <=> i \in 1 .. LeafSize(t2, x) \/ <<x, i>> = s
    <3>1. SUFFICES ASSUME NEW x \in Pages, NEW i \in Nat
                   PROVE  i \in 1 .. LeafSize(t, x) <=> i \in 1 .. LeafSize(t2, x) \/ <<x, i>> = s
      OBVIOUS
    <3>2. CASE x = v
      <4>1. i \in 1 .. n <=> i \in 1 .. n - 1 \/ i = n BY <1>1
      <4> QED BY <4>1, <3>2, <1>1, <1>3
    <3>3. CASE x # v BY <3>3, <1>3
    <3> QED BY <3>2, <3>3
  <2>2. s \in Pages \X Nat /\ n \notin 1 .. n - 1 BY <1>1
  <2>3. s \notin Places(t2) BY <2>2, <1>3 DEF Places
  <2>4. ASSUME NEW z \in Pages \X Nat PROVE z \in Places(t) <=> z \in Places(t2) \/ z = s
    <3>1. z[1] \in Pages /\ z[2] \in Nat /\ z = <<z[1], z[2]>> OBVIOUS
    <3>2. z[2] \in 1 .. LeafSize(t, z[1]) <=> z[2] \in 1 .. LeafSize(t2, z[1]) \/ z = s BY <2>1, <3>1
    <3> QED BY <3>2 DEF Places
  <2>5. Places(t) \subseteq Pages \X Nat /\ Places(t2) \subseteq Pages \X Nat BY DEF Places
  <2> HIDE DEF s
  <2> QED BY <2>2, <2>3, <2>4, <2>5
<1>5. Cardinality(Places(t)) = Cardinality(Places(t2)) + 1
  <2>1. IsFiniteSet(Places(t2)) BY <1>3, PlacesFinite
  <2> QED BY <2>1, <1>4, FS_AddElement
<1>7. HeldIn(t) \subseteq HeldIn(t2) \cup {e}
  <2>3. \A x \in Pages, i \in Nat : i \in 1 .. LeafSize(t2, x) => Item(t2, x, i) \in HeldIn(t2)
    <3>1. SUFFICES ASSUME NEW x \in Pages, NEW i \in Nat, i \in 1 .. LeafSize(t2, x)
                   PROVE  Item(t2, x, i) \in HeldIn(t2)
      OBVIOUS
    <3>2. <<x, i>> \in Places(t2) BY <3>1 DEF Places
    <3>3. Item(t2, <<x, i>>[1], <<x, i>>[2]) \in HeldIn(t2) BY <3>2 DEF HeldIn
    <3> QED BY <3>3
  <2>1. SUFFICES ASSUME NEW z \in Places(t) PROVE Item(t, z[1], z[2]) \in HeldIn(t2) \cup {e}
    BY DEF HeldIn
  <2>2. z[1] \in Pages /\ z[2] \in Nat /\ z[2] \in 1 .. LeafSize(t, z[1]) BY DEF Places
  <2>4. CASE z[1] # v
    <3>1. Item(t2, z[1], z[2]) = Item(t, z[1], z[2]) /\ z[2] \in 1 .. LeafSize(t2, z[1])
      BY <2>2, <2>4, <1>3
    <3> QED BY <3>1, <2>2, <2>3
  <2>5. CASE z[1] = v
    <3> DEFINE i == z[2]
    <3>1. i \in 1 .. n /\ i \in Nat BY <2>2, <2>5, <1>1
    <3> HIDE DEF i
    <3>3. CASE i < r
      <4>0. i \in 1 .. n - 1 BY <3>1, <3>3, <1>r, <1>1
      <4>1. Item(t2, v, i) = Item(t, v, i) BY <4>0, <3>3, <1>2, <1>3
      <4>2. Item(t2, v, i) \in HeldIn(t2) BY <4>0, <3>1, <2>3, <1>3
      <4> QED BY <4>1, <4>2, <2>5 DEF i
    <3>4. CASE i = r BY <3>4, <2>5 DEF i
    <3>5. CASE i > r
      <4>0. i - 1 \in 1 .. n - 1 /\ i - 1 \in Nat /\ (i - 1) + 1 = i /\ ~(i - 1 < r)
        BY <3>1, <3>5, <1>r, <1>1
      <4>1. Item(t2, v, i - 1) = Item(t, v, i) BY <4>0, <1>2, <1>3
      <4>2. Item(t2, v, i - 1) \in HeldIn(t2) BY <4>0, <2>3, <1>3
      <4> QED BY <4>1, <4>2, <2>5 DEF i
    <3> QED BY <3>1, <3>3, <3>4, <3>5, <1>r
  <2> QED BY <2>4, <2>5
<1>9. Size(t2, v) = Size(t, v) - 1 BY <1>3 DEF n
<1> QED BY <1>5, <1>7, <1>9 DEF Removed

(***************************************************************************)
(* The tree between two operations, when the table has the entries rs; ord *)
(* says that entries were only inserted.                                   *)
(***************************************************************************)

Whole(t, N, rs) ==
  /\ OverSized(t, N, 0)
  /\ rs \subseteq HeldIn(t)
  /\ t.entryNum = Cardinality(Places(t))

InOrderWith(t, N, nx, rs) == OrderedTree(t, N, nx) /\ HeldIn(t) \subseteq rs

TreeSound(t, rs, ord) ==
  \E N, h, nx, pv : /\ Good(t, N, h, nx, pv)
                    /\ t.status = "ok" => Whole(t, N, rs) /\ (ord => InOrderWith(t, N, nx, rs))

(* headPage.entryNum changes.                                              *)
LEMMA CountSet ==
  ASSUME NEW t \in Trees, NEW n \in Nat, NEW t2, t2 = [t EXCEPT !.entryNum = n]
  PROVE  /\ t2 \in Trees
         /\ t2.node = t.node /\ t2.root = t.root /\ t2.right = t.right /\ t2.nextFree = t.nextFree
         /\ t2.pageNum = t.pageNum /\ t2.status = t.status /\ t2.entryNum = n
BY DEF Trees

(* It does not matter for the rest.                                        *)
LEMMA CountSetGood ==
  ASSUME NEW t, NEW t2, NEW N, NEW h, NEW nx, NEW pv, Good(t, N, h, nx, pv), t2 \in Trees,
         t2.node = t.node, t2.root = t.root, t2.right = t.right, t2.nextFree = t.nextFree,
         t2.pageNum = t.pageNum
  PROVE  /\ Good(t2, N, h, nx, pv)
         /\ OverSized(t, N, 0) => OverSized(t2, N, 0)
         /\ HeldIn(t2) = HeldIn(t) /\ Places(t2) = Places(t)
         /\ OrderedTree(t, N, nx) => OrderedTree(t2, N, nx)
<1>1. /\ t \in Trees /\ Shape(t, N, h) /\ Links(t, N, h, nx, pv) /\ LeafLinks(t, N, nx, pv)
      /\ FreeList(t, N) /\ Matched(t, N) /\ Blank(t, N)
  BY DEF Good
<1>2. \A x : /\ Items(t2, x) = Items(t, x) /\ Childs(t2, x) = Childs(t, x) /\ Leaf(t2, x) = Leaf(t, x)
             /\ Parent(t2, x) = Parent(t, x) /\ Left(t2, x) = Left(t, x) /\ Right(t2, x) = Right(t, x)
             /\ NextFree(t2, x) = NextFree(t, x)
  BY DEF Items, Childs, Leaf, Parent, Left, Right, NextFree
<1>3. \A x : /\ Kids(t2, x) = Kids(t, x) /\ Size(t2, x) = Size(t, x) /\ LeafSize(t2, x) = LeafSize(t, x)
             /\ \A i : Kid(t2, x, i) = Kid(t, x, i) /\ Item(t2, x, i) = Item(t, x, i)
  BY <1>2 DEF Kids, Size, LeafSize, Kid, Item
<1>4. SameTree(t, t2) BY <1>2, <1>3 DEF SameTree
<1>5. Shape(t2, N, h) /\ Links(t2, N, h, nx, pv) BY <1>1, <1>4, SameTreeTree
<1>6. LeafLinks(t2, N, nx, pv) BY <1>1, <1>2, <1>3 DEF LeafLinks
<1>7. FreeList(t2, N) BY <1>1, <1>2, FreeListKept
<1>8. Matched(t2, N) BY <1>1, <1>2, <1>3 DEF Matched
<1>9. Blank(t2, N) BY <1>1, <1>2 DEF Blank
<1>10. Good(t2, N, h, nx, pv) BY <1>5, <1>6, <1>7, <1>8, <1>9 DEF Good
<1>11. OverSized(t, N, 0) => OverSized(t2, N, 0) BY <1>2, <1>3 DEF OverSized
<1>12. Places(t2) = Places(t) BY <1>3 DEF Places
<1>13. HeldIn(t2) = HeldIn(t) BY <1>3, <1>12 DEF HeldIn
<1>14. ASSUME OrderedTree(t, N, nx) PROVE OrderedTree(t2, N, nx)
  <2>1. PICK R : Ordered(t, N, nx, R) BY <1>14 DEF OrderedTree
  <2>2. /\ RangesAre(t, R) /\ RangesDown(t, N, R) /\ Separates(t, N, R)
        /\ LeavesSorted(t, N, R) /\ RangesInRow(N, nx, R)
    BY <2>1 DEF Ordered
  <2>3. RangesAre(t2, R) BY <2>2 DEF RangesAre
  <2>4. \A x, i, y : Passes(t2, x, i, y) <=> Passes(t, x, i, y) BY <1>3 DEF Passes
  <2>5. RangesDown(t2, N, R) BY <2>2, <2>4, <1>3 DEF RangesDown
  <2>6. Separates(t2, N, R) BY <2>2, <1>3 DEF Separates
  <2>7. LeavesSorted(t2, N, R) BY <2>2, <1>3 DEF LeavesSorted
  <2>8. Ordered(t2, N, nx, R) BY <2>2, <2>3, <2>5, <2>6, <2>7 DEF Ordered
  <2> QED BY <2>8 DEF OrderedTree
<1> QED BY <1>10, <1>11, <1>12, <1>13, <1>14

(* insert adds the entry, unless the search finds it.                      *)
LEMMA InsertSound ==
  ASSUME NEW t, NEW rs, NEW ord \in BOOLEAN, TreeSound(t, rs, ord), t.status = "ok",
         t.pageNum + Height(t)[t.root] <= MaxNode, NEW e \in Entries
  PROVE  TreeSound(InsertInto(t, e), rs \cup {e}, ord)
<1>1. PICK N, h, nx, pv : /\ Good(t, N, h, nx, pv) /\ Whole(t, N, rs)
                          /\ ord => InOrderWith(t, N, nx, rs)
  BY DEF TreeSound
<1>o. ord => OrderedTree(t, N, nx) /\ HeldIn(t) \subseteq rs BY <1>1 DEF InOrderWith
<1>2. OverSized(t, N, 0) /\ rs \subseteq HeldIn(t) /\ t.entryNum = Cardinality(Places(t))
  BY <1>1 DEF Whole
<1>g. t \in Trees /\ Shape(t, N, h) BY <1>1 DEF Good
<1>s. N \subseteq Pages /\ 0 \notin Pages /\ t.root \in N BY <1>g, ShapeFacts
<1> DEFINE v == Hot(t, e)
           r == LeafRank(Items(t, v), e)
           q == InsertAt(Items(t, v), r, e)
           t1 == [t EXCEPT !.node[v] = InsertData(@, r, e)]
           u == SolveOverflow(t1, v)
<1>3. InsertInto(t, e) = IF Found(t, e) THEN t
                         ELSE IF u.status = "ok" THEN [u EXCEPT !.entryNum = @ + 1] ELSE u
  BY DEF InsertInto
<1>4. v \in N /\ v \in Pages /\ Leaf(t, v) /\ h[v] = 1 BY <1>1, <1>s, HotIs
<1>5. r \in 1 .. Size(t, v) + 1 BY <1>4, <1>g, RankInLeaf
<1>6. t1 = WithNode(t, v, [t.node[v] EXCEPT !.items = q])
  <2>1. InsertData(t.node[v], r, e) = [t.node[v] EXCEPT !.items = InsertAt(t.node[v].items, r, e)]
    BY DEF InsertData
  <2> HIDE DEF v, r
  <2> QED BY <2>1 DEF WithNode, Items
<1>7. CASE Found(t, e)
  <2>1. e \in HeldIn(t) BY <1>1, <1>7, FoundIs
  <2>2. rs \cup {e} \subseteq HeldIn(t) BY <2>1, <1>2
  <2>3. Whole(t, N, rs \cup {e}) BY <2>2, <1>2 DEF Whole
  <2>4. ord => InOrderWith(t, N, nx, rs \cup {e}) BY <1>o DEF InOrderWith
  <2> QED BY <2>3, <2>4, <1>1, <1>3, <1>7 DEF TreeSound
<1>8. CASE ~Found(t, e)
  <2> HIDE DEF v, r, t1
  <2>1. q \in Seq(Entries)
    <3>1. Items(t, v) \in Seq(Entries) /\ r \in 1 .. Len(Items(t, v)) + 1
      BY <1>4, <1>5, <1>g, TreeTypes DEF Size
    <3> QED BY <3>1, InsertAtIs
  <2>i. ASSUME ord PROVE OrderedTree(t1, N, nx)
    <3>1. LeafChanged(t, t1, v, q) BY <2>1, <1>4, <1>6, <1>g, LeafChange
    <3>2. \A x \in N \ {t.root} : Size(t, x) >= 1
      <4>1. \A x \in N \ {t.root} : Size(t, x) >= MinItems /\ Size(t, x) \in Nat
        BY <1>2, <1>s, <1>g, TreeTypes DEF OverSized
      <4> QED BY <4>1, MinItemsIs
    <3> QED BY <2>i, <3>1, <3>2, <1>1, <1>8, <1>o, InsertOrdered DEF v, r, q
  <2> HIDE DEF q
  <2>2. LeafChanged(t, t1, v, q) BY <2>1, <1>4, <1>6, <1>g, LeafChange
  <2>3. Size(t1, v) = Size(t, v) + 1 /\ Added(t, t1, e)
    BY <2>2, <1>4, <1>5, <1>g, ItemAdded DEF q
  <2>4. OtherItems(t, t1) /\ t1.status = "ok" BY <2>2 DEF LeafChanged
  <2>5. Good(t1, N, h, nx, pv) BY <2>4, <1>1, OtherItemsGood
  <2>6. t1.root = t.root /\ t1.pageNum = t.pageNum /\ t1.entryNum = t.entryNum BY <2>4 DEF OtherItems
  <2>7. OverSized(t1, N, v)
    <3>1. /\ \A x \in N : Size(t, x) <= IF x = 0 THEN EntryLimit + 1 ELSE EntryLimit
          /\ \A x \in N \ {t.root} : Size(t, x) >= MinItems
          /\ ~Leaf(t, t.root) => Size(t, t.root) >= 2
      BY <1>2 DEF OverSized
    <3>2. \A x \in N : Size(t, x) <= EntryLimit /\ Size(t, x) \in Nat BY <3>1, <1>s, <1>g, TreeTypes
    <3>3. /\ \A x \in Pages \ {v} : Size(t1, x) = Size(t, x)
          /\ \A x \in Pages : Leaf(t1, x) = Leaf(t, x)
      BY <2>2, <1>4, <1>g, LeafChangedFacts
    <3>4. \A x \in N : Size(t1, x) <= IF x = v THEN EntryLimit + 1 ELSE EntryLimit
      <4>1. SUFFICES ASSUME NEW x \in N
                     PROVE  Size(t1, x) <= IF x = v THEN EntryLimit + 1 ELSE EntryLimit
        OBVIOUS
      <4>2. CASE x = v BY <4>2, <2>3, <3>2, EntryLimitAssumption
      <4>3. CASE x # v BY <4>3, <3>2, <3>3, <1>s
      <4> QED BY <4>2, <4>3
    <3>5. \A x \in N \ {t1.root} : Size(t1, x) >= MinItems
      <4>1. SUFFICES ASSUME NEW x \in N \ {t.root} PROVE Size(t1, x) >= MinItems BY <2>6
      <4>2. Size(t, x) >= MinItems /\ Size(t, x) \in Nat BY <3>1, <3>2
      <4>3. CASE x = v BY <4>2, <4>3, <2>3, MinItemsIs
      <4>4. CASE x # v BY <4>2, <4>4, <3>3, <1>s
      <4> QED BY <4>3, <4>4
    <3>6. ~Leaf(t1, t1.root) => Size(t1, t1.root) >= 2
      <4>1. t.root \in Pages BY <1>s
      <4>2. CASE t.root = v BY <4>2, <4>1, <3>3, <2>6, <1>4
      <4>3. CASE t.root # v BY <4>3, <4>1, <3>1, <3>3, <2>6
      <4> QED BY <4>2, <4>3
    <3> QED BY <3>4, <3>5, <3>6 DEF OverSized
  <2>8. t1.pageNum + h[t1.root] <= MaxNode
    <3>1. Height(t)[t.root] = h[t.root] BY <1>g, <1>s, HeightIs
    <3> QED BY <3>1, <2>6
  <2>9. Sound(u, t1, ord) BY <2>i, <2>4, <2>5, <2>7, <2>8, <1>4, SolveOverflowSound
  <2> HIDE DEF u
  <2>10. PICK N2, h2, nx2, pv2 :
           /\ Good(u, N2, h2, nx2, pv2) /\ OverSized(u, N2, 0)
           /\ SameEntries(t1, u) /\ u.entryNum = t1.entryNum
           /\ (ord /\ u.status = "ok") => OrderedTree(u, N2, nx2)
    BY <2>9 DEF Sound
  <2>11. u \in Trees BY <2>10 DEF Good
  <2>12. /\ HeldIn(u) = HeldIn(t) \cup {e}
         /\ Cardinality(Places(u)) = t.entryNum + 1
    BY <2>3, <2>10, <1>2 DEF Added, SameEntries
  <2>13. CASE u.status = "ok"
    <3> DEFINE t2 == [u EXCEPT !.entryNum = @ + 1]
    <3>1. InsertInto(t, e) = t2 BY <1>3, <1>8, <2>13
    <3>2. u.entryNum \in Nat /\ u.entryNum + 1 \in Nat BY <2>11 DEF Trees
    <3>3. t2 = [u EXCEPT !.entryNum = u.entryNum + 1] BY <2>11 DEF Trees
    <3> HIDE DEF t2
    <3>4. /\ t2 \in Trees
          /\ t2.node = u.node /\ t2.root = u.root /\ t2.right = u.right /\ t2.nextFree = u.nextFree
          /\ t2.pageNum = u.pageNum /\ t2.status = u.status /\ t2.entryNum = u.entryNum + 1
      BY <3>2, <3>3, <2>11, CountSet
    <3>5. /\ Good(t2, N2, h2, nx2, pv2) /\ OverSized(t2, N2, 0)
          /\ HeldIn(t2) = HeldIn(u) /\ Places(t2) = Places(u)
          /\ OrderedTree(u, N2, nx2) => OrderedTree(t2, N2, nx2)
      BY <3>4, <2>10, CountSetGood
    <3>6. t2.entryNum = Cardinality(Places(t2)) BY <3>4, <3>5, <2>6, <2>10, <2>12
    <3>7. rs \cup {e} \subseteq HeldIn(t2) BY <3>5, <2>12, <1>2
    <3>8. Whole(t2, N2, rs \cup {e}) BY <3>5, <3>6, <3>7 DEF Whole
    <3>9. ord => InOrderWith(t2, N2, nx2, rs \cup {e})
      <4>1. ord => HeldIn(t2) \subseteq rs \cup {e} BY <3>5, <2>12, <1>o
      <4> QED BY <4>1, <3>5, <2>10, <2>13 DEF InOrderWith
    <3> QED BY <3>1, <3>5, <3>8, <3>9 DEF TreeSound
  <2>14. CASE u.status # "ok"
    <3>1. InsertInto(t, e) = u BY <1>3, <1>8, <2>14
    <3> QED BY <3>1, <2>10, <2>14 DEF TreeSound
  <2> QED BY <2>13, <2>14
<1> QED BY <1>7, <1>8

(* remove takes the entry out, if the search finds it.                     *)
LEMMA RemoveSound ==
  ASSUME NEW t, NEW rs, TreeSound(t, rs, FALSE), t.status = "ok", NEW e \in Entries
  PROVE  TreeSound(RemoveFrom(t, e), rs \ {e}, FALSE)
<1>1. PICK N, h, nx, pv : Good(t, N, h, nx, pv) /\ Whole(t, N, rs) BY DEF TreeSound
<1>2. OverSized(t, N, 0) /\ rs \subseteq HeldIn(t) /\ t.entryNum = Cardinality(Places(t))
  BY <1>1 DEF Whole
<1>g. t \in Trees /\ Shape(t, N, h) BY <1>1 DEF Good
<1>s. N \subseteq Pages /\ 0 \notin Pages /\ t.root \in N BY <1>g, ShapeFacts
<1> DEFINE v == Hot(t, e)
           r == LeafRank(Items(t, v), e)
           q == RemoveAt(Items(t, v), r)
           t1 == [t EXCEPT !.node[v].items = RemoveAt(@, LeafRank(@, e))]
           u == SolveUnderflow(t1, v)
<1>3. RemoveFrom(t, e) = IF ~Found(t, e) THEN t
                         ELSE IF u.status = "ok" THEN [u EXCEPT !.entryNum = @ - 1] ELSE u
  BY DEF RemoveFrom
<1>4. v \in N /\ v \in Pages /\ Leaf(t, v) /\ h[v] = 1 BY <1>1, <1>s, HotIs
<1>6. t1 = WithNode(t, v, [t.node[v] EXCEPT !.items = q])
  BY DEF WithNode, Items
<1>7. CASE ~Found(t, e)
  <2>2. rs \ {e} \subseteq HeldIn(t) BY <1>2
  <2>3. Whole(t, N, rs \ {e}) BY <2>2, <1>2 DEF Whole
  <2> QED BY <2>3, <1>1, <1>3, <1>7 DEF TreeSound
<1>8. CASE Found(t, e)
  <2>0. r \in 1 .. Size(t, v) /\ e = Item(t, v, r) BY <1>1, <1>8, FoundIs
  <2> HIDE DEF v, r, t1
  <2>1. q \in Seq(Entries)
    <3>1. Items(t, v) \in Seq(Entries) /\ r \in 1 .. Len(Items(t, v))
      BY <1>4, <2>0, <1>g, TreeTypes DEF Size
    <3> QED BY <3>1, RemoveAtIs
  <2> HIDE DEF q
  <2>2. LeafChanged(t, t1, v, q) BY <2>1, <1>4, <1>6, <1>g, LeafChange
  <2>3. Size(t1, v) = Size(t, v) - 1 /\ Removed(t, t1, e)
    BY <2>0, <2>2, <1>4, <1>g, ItemRemoved DEF q
  <2>4. OtherItems(t, t1) /\ t1.status = "ok" BY <2>2 DEF LeafChanged
  <2>5. Good(t1, N, h, nx, pv) BY <2>4, <1>1, OtherItemsGood
  <2>6. t1.root = t.root /\ t1.pageNum = t.pageNum /\ t1.entryNum = t.entryNum BY <2>4 DEF OtherItems
  <2>7. UnderSized(t1, N, v)
    <3>1. /\ \A x \in N : Size(t, x) <= IF x = 0 THEN EntryLimit + 1 ELSE EntryLimit
          /\ \A x \in N \ {t.root} : Size(t, x) >= MinItems
          /\ ~Leaf(t, t.root) => Size(t, t.root) >= 2
      BY <1>2 DEF OverSized
    <3>2. \A x \in N : Size(t, x) <= EntryLimit /\ Size(t, x) \in Nat BY <3>1, <1>s, <1>g, TreeTypes
    <3>3. /\ \A x \in Pages \ {v} : Size(t1, x) = Size(t, x)
          /\ \A x \in Pages : Leaf(t1, x) = Leaf(t, x)
      BY <2>2, <1>4, <1>g, LeafChangedFacts
    <3>4. \A x \in N : Size(t1, x) <= EntryLimit
      <4>1. SUFFICES ASSUME NEW x \in N PROVE Size(t1, x) <= EntryLimit OBVIOUS
      <4>2. CASE x = v BY <4>2, <2>3, <3>2, EntryLimitAssumption
      <4>3. CASE x # v BY <4>3, <3>2, <3>3, <1>s
      <4> QED BY <4>2, <4>3
    <3>5. \A x \in N \ {t1.root} : Size(t1, x) >= IF x = v THEN MinItems - 1 ELSE MinItems
      <4>1. SUFFICES ASSUME NEW x \in N \ {t.root}
                     PROVE  Size(t1, x) >= IF x = v THEN MinItems - 1 ELSE MinItems
        BY <2>6
      <4>2. Size(t, x) >= MinItems /\ Size(t, x) \in Nat BY <3>1, <3>2
      <4>3. CASE x = v BY <4>2, <4>3, <2>3, MinItemsIs
      <4>4. CASE x # v BY <4>2, <4>4, <3>3, <1>s
      <4> QED BY <4>3, <4>4
    <3>6. ~Leaf(t1, t1.root) => Size(t1, t1.root) >= IF t1.root = v THEN 1 ELSE 2
      <4>1. t.root \in Pages BY <1>s
      <4>2. CASE t.root = v BY <4>2, <4>1, <3>3, <2>6, <1>4
      <4>3. CASE t.root # v BY <4>3, <4>1, <3>1, <3>3, <2>6
      <4> QED BY <4>2, <4>3
    <3> QED BY <3>4, <3>5, <3>6 DEF UnderSized
  <2>9. Settled(u, t1) BY <2>4, <2>5, <2>7, <1>4, SolveUnderflowSettled
  <2> HIDE DEF u
  <2>10. PICK N2, h2, nx2, pv2 :
           /\ Good(u, N2, h2, nx2, pv2) /\ (u.status = "ok" => OverSized(u, N2, 0))
           /\ SameEntries(t1, u) /\ u.entryNum = t1.entryNum
    BY <2>9 DEF Settled
  <2>11. u \in Trees BY <2>10 DEF Good
  <2>12. /\ HeldIn(t) \subseteq HeldIn(u) \cup {e}
         /\ t.entryNum = Cardinality(Places(u)) + 1
    BY <2>3, <2>10, <1>2 DEF Removed, SameEntries
  <2>13. CASE u.status = "ok"
    <3> DEFINE t2 == [u EXCEPT !.entryNum = @ - 1]
    <3>1. RemoveFrom(t, e) = t2 BY <1>3, <1>8, <2>13
    <3>2. u.entryNum - 1 \in Nat /\ u.entryNum - 1 = Cardinality(Places(u))
      <4>1. Cardinality(Places(u)) \in Nat BY <2>11, PlacesFinite, FS_CardinalityType
      <4> QED BY <4>1, <2>6, <2>10, <2>12
    <3>3. t2 = [u EXCEPT !.entryNum = u.entryNum - 1] BY <2>11 DEF Trees
    <3> HIDE DEF t2
    <3>4. /\ t2 \in Trees
          /\ t2.node = u.node /\ t2.root = u.root /\ t2.right = u.right /\ t2.nextFree = u.nextFree
          /\ t2.pageNum = u.pageNum /\ t2.status = u.status /\ t2.entryNum = u.entryNum - 1
      BY <3>2, <3>3, <2>11, CountSet
    <3>5. /\ Good(t2, N2, h2, nx2, pv2) /\ OverSized(t2, N2, 0)
          /\ HeldIn(t2) = HeldIn(u) /\ Places(t2) = Places(u)
      BY <3>4, <2>10, <2>13, CountSetGood
    <3>6. t2.entryNum = Cardinality(Places(t2)) BY <3>2, <3>4, <3>5
    <3>7. rs \ {e} \subseteq HeldIn(t2) BY <3>5, <2>12, <1>2
    <3>8. Whole(t2, N2, rs \ {e}) BY <3>5, <3>6, <3>7 DEF Whole
    <3> QED BY <3>1, <3>5, <3>8 DEF TreeSound
  <2>14. CASE u.status # "ok"
    <3>1. RemoveFrom(t, e) = u BY <1>3, <1>8, <2>14
    <3> QED BY <3>1, <2>10, <2>14 DEF TreeSound
  <2> QED BY <2>13, <2>14
<1> QED BY <1>7, <1>8

(***************************************************************************)
(* The inductive invariant.                                                *)
(***************************************************************************)

IInv == TreeSound(tree, rows, FALSE) /\ rows \subseteq Entries

(* While entries are only inserted the tree is in order too.               *)
IInvGrowing == TreeSound(tree, rows, TRUE) /\ rows \subseteq Entries

(* The parts of the tree of a new index.                                   *)
LEMMA EmptyTreeType ==
  /\ EmptyTree \in Trees
  /\ EmptyTree.root = 1 /\ EmptyTree.right = 1 /\ EmptyTree.nextFree = 2
  /\ EmptyTree.pageNum = 2 /\ EmptyTree.entryNum = 0 /\ EmptyTree.status = "ok"
  /\ 1 \in Pages
  /\ \A x \in Pages :
       /\ Leaf(EmptyTree, x) <=> x = 1
       /\ Parent(EmptyTree, x) = 0 /\ Left(EmptyTree, x) = 0 /\ Right(EmptyTree, x) = 0
       /\ NextFree(EmptyTree, x) = IF x = 1 THEN 2 ELSE 0
       /\ Kids(EmptyTree, x) = 0 /\ Size(EmptyTree, x) = 0
<1> DEFINE empty == [EmptyNode EXCEPT !.leaf = TRUE, !.next_free = 2]
<1>0. 1 \in Pages BY MaxNodeAssumption DEF Pages
<1>1. empty \in TreeNodes /\ EmptyNode \in TreeNodes
  <2>1. <<>> \in Seq(Entries) /\ <<>> \in Seq(Pages) OBVIOUS
  <2> QED BY <2>1 DEF TreeNodes, EmptyNode, NULL_NODE
<1>2. empty.leaf = TRUE /\ empty.parent = 0 /\ empty.left = 0 /\ empty.right = 0
      /\ empty.next_free = 2 /\ empty.items = <<>> /\ empty.childs = <<>>
  BY DEF EmptyNode, NULL_NODE
<1>3. EmptyNode.leaf = FALSE /\ EmptyNode.parent = 0 /\ EmptyNode.left = 0 /\ EmptyNode.right = 0
      /\ EmptyNode.next_free = 0 /\ EmptyNode.items = <<>> /\ EmptyNode.childs = <<>>
  BY DEF EmptyNode, NULL_NODE
<1>4. EmptyTree = [node |-> [p \in Pages |-> IF p = 1 THEN empty ELSE EmptyNode], root |-> 1,
                   right |-> 1, nextFree |-> 2, pageNum |-> 2, entryNum |-> 0, status |-> "ok"]
  BY Zenon DEF EmptyTree
<1> HIDE DEF empty
<1>5. EmptyTree \in Trees
  <2>1. [p \in Pages |-> IF p = 1 THEN empty ELSE EmptyNode] \in [Pages -> TreeNodes] BY <1>1
  <2> QED BY <1>4, <2>1 DEF Trees
<1>6. EmptyTree.root = 1 /\ EmptyTree.right = 1 /\ EmptyTree.nextFree = 2
      /\ EmptyTree.pageNum = 2 /\ EmptyTree.entryNum = 0 /\ EmptyTree.status = "ok"
      /\ EmptyTree.node = [p \in Pages |-> IF p = 1 THEN empty ELSE EmptyNode]
  BY <1>4
<1>7. \A x \in Pages : EmptyTree.node[x] = IF x = 1 THEN empty ELSE EmptyNode BY <1>6
<1>8. Len(<<>>) = 0 OBVIOUS
<1>9. ASSUME NEW x \in Pages
      PROVE  /\ Leaf(EmptyTree, x) <=> x = 1
             /\ Parent(EmptyTree, x) = 0 /\ Left(EmptyTree, x) = 0 /\ Right(EmptyTree, x) = 0
             /\ NextFree(EmptyTree, x) = IF x = 1 THEN 2 ELSE 0
             /\ Kids(EmptyTree, x) = 0 /\ Size(EmptyTree, x) = 0
  <2>1. CASE x = 1
    <3>1. EmptyTree.node[x] = empty BY <1>7, <2>1
    <3> QED BY <3>1, <2>1, <1>2, <1>8 DEF Leaf, Parent, Left, Right, NextFree, Kids, Childs, Size, Items
  <2>2. CASE x # 1
    <3>1. EmptyTree.node[x] = EmptyNode BY <1>7, <2>2
    <3> QED BY <3>1, <2>2, <1>3, <1>8 DEF Leaf, Parent, Left, Right, NextFree, Kids, Childs, Size, Items
  <2> QED BY <2>1, <2>2
<1> QED BY <1>0, <1>5, <1>6, <1>9

(* The file of a new index is a sound tree without entries.                *)
LEMMA EmptyTreeSound ==
  ASSUME NEW ord \in BOOLEAN
  PROVE  TreeSound(EmptyTree, {}, ord)
<1> DEFINE t  == EmptyTree
           N  == {1}
           h  == [p \in Pages |-> IF p = 1 THEN 1 ELSE 0]
           nx == [p \in Pages |-> 0]
<1>1. t \in Trees BY EmptyTreeType
<1>2. t.root = 1 /\ t.right = 1 /\ t.nextFree = 2 /\ t.pageNum = 2 /\ t.entryNum = 0 /\ t.status = "ok"
  BY EmptyTreeType
<1>3. \A x \in Pages :
        /\ Leaf(t, x) <=> x = 1
        /\ Parent(t, x) = 0 /\ Left(t, x) = 0 /\ Right(t, x) = 0
        /\ NextFree(t, x) = IF x = 1 THEN 2 ELSE 0
        /\ Kids(t, x) = 0 /\ Size(t, x) = 0
  BY EmptyTreeType
<1>4. 1 \in Pages /\ 0 \notin Pages BY EmptyTreeType DEF Pages
<1>5. /\ h \in [Pages -> Nat] /\ h[1] = 1 /\ \A x \in Pages \ N : h[x] = 0
      /\ nx[1] = 0
  BY <1>4
<1> HIDE DEF t, h, nx
<1>6. Kids(t, 1) = 0 /\ Parent(t, 1) = 0 /\ Left(t, 1) = 0 /\ Right(t, 1) = 0 /\ Leaf(t, 1) /\ Size(t, 1) = 0
  BY <1>3, <1>4
<1>7. 1 .. Kids(t, 1) = {} /\ 1 .. Kids(t, 1) - 1 = {} BY <1>6
<1>8. Shape(t, N, h)
  <2>1. ShapeNodes(t, N) BY <1>2, <1>3, <1>4, <1>6 DEF ShapeNodes, NULL_NODE
  <2>2. ShapeDown(t, N) /\ ShapeOnce(t, N) BY <1>7 DEF ShapeDown, ShapeOnce
  <2>3. ShapeUp(t, N) BY <1>2 DEF ShapeUp
  <2>4. ShapeLevels(t, N, h) BY <1>5, <1>6, <1>7 DEF ShapeLevels
  <2> QED BY <2>1, <2>2, <2>3, <2>4 DEF Shape
<1>9. Links(t, N, h, nx, nx)
  <2>1. LinkEnds(t, N, h, nx, nx) BY <1>2, <1>5 DEF LinkEnds
  <2>2. LinkKids(t, N, nx) BY <1>6, <1>7 DEF LinkKids
  <2> QED BY <2>1, <2>2 DEF Links
<1>10. LeafLinks(t, N, nx, nx) BY <1>2, <1>5, <1>6 DEF LeafLinks
<1>11. FreeList(t, N)
  <2>1. 2 \in 2 .. MaxNode + 1 BY MaxNodeAssumption
  <2>2. Unused(t, N) = {}
    <3>1. 1 .. 2 - 1 = {1} OBVIOUS
    <3> QED BY <3>1, <1>2 DEF Unused
  <2>3. After({}, 2, 0, 2) BY DEF After
  <2>4. N \subseteq 1 .. t.pageNum - 1 BY <1>2
  <2> QED BY <2>1, <2>2, <2>3, <2>4, <1>2 DEF FreeList
<1>12. Matched(t, N) BY <1>6 DEF Matched
<1>13. Blank(t, N)
  <2>1. ASSUME NEW x \in Pages \ N PROVE t.node[x] = [EmptyNode EXCEPT !.next_free = NextFree(t, x)]
    <3>1. ~Leaf(t, x) /\ Parent(t, x) = 0 /\ Left(t, x) = 0 /\ Right(t, x) = 0
          /\ Kids(t, x) = 0 /\ Size(t, x) = 0
      BY <1>3, <2>1
    <3> QED BY <3>1, <1>1, EmptyNodeIs
  <2>2. \A x \in Pages : NextFree(t, x) <= t.pageNum BY <1>2, <1>3
  <2> QED BY <2>1, <2>2 DEF Blank
<1>14. Good(t, N, h, nx, nx) BY <1>1, <1>8, <1>9, <1>10, <1>11, <1>12, <1>13 DEF Good
<1>15. OverSized(t, N, 0)
  BY <1>2, <1>6, EntryLimitAssumption DEF OverSized
<1>16. Places(t) = {}
  <2>1. \A x \in Pages : LeafSize(t, x) = 0 BY <1>3 DEF LeafSize
  <2> QED BY <2>1 DEF Places
<1>17. Whole(t, N, {}) BY <1>2, <1>15, <1>16, FS_EmptySet DEF Whole
<1>18. HeldIn(t) \subseteq {} BY <1>16 DEF HeldIn
<1>19. OrderedTree(t, N, nx)
  <2> DEFINE R == [x \in Pages |-> Nat]
  <2>1. RangesAre(t, R) BY <1>2, <1>4 DEF RangesAre
  <2>2. RangesDown(t, N, R) BY <1>7 DEF RangesDown
  <2>3. Separates(t, N, R)
    <3>1. 2 .. Kids(t, 1) = {} BY <1>6
    <3> QED BY <3>1 DEF Separates
  <2>4. LeavesSorted(t, N, R)
    <3>1. 1 .. Size(t, 1) = {} BY <1>6
    <3> QED BY <3>1 DEF LeavesSorted
  <2>5. RangesInRow(N, nx, R) BY <1>5 DEF RangesInRow
  <2> HIDE DEF R, N
  <2>6. Ordered(t, N, nx, R) BY <2>1, <2>2, <2>3, <2>4, <2>5 DEF Ordered
  <2> QED BY <2>6 DEF OrderedTree
<1> HIDE DEF N
<1>20. InOrderWith(t, N, nx, {}) BY <1>18, <1>19 DEF InOrderWith
<1> QED BY <1>2, <1>14, <1>17, <1>20 DEF TreeSound, t

(* An insertion or a deletion keeps the invariant.                         *)
LEMMA StepKeepsIInv ==
  ASSUME IInv, Next
  PROVE  IInv'
<1>1. TreeSound(tree, rows, FALSE) /\ rows \subseteq Entries BY DEF IInv
<1>2. PICK e \in Entries : InsertEntry(e) \/ DeleteEntry(e) BY DEF Next
<1>3. CASE InsertEntry(e)
  <2>1. tree.status = "ok" /\ tree.pageNum + Height(tree)[tree.root] <= MaxNode
        /\ tree' = InsertInto(tree, e) /\ rows' = rows \cup {e}
    BY <1>3 DEF InsertEntry, RoomToInsert
  <2>2. TreeSound(InsertInto(tree, e), rows \cup {e}, FALSE) BY <1>1, <2>1, InsertSound
  <2>3. TreeSound(tree', rows', FALSE) BY <2>1, <2>2
  <2> QED BY <1>1, <2>1, <2>3 DEF IInv
<1>4. CASE DeleteEntry(e)
  <2>1. tree.status = "ok" /\ tree' = RemoveFrom(tree, e) /\ rows' = rows \ {e}
    BY <1>4 DEF DeleteEntry
  <2>2. TreeSound(RemoveFrom(tree, e), rows \ {e}, FALSE) BY <1>1, <2>1, RemoveSound
  <2>3. TreeSound(tree', rows', FALSE) BY <2>1, <2>2
  <2> QED BY <1>1, <2>1, <2>3 DEF IInv
<1> QED BY <1>2, <1>3, <1>4

(* An insertion keeps the order.                                           *)
LEMMA StepKeepsGrowing ==
  ASSUME IInvGrowing, NextGrowing
  PROVE  IInvGrowing'
<1>1. TreeSound(tree, rows, TRUE) /\ rows \subseteq Entries BY DEF IInvGrowing
<1>2. PICK e \in Entries : InsertEntry(e) BY DEF NextGrowing
<1>3. tree.status = "ok" /\ tree.pageNum + Height(tree)[tree.root] <= MaxNode
      /\ tree' = InsertInto(tree, e) /\ rows' = rows \cup {e}
  BY <1>2 DEF InsertEntry, RoomToInsert
<1>4. TreeSound(InsertInto(tree, e), rows \cup {e}, TRUE) BY <1>1, <1>3, InsertSound
<1>5. TreeSound(tree', rows', TRUE) BY <1>3, <1>4
<1> QED BY <1>1, <1>3, <1>5 DEF IInvGrowing

(* Whatever entries are inserted and deleted, in whatever order, the index *)
(* stays a tree with its links, its free list and, while no operation has  *)
(* failed, its sizes and its entries.                                      *)
THEOREM IInvHolds == Spec => []IInv
<1>1. Init => IInv BY EmptyTreeSound DEF Init, IInv
<1>2. IInv /\ [Next]_vars => IInv'
  <2>1. CASE Next BY <2>1, StepKeepsIInv
  <2>2. ASSUME IInv, UNCHANGED vars PROVE IInv' 
    <3>1. tree' = tree /\ rows' = rows BY <2>2 DEF vars
    <3> QED BY <2>2, <3>1 DEF IInv, TreeSound, Good, Whole
  <2> QED BY <2>1, <2>2
<1> QED BY <1>1, <1>2, PTL DEF Spec

(* Whatever entries are inserted, in whatever order, each node of the      *)
(* index has a range of entries, those whose search comes to it, the       *)
(* ranges of the leaves follow each other, and each leaf keeps its entries *)
(* in its range and in order.                                              *)
THEOREM IInvGrowingHolds == SpecGrowing => []IInvGrowing
<1>1. Init => IInvGrowing BY EmptyTreeSound DEF Init, IInvGrowing
<1>2. IInvGrowing /\ [NextGrowing]_vars => IInvGrowing'
  <2>1. CASE NextGrowing BY <2>1, StepKeepsGrowing
  <2>2. ASSUME IInvGrowing, UNCHANGED vars PROVE IInvGrowing'
    <3>1. tree' = tree /\ rows' = rows BY <2>2 DEF vars
    <3> QED BY <2>2, <3>1 DEF IInvGrowing, TreeSound, Good, Whole, InOrderWith
  <2> QED BY <2>1, <2>2
<1> QED BY <1>1, <1>2, PTL DEF SpecGrowing

(* What a good tree has, with its nodes.                                   *)
LEMMA GoodNodes ==
  ASSUME NEW t, NEW N, NEW h, NEW nx, NEW pv, Good(t, N, h, nx, pv)
  PROVE  /\ t \in Trees /\ Shape(t, N, h) /\ Links(t, N, h, nx, pv) /\ LeafLinks(t, N, nx, pv)
         /\ FreeList(t, N) /\ Matched(t, N) /\ Blank(t, N)
         /\ NodesOf(t) = N /\ N \subseteq Pages /\ N \subseteq 1 .. t.pageNum - 1
         /\ t.pageNum \in 2 .. MaxNode + 1
<1>1. /\ t \in Trees /\ Shape(t, N, h) /\ Links(t, N, h, nx, pv) /\ LeafLinks(t, N, nx, pv)
      /\ FreeList(t, N) /\ Matched(t, N) /\ Blank(t, N)
  BY DEF Good
<1>2. NodesOf(t) = N BY <1>1, NodesAre
<1>3. N \subseteq Pages BY <1>1, ShapeFacts
<1>4. N \subseteq 1 .. t.pageNum - 1 /\ t.pageNum \in 2 .. MaxNode + 1 BY <1>1 DEF FreeList
<1> QED BY <1>1, <1>2, <1>3, <1>4

(* The first leaf is a node.                                               *)
LEMMA FirstLeafIs ==
  ASSUME NEW t, NEW N, NEW h, NEW nx, NEW pv, Good(t, N, h, nx, pv)
  PROVE  t.right \in N /\ Kids(t, t.right) = 0
<1>1. t \in Trees /\ Shape(t, N, h) /\ Links(t, N, h, nx, pv) /\ LeafLinks(t, N, nx, pv)
      /\ N \subseteq Pages
  BY GoodNodes
<1>2. t.right = LeftmostLeaf(t)[t.root] BY <1>1, ChainIs
<1>3. t.root \in N BY <1>1, ShapeFacts
<1> DEFINE child == [v \in Pages |-> Childs(t, v)[1]]
<1>4. \A v \in N : Kids(t, v) > 0 => \E i \in 1 .. Kids(t, v) : child[v] = Kid(t, v, i)
  <2>1. SUFFICES ASSUME NEW v \in N, Kids(t, v) > 0
                 PROVE  \E i \in 1 .. Kids(t, v) : child[v] = Kid(t, v, i)
    OBVIOUS
  <2>2. child[v] = Kid(t, v, 1) BY <1>1 DEF Kid
  <2>3. Kids(t, v) \in Nat BY <1>1, ShapeFacts
  <2>4. 1 \in 1 .. Kids(t, v) BY <2>1, <2>3
  <2> QED BY <2>2, <2>4
<1>5. LeftmostLeaf(t) = LeafBelow(t, child) BY DEF LeftmostLeaf
<1> HIDE DEF child
<1>6. LET v == LeafBelow(t, child)[t.root] IN v \in N /\ Kids(t, v) = 0
  BY <1>1, <1>3, <1>4, LeafBelowIs
<1> QED BY <1>2, <1>5, <1>6

(* Its type.                                                               *)
LEMMA TypeFromGood ==
  ASSUME NEW t, NEW N, NEW h, NEW nx, NEW pv, Good(t, N, h, nx, pv)
  PROVE  /\ t.pageNum \in 2 .. MaxNode + 1
         /\ t.nextFree \in 1 .. t.pageNum
         /\ t.root \in 1 .. t.pageNum - 1
         /\ t.right \in 1 .. t.pageNum - 1
         /\ t.entryNum \in Nat
         /\ t.status \in {"ok", "hung", "aborted"}
         /\ \A p \in Pages :
              /\ t.node[p].items \in Seq(Entries)
              /\ t.node[p].childs \in Seq(1 .. t.pageNum - 1)
              /\ {t.node[p].parent, t.node[p].left, t.node[p].right} \subseteq 0 .. t.pageNum - 1
              /\ t.node[p].next_free \in 0 .. t.pageNum
<1>1. /\ t \in Trees /\ Shape(t, N, h) /\ Links(t, N, h, nx, pv) /\ LeafLinks(t, N, nx, pv)
      /\ FreeList(t, N) /\ Matched(t, N) /\ Blank(t, N)
      /\ N \subseteq Pages /\ N \subseteq 1 .. t.pageNum - 1
      /\ t.pageNum \in 2 .. MaxNode + 1
  BY GoodNodes
<1>2. t.root \in N BY <1>1, ShapeFacts
<1>3. t.right \in N BY FirstLeafIs
<1>4. t.nextFree \in 1 .. t.pageNum
  <2>1. After(Unused(t, N), t.pageNum, 0, t.nextFree) BY <1>1 DEF FreeList
  <2>2. t.nextFree \in (1 .. t.pageNum - 1) \cup {t.pageNum} BY <2>1 DEF After, Unused
  <2> QED BY <2>2, <1>1, MaxNodeAssumption
<1>5. t.entryNum \in Nat /\ t.status \in {"ok", "hung", "aborted"} BY <1>1 DEF Trees
<1>6. ASSUME NEW p \in Pages
      PROVE  /\ t.node[p].items \in Seq(Entries)
             /\ t.node[p].childs \in Seq(1 .. t.pageNum - 1)
             /\ {t.node[p].parent, t.node[p].left, t.node[p].right} \subseteq 0 .. t.pageNum - 1
             /\ t.node[p].next_free \in 0 .. t.pageNum
  <2>1. Items(t, p) \in Seq(Entries) BY <1>1, TreeTypes
  <2>2. Childs(t, p) \in Seq(Pages) /\ Kids(t, p) \in Nat BY <1>1, TreeTypes
  <2>3. Childs(t, p) \in Seq(1 .. t.pageNum - 1)
    <3>1. \A i \in 1 .. Len(Childs(t, p)) : Childs(t, p)[i] \in 1 .. t.pageNum - 1
      <4>1. CASE p \in N
        <5>1. \A i \in 1 .. Kids(t, p) : Kid(t, p, i) \in N BY <4>1, <1>1, ShapeFacts
        <5> QED BY <5>1, <1>1 DEF Kids, Kid
      <4>2. CASE p \notin N
        <5>1. Kids(t, p) = 0 BY <4>2, <1>1, ShapeFacts
        <5> QED BY <5>1 DEF Kids
      <4> QED BY <4>1, <4>2
    <3> DEFINE s == Childs(t, p)
    <3>2. s = [i \in 1 .. Len(s) |-> s[i]] /\ Len(s) \in Nat BY <2>2
    <3> HIDE DEF s
    <3>3. \A i \in 1 .. Len(s) : s[i] \in 1 .. t.pageNum - 1 BY <3>1 DEF s
    <3>4. s \in [1 .. Len(s) -> 1 .. t.pageNum - 1] BY <3>2, <3>3
    <3>5. s \in Seq(1 .. t.pageNum - 1) BY <3>2, <3>4, SeqDef
    <3> QED BY <3>5 DEF s
  <2>4. NextFree(t, p) \in 0 .. t.pageNum
    <3>1. NextFree(t, p) \in Nat BY <1>1 DEF Trees, TreeNodes, NextFree
    <3>2. NextFree(t, p) <= t.pageNum BY <1>1 DEF Blank
    <3> QED BY <1>1, <3>1, <3>2, MaxNodeAssumption
  <2>5. Parent(t, p) \in N \cup {0} /\ Left(t, p) \in N \cup {0} /\ Right(t, p) \in N \cup {0}
    <3>1. CASE p \notin N
      <4>1. t.node[p] = [EmptyNode EXCEPT !.next_free = NextFree(t, p)] BY <3>1, <1>1 DEF Blank
      <4>2. Parent(t, p) = 0 /\ Left(t, p) = 0 /\ Right(t, p) = 0 BY <4>1, <1>1, EmptyNodeIs
      <4> QED BY <4>2
    <3>2. CASE p \in N
      <4>1. Parent(t, p) \in N \cup {0}
        <5>1. Parent(t, t.root) = 0 /\ \A x \in N \ {t.root} : Parent(t, x) \in N BY <1>1, ShapeFacts
        <5> QED BY <5>1, <3>2
      <4>2. Leaf(t, p) => Left(t, p) \in N \cup {0} /\ Right(t, p) \in N \cup {0}
        <5>1. nx[p] \in N \cup {0} /\ pv[p] \in N \cup {0} BY <3>2, <1>1, LinkFacts
        <5>2. Leaf(t, p) => Kids(t, p) = 0 BY <3>2, <1>1 DEF Matched
        <5> QED BY <3>2, <5>1, <5>2, <1>1 DEF LeafLinks
      <4>3. ~Leaf(t, p) => Left(t, p) = 0 /\ Right(t, p) = 0 BY <3>2, <1>1 DEF Matched
      <4> QED BY <4>1, <4>2, <4>3
    <3> QED BY <3>1, <3>2
  <2>6. N \cup {0} \subseteq 0 .. t.pageNum - 1 BY <1>1, MaxNodeAssumption
  <2>7. {Parent(t, p), Left(t, p), Right(t, p)} \subseteq 0 .. t.pageNum - 1 BY <2>5, <2>6
  <2> QED BY <2>1, <2>3, <2>4, <2>7 DEF Items, Childs, NextFree, Parent, Left, Right
<1> QED BY <1>1, <1>2, <1>3, <1>4, <1>5, <1>6

(* The invariant says what the runs check.                                 *)
LEMMA IInvType ==
  ASSUME IInv
  PROVE  TypeOK
<1>1. PICK N, h, nx, pv : Good(tree, N, h, nx, pv) BY DEF IInv, TreeSound
<1>2. rows \subseteq Entries BY DEF IInv
<1> QED BY <1>1, <1>2, TypeFromGood DEF TypeOK

(* The least number behind p.                                              *)
LEMMA AfterIsMin ==
  ASSUME NEW S \in SUBSET Nat, NEW n \in Nat, NEW p \in Nat, NEW q, After(S, n, p, q)
  PROVE  q = Min({x \in S \cup {n} : x > p})
<1>1. q \in S \cup {n} /\ q > p /\ \A x \in S \cup {n} : x > p => q <= x BY DEF After
<1> DEFINE R == {x \in S \cup {n} : x > p}
<1>2. q \in R /\ \A x \in R : q <= x BY <1>1
<1>3. R \subseteq Nat OBVIOUS
<1>4. Min(R) \in R /\ \A x \in R : Min(R) <= x
  <2> HIDE DEF R
  <2> QED BY <1>2 DEF Min
<1>5. q <= Min(R) /\ Min(R) <= q BY <1>2, <1>4
<1> HIDE DEF R
<1>6. q \in Nat /\ Min(R) \in Nat BY <1>2, <1>3, <1>4
<1>7. q = Min(R) BY <1>5, <1>6
<1> QED BY <1>7 DEF R

(* It says that every page is a node or free.                              *)
LEMMA IInvPages ==
  ASSUME IInv
  PROVE  PagesAccounted
<1>1. PICK N, h, nx, pv : Good(tree, N, h, nx, pv) BY DEF IInv, TreeSound
<1>2. /\ FreeList(tree, N) /\ NodesOf(tree) = N
      /\ N \subseteq 1 .. tree.pageNum - 1 /\ tree.pageNum \in 2 .. MaxNode + 1
  BY <1>1, GoodNodes
<1>3. FreePages = Unused(tree, N) /\ Unused(tree, N) \subseteq Nat /\ tree.pageNum \in Nat
  BY <1>2, MaxNodeAssumption DEF FreePages, Unused
<1>4. tree.nextFree = FreeAfter(0)
  <2>1. After(Unused(tree, N), tree.pageNum, 0, tree.nextFree) BY <1>2 DEF FreeList
  <2> QED BY <2>1, <1>3, AfterIsMin DEF FreeAfter
<1>5. ASSUME NEW p \in FreePages PROVE tree.node[p].next_free = FreeAfter(p)
  <2>1. p \in Unused(tree, N) /\ p \in Nat BY <1>3
  <2>2. After(Unused(tree, N), tree.pageNum, p, NextFree(tree, p)) BY <1>2, <2>1 DEF FreeList
  <2>3. NextFree(tree, p) = FreeAfter(p) BY <2>1, <2>2, <1>3, AfterIsMin DEF FreeAfter
  <2> QED BY <2>3 DEF NextFree
<1> QED BY <1>2, <1>4, <1>5 DEF PagesAccounted

(* It says that the links of the leaves are those of the tree.             *)
LEMMA IInvChain ==
  ASSUME IInv
  PROVE  LeafChainMatchesTree
<1>1. PICK N, h, nx, pv : Good(tree, N, h, nx, pv) BY DEF IInv, TreeSound
<1>2. /\ tree \in Trees /\ Shape(tree, N, h) /\ Links(tree, N, h, nx, pv) /\ LeafLinks(tree, N, nx, pv)
      /\ NodesOf(tree) = N
  BY <1>1, GoodNodes
<1> DEFINE first == LeftmostLeaf(tree)
           last  == RightmostLeaf(tree)
<1>3. /\ tree.right = first[tree.root]
      /\ tree.node[first[tree.root]].left = NULL_NODE
      /\ tree.node[last[tree.root]].right = NULL_NODE
      /\ \A v \in N : \A i \in 1 .. Kids(tree, v) - 1 :
           /\ tree.node[last[Kid(tree, v, i)]].right = first[Kid(tree, v, i + 1)]
           /\ tree.node[first[Kid(tree, v, i + 1)]].left = last[Kid(tree, v, i)]
  BY <1>2, ChainIs
<1> HIDE DEF first, last
<1>4. \A v \in NodesOf(tree) : \A i \in 1 .. Len(Childs(tree, v)) - 1 :
        /\ tree.node[last[Childs(tree, v)[i]]].right = first[Childs(tree, v)[i + 1]]
        /\ tree.node[first[Childs(tree, v)[i + 1]]].left = last[Childs(tree, v)[i]]
  BY <1>2, <1>3 DEF Kids, Kid
<1> QED BY <1>3, <1>4 DEF LeafChainMatchesTree, first, last

(* It says that the tree is balanced.                                      *)
LEMMA IInvBalanced ==
  ASSUME IInv
  PROVE  Balanced
<1> SUFFICES ASSUME tree.status = "ok" PROVE Balanced BY DEF Balanced, Running
<1>1. PICK N, h, nx, pv : Good(tree, N, h, nx, pv) /\ Whole(tree, N, rows) BY DEF IInv, TreeSound
<1>2. /\ tree \in Trees /\ Shape(tree, N, h) /\ Matched(tree, N) /\ NodesOf(tree) = N /\ N \subseteq Pages
  BY <1>1, GoodNodes
<1>3. OverSized(tree, N, 0) BY <1>1 DEF Whole
<1>4. ASSUME NEW v \in N
      PROVE  /\ Len(Items(tree, v)) <= EntryLimit
             /\ v # tree.root => Len(Items(tree, v)) >= MinItems
             /\ v = tree.root => Parent(tree, v) = NULL_NODE
             /\ tree.node[v].leaf <=> Childs(tree, v) = <<>>
             /\ ~tree.node[v].leaf =>
                  /\ Len(Childs(tree, v)) = Len(Items(tree, v))
                  /\ \A i \in DOMAIN Childs(tree, v) :
                       /\ Parent(tree, Childs(tree, v)[i]) = v
                       /\ Height(tree)[Childs(tree, v)[i]] = Height(tree)[Childs(tree, v)[1]]
  <2>1. Size(tree, v) <= EntryLimit
    <3>1. Size(tree, v) <= IF v = 0 THEN EntryLimit + 1 ELSE EntryLimit BY <1>3 DEF OverSized
    <3>2. v # 0 BY <1>2 DEF Pages
    <3> QED BY <3>1, <3>2
  <2>2. v # tree.root => Size(tree, v) >= MinItems BY <1>3 DEF OverSized
  <2>3. v = tree.root => Parent(tree, v) = NULL_NODE BY <1>2, ShapeFacts DEF NULL_NODE
  <2>4. Leaf(tree, v) <=> Kids(tree, v) = 0 BY <1>2 DEF Matched
  <2>5. Childs(tree, v) = <<>> <=> Kids(tree, v) = 0 BY <1>2, TreeTypes
  <2>6. ~Leaf(tree, v) => Kids(tree, v) = Size(tree, v) BY <1>2 DEF Matched
  <2>7. DOMAIN Childs(tree, v) = 1 .. Kids(tree, v) BY <1>2, TreeTypes
  <2>8. ASSUME NEW i \in 1 .. Kids(tree, v)
        PROVE  /\ Parent(tree, Kid(tree, v, i)) = v
               /\ Height(tree)[Kid(tree, v, i)] = Height(tree)[Kid(tree, v, 1)]
    <3>0. Kids(tree, v) \in Nat BY <1>2, ShapeFacts
    <3>1. 1 \in 1 .. Kids(tree, v) BY <2>8, <3>0
    <3>2. /\ Kid(tree, v, i) \in N /\ Kid(tree, v, 1) \in N /\ Parent(tree, Kid(tree, v, i)) = v
      BY <3>1, <1>2, ShapeFacts
    <3>3. h[v] = h[Kid(tree, v, i)] + 1 /\ h[v] = h[Kid(tree, v, 1)] + 1 BY <3>1, <1>2, ShapeFacts
    <3>4. h[Kid(tree, v, i)] \in Nat /\ h[Kid(tree, v, 1)] \in Nat
      <4>1. h \in [Pages -> Nat] BY <1>2, ShapeFacts
      <4> QED BY <4>1, <3>2, <1>2
    <3>5. h[Kid(tree, v, i)] = h[Kid(tree, v, 1)] BY <3>3, <3>4
    <3>6. Height(tree)[Kid(tree, v, i)] = h[Kid(tree, v, i)] /\ Height(tree)[Kid(tree, v, 1)] = h[Kid(tree, v, 1)]
      BY <3>2, <1>2, HeightIs
    <3> QED BY <3>2, <3>5, <3>6
  <2> QED BY <2>1, <2>2, <2>3, <2>4, <2>5, <2>6, <2>7, <2>8 DEF Size, Leaf, Kids, Kid
<1> QED BY <1>2, <1>4 DEF Balanced

(* It says that the leaves hold the rows.                                  *)
LEMMA IInvRows ==
  ASSUME IInv
  PROVE  LeavesHoldRows
<1> SUFFICES ASSUME tree.status = "ok" PROVE LeavesHoldRows BY DEF LeavesHoldRows, Running
<1>1. PICK N, h, nx, pv : Good(tree, N, h, nx, pv) /\ Whole(tree, N, rows) BY DEF IInv, TreeSound
<1>2. /\ tree \in Trees /\ Blank(tree, N) /\ NodesOf(tree) = N /\ N \subseteq Pages
  BY <1>1, GoodNodes
<1>3. OverSized(tree, N, 0) /\ rows \subseteq HeldIn(tree) /\ tree.entryNum = Cardinality(Places(tree))
  BY <1>1 DEF Whole
<1>4. \A x \in Pages : Leaf(tree, x) => x \in N
  <2>1. ASSUME NEW x \in Pages \ N PROVE ~Leaf(tree, x)
    <3>1. tree.node[x] = [EmptyNode EXCEPT !.next_free = NextFree(tree, x)] BY <1>2 DEF Blank
    <3> QED BY <3>1, <1>2, EmptyNodeIs
  <2> QED BY <2>1
<1>5. \A x \in N : Size(tree, x) <= EntryLimit /\ Size(tree, x) \in Nat
  <2>1. \A x \in N : Size(tree, x) <= IF x = 0 THEN EntryLimit + 1 ELSE EntryLimit BY <1>3 DEF OverSized
  <2>2. 0 \notin N BY <1>2 DEF Pages
  <2> QED BY <2>1, <2>2, <1>2, TreeTypes
<1>6. ASSUME NEW x \in Pages, NEW i
      PROVE  (x \in N /\ Leaf(tree, x) /\ i \in 1 .. EntryLimit /\ i \in DOMAIN Items(tree, x))
             <=> (i \in Nat /\ i \in 1 .. LeafSize(tree, x))
  <2>1. DOMAIN Items(tree, x) = 1 .. Size(tree, x) /\ Size(tree, x) \in Nat BY <1>2, TreeTypes
  <2>2. CASE ~Leaf(tree, x)
    <3>1. LeafSize(tree, x) = 0 BY <2>2 DEF LeafSize
    <3> QED BY <2>2, <3>1
  <2>3. CASE Leaf(tree, x)
    <3>1. LeafSize(tree, x) = Size(tree, x) /\ x \in N /\ Size(tree, x) <= EntryLimit
      BY <2>3, <1>4, <1>5 DEF LeafSize
    <3>2. i \in 1 .. Size(tree, x) => i \in 1 .. EntryLimit /\ i \in Nat
      BY <2>1, <3>1, EntryLimitAssumption
    <3> QED BY <2>1, <2>3, <3>1, <3>2
  <2> QED BY <2>2, <2>3
<1>7. Slots(tree) = Places(tree)
  <2>1. LeavesOf(tree) = {v \in N : Leaf(tree, v)} BY <1>2 DEF LeavesOf, Leaf
  <2>2. Slots(tree) \subseteq Places(tree)
    <3>1. SUFFICES ASSUME NEW s \in Slots(tree) PROVE s \in Places(tree) OBVIOUS
    <3>2. s \in LeavesOf(tree) \X (1 .. EntryLimit) /\ s[2] \in DOMAIN Items(tree, s[1]) BY DEF Slots
    <3>3. /\ s = <<s[1], s[2]>> /\ s[1] \in LeavesOf(tree) /\ s[2] \in 1 .. EntryLimit BY <3>2
    <3>4. s[1] \in N /\ Leaf(tree, s[1]) /\ s[1] \in Pages BY <3>3, <2>1, <1>2
    <3>5. s[2] \in Nat /\ s[2] \in 1 .. LeafSize(tree, s[1]) BY <3>2, <3>3, <3>4, <1>6
    <3> QED BY <3>3, <3>4, <3>5 DEF Places
  <2>3. Places(tree) \subseteq Slots(tree)
    <3>1. SUFFICES ASSUME NEW s \in Places(tree) PROVE s \in Slots(tree) OBVIOUS
    <3>2. s \in Pages \X Nat /\ s[2] \in 1 .. LeafSize(tree, s[1]) BY DEF Places
    <3>3. s = <<s[1], s[2]>> /\ s[1] \in Pages /\ s[2] \in Nat BY <3>2
    <3>4. s[1] \in N /\ Leaf(tree, s[1]) /\ s[2] \in 1 .. EntryLimit /\ s[2] \in DOMAIN Items(tree, s[1])
      BY <3>2, <3>3, <1>6
    <3> QED BY <3>3, <3>4, <2>1 DEF Slots
  <2> QED BY <2>2, <2>3
<1>8. Held(tree) = HeldIn(tree) BY <1>7 DEF Held, HeldIn, Item
<1> QED BY <1>3, <1>7, <1>8 DEF LeavesHoldRows

(* The leaves are the pages marked as such.                                *)
LEMMA LeavesAre ==
  ASSUME NEW t, NEW N, NEW h, NEW nx, NEW pv, Good(t, N, h, nx, pv)
  PROVE  /\ LeavesOf(t) = {v \in N : Leaf(t, v)}
         /\ \A x \in Pages : Leaf(t, x) => x \in N /\ Kids(t, x) = 0
<1>1. t \in Trees /\ Matched(t, N) /\ Blank(t, N) /\ NodesOf(t) = N BY GoodNodes
<1>2. LeavesOf(t) = {v \in N : Leaf(t, v)} BY <1>1 DEF LeavesOf, Leaf
<1>3. ASSUME NEW x \in Pages \ N PROVE ~Leaf(t, x)
  <2>1. t.node[x] = [EmptyNode EXCEPT !.next_free = NextFree(t, x)] BY <1>1 DEF Blank
  <2> QED BY <2>1, <1>1, EmptyNodeIs
<1>4. \A x \in N : Leaf(t, x) => Kids(t, x) = 0 BY <1>1 DEF Matched
<1> QED BY <1>2, <1>3, <1>4

(* The invariant says what the runs check.                                 *)
LEMMA GrowingFound ==
  ASSUME IInvGrowing
  PROVE  RowsFound
<1> SUFFICES ASSUME tree.status = "ok", NEW e \in rows PROVE Found(tree, e) BY DEF RowsFound, Running
<1>1. PICK N, h, nx, pv : /\ Good(tree, N, h, nx, pv) /\ Whole(tree, N, rows)
                          /\ InOrderWith(tree, N, nx, rows)
  BY DEF IInvGrowing, TreeSound
<1>2. PICK R : Ordered(tree, N, nx, R) BY <1>1 DEF InOrderWith, OrderedTree
<1>3. e \in HeldIn(tree) BY <1>1 DEF Whole
<1>4. PICK s \in Places(tree) : e = Item(tree, s[1], s[2]) BY <1>3 DEF HeldIn
<1> DEFINE w == s[1]
           i == s[2]
<1>5. w \in Pages /\ i \in Nat /\ i \in 1 .. LeafSize(tree, w) /\ e = Item(tree, w, i)
  BY <1>4 DEF Places
<1> HIDE DEF w, i
<1>6. Leaf(tree, w) /\ i \in 1 .. Size(tree, w)
  <2>1. CASE Leaf(tree, w) BY <2>1, <1>5 DEF LeafSize
  <2>2. CASE ~Leaf(tree, w)
    <3>1. LeafSize(tree, w) = 0 BY <2>2 DEF LeafSize
    <3> QED BY <3>1, <1>5
  <2> QED BY <2>1, <2>2
<1>7. w \in N /\ Kids(tree, w) = 0 BY <1>1, <1>5, <1>6, LeavesAre
<1> QED BY <1>1, <1>2, <1>5, <1>6, <1>7, HeldFound

(* It says that the leaves are in order.                                   *)
LEMMA GrowingInOrder ==
  ASSUME IInvGrowing
  PROVE  LeavesInOrder
<1> SUFFICES ASSUME tree.status = "ok" PROVE LeavesInOrder BY DEF LeavesInOrder, Running
<1>1. PICK N, h, nx, pv : Good(tree, N, h, nx, pv) /\ InOrderWith(tree, N, nx, rows)
  BY DEF IInvGrowing, TreeSound
<1>2. PICK R : Ordered(tree, N, nx, R) BY <1>1 DEF InOrderWith, OrderedTree
<1>3. /\ tree \in Trees /\ Shape(tree, N, h) /\ Links(tree, N, h, nx, pv) /\ LeafLinks(tree, N, nx, pv)
      /\ Matched(tree, N) /\ N \subseteq Pages
  BY <1>1, GoodNodes
<1>4. LeavesSorted(tree, N, R) /\ RangesInRow(N, nx, R) BY <1>2 DEF Ordered
<1>5. SUFFICES ASSUME NEW v \in LeavesOf(tree)
               PROVE  /\ \A i \in 1 .. Len(Items(tree, v)) - 1 : Items(tree, v)[i] < Items(tree, v)[i + 1]
                      /\ Right(tree, v) # NULL_NODE =>
                           \A e \in ToSet(Items(tree, v)), f \in ToSet(Items(tree, Right(tree, v))) : e < f
  BY DEF LeavesInOrder, Right
<1>6. v \in N /\ Leaf(tree, v) /\ Kids(tree, v) = 0 BY <1>1, <1>3, <1>5, LeavesAre
<1>7. \A x \in N : Kids(tree, x) = 0 => ToSet(Items(tree, x)) \subseteq R[x]
  <2>1. SUFFICES ASSUME NEW x \in N, Kids(tree, x) = 0, NEW e \in ToSet(Items(tree, x)) PROVE e \in R[x]
    OBVIOUS
  <2>2. DOMAIN Items(tree, x) = 1 .. Size(tree, x) BY <1>3, TreeTypes
  <2>3. PICK i \in 1 .. Size(tree, x) : e = Item(tree, x, i) BY <2>1, <2>2 DEF ToSet, Item
  <2> QED BY <2>1, <2>3, <1>4 DEF LeavesSorted
<1>8. \A i \in 1 .. Len(Items(tree, v)) - 1 : Items(tree, v)[i] < Items(tree, v)[i + 1]
  <2>1. Size(tree, v) \in Nat BY <1>3, <1>6, TreeTypes
  <2>2. SUFFICES ASSUME NEW i \in 1 .. Size(tree, v) - 1 PROVE Item(tree, v, i) < Item(tree, v, i + 1)
    BY DEF Size, Item
  <2>3. i \in 1 .. Size(tree, v) /\ i + 1 \in 1 .. Size(tree, v) /\ i < i + 1 BY <2>1
  <2> QED BY <2>3, <1>4, <1>6 DEF LeavesSorted
<1>9. ASSUME Right(tree, v) # NULL_NODE
      PROVE  \A e \in ToSet(Items(tree, v)), f \in ToSet(Items(tree, Right(tree, v))) : e < f
  <2> DEFINE w == Right(tree, v)
  <2>1. w = nx[v] /\ w # 0 BY <1>3, <1>6, <1>9 DEF LeafLinks, NULL_NODE
  <2> HIDE DEF w
  <2>2. w \in N /\ h[w] = h[v] BY <2>1, <1>3, <1>6, LinkFacts
  <2>3. Kids(tree, w) = 0 BY <2>2, <1>3, <1>6, ShapeFacts
  <2>4. \A x \in R[v], y \in R[w] : x < y BY <2>1, <1>4, <1>6 DEF RangesInRow
  <2>5. ToSet(Items(tree, v)) \subseteq R[v] /\ ToSet(Items(tree, w)) \subseteq R[w] BY <2>2, <2>3, <1>6, <1>7
  <2> QED BY <2>4, <2>5 DEF w
<1> QED BY <1>8, <1>9

(* An index file's header and nodes always name pages of the file.         *)
THEOREM TypeHolds == Spec => []TypeOK
BY IInvHolds, IInvType, PTL

(* Every page of an index file is a node of its tree or on the free list   *)
(* in the order of its number, so what splits take and what merges give    *)
(* back is neither lost nor used twice.                                    *)
THEOREM PagesAccountedHolds == Spec => []PagesAccounted
BY IInvHolds, IInvPages, PTL

(* The links of the leaves, which scans follow, agree with the tree that   *)
(* searches go down, through any splits, borrows and merges.               *)
THEOREM LeafChainHolds == Spec => []LeafChainMatchesTree
BY IInvHolds, IInvChain, PTL

(* All leaves are on one level, every node but the root is at least half   *)
(* full and none is too full for its page, and a child knows its parent.   *)
THEOREM BalancedHolds == Spec => []Balanced
BY IInvHolds, IInvBalanced, PTL

(* The entry of every record is in a leaf and the header counts the items  *)
(* of the leaves, so no operation drops an entry or keeps it twice, even   *)
(* where the separators have gone stale and searches miss it.              *)
THEOREM LeavesHoldRowsHolds == Spec => []LeavesHoldRows
BY IInvHolds, IInvRows, PTL

(* While entries are only inserted, a search finds the entry of every      *)
(* record.                                                                 *)
THEOREM RowsFoundHolds == SpecGrowing => []RowsFound
BY IInvGrowingHolds, GrowingFound, PTL

(* While entries are only inserted, the leaves hold them in order, each    *)
(* once, which is what scans rely on.                                      *)
THEOREM LeavesInOrderHolds == SpecGrowing => []LeavesInOrder
BY IInvGrowingHolds, GrowingInOrder, PTL

==============================================================================
