---------------------------- MODULE Joins_proofs -----------------------------
(***************************************************************************)
(* What joins judge, for every number and size of tables, every set of     *)
(* keys and every width of an int.                                         *)
(***************************************************************************)
EXTENDS Joins, SequenceTheorems, WellFoundedInduction, TLAPS

(* The order in which the odometer comes to tuples.                        *)
Below(s, t) ==
  \E i \in Tables : s[i] < t[i] /\ \A j \in Tables : j < i => s[j] = t[j]

Match(tuple) == rows[1][tuple[1]] = rows[2][tuple[2]]

(* A merge has judged the matches of every row it has left behind.         *)
MergeJudged ==
  method = "merge" /\ answer = "running" /\ Mergeable =>
    \A tuple \in Tuples :
      Match(tuple) /\ (tuple[1] < place[1] \/ tuple[2] < place[2]) => tuple \in judged

(* And nothing ahead of it.                                                *)
MergeBehind ==
  method = "merge" /\ answer = "running" =>
    \A tuple \in judged : tuple # place /\ tuple[1] <= place[1] /\ tuple[2] <= place[2]

(* The odometer has judged exactly the tuples below where it is.           *)
ProductJudged ==
  method = "product" /\ answer = "running" =>
    \A tuple \in Tuples : tuple \in judged <=> Below(tuple, place)

(* The inductive invariant.                                                *)
IInv ==
  /\ TypeOK
  /\ answer = "open" => judged = {}
  /\ MergeJudged
  /\ MergeBehind
  /\ ProductJudged
  /\ NoTupleTwice
  /\ MergeFindsMatches
  /\ ProductFindsAll

-----------------------------------------------------------------------------
(* Tables and tuples                                                       *)

LEMMA IntervalLength ==
  ASSUME NEW m \in Nat, NEW n \in Nat, 1 .. m = 1 .. n
  PROVE  m = n
<1>1. m <= n
  <2>1. CASE m = 0
    BY <2>1
  <2>2. CASE m # 0
    <3>1. m \in 1 .. m
      BY <2>2
    <3>2. QED
      BY <3>1
  <2>3. QED
    BY <2>1, <2>2
<1>2. n <= m
  <2>1. CASE n = 0
    BY <2>1
  <2>2. CASE n # 0
    <3>1. n \in 1 .. n
      BY <2>2
    <3>2. QED
      BY <3>1
  <2>3. QED
    BY <2>1, <2>2
<1>3. QED
  BY <1>1, <1>2

LEMMA KeySequence ==
  ASSUME NEW keys \in KeySequences
  PROVE  /\ Len(keys) \in 0 .. MaxRows
         /\ keys \in [1 .. Len(keys) -> Values]
         /\ \A i, j \in 1 .. Len(keys) : i <= j => keys[i] <= keys[j]
         /\ keys # <<>> => Len(keys) >= 1
<1>1. PICK n \in 0 .. MaxRows : keys \in [1 .. n -> Values]
  BY DEF KeySequences
<1>2. keys \in Seq(Values)
  BY <1>1, MaxRowsAssumption
<1>3. Len(keys) = n
  <2>1. Len(keys) \in Nat
    BY <1>2, LenProperties
  <2>2. 1 .. Len(keys) = 1 .. n
    <3>1. DOMAIN keys = 1 .. Len(keys)
      BY <1>2, LenProperties
    <3>2. DOMAIN keys = 1 .. n
      BY <1>1
    <3>3. QED
      BY <3>1, <3>2
  <2>3. n \in Nat
    BY MaxRowsAssumption
  <2>4. QED
    BY <2>1, <2>2, <2>3, IntervalLength
<1>4. \A i, j \in 1 .. Len(keys) : i <= j => keys[i] <= keys[j]
  BY <1>1, <1>3 DEF KeySequences
<1>5. keys # <<>> => Len(keys) >= 1
  BY <1>2, EmptySeq, LenProperties
<1>6. QED
  BY <1>1, <1>3, <1>4, <1>5

(* Keys that are near enough are compared rightly.                         *)
LEMMA FirstMinusSecondSign ==
  ASSUME TypeOK, Mergeable, answer = "running", method = "merge"
  PROVE  /\ place[1] \in 1 .. Len(rows[1])
         /\ place[2] \in 1 .. Len(rows[2])
         /\ FirstMinusSecond = rows[1][place[1]] - rows[2][place[2]]
<1>1. /\ 1 \in Tables /\ 2 \in Tables
      /\ rows[1] \in KeySequences /\ rows[2] \in KeySequences
  BY DEF TypeOK, Tables
<1>2. place[1] \in 1 .. Len(rows[1]) /\ place[2] \in 1 .. Len(rows[2])
  <2>1. place \in Tuples
    BY DEF TypeOK
  <2>2. QED
    BY <1>1, <2>1, KeySequence, MaxRowsAssumption DEF Tuples
<1>3. DOMAIN rows[1] = 1 .. Len(rows[1]) /\ DOMAIN rows[2] = 1 .. Len(rows[2])
  BY <1>1, KeySequence
<1>4. QED
  BY <1>1, <1>2, <1>3 DEF Mergeable, DifferencesFit, FirstMinusSecond

(* A tuple that is nowhere above another is the other or below it.         *)
LEMMA BelowOrEqual ==
  ASSUME TypeOK, NEW s \in Tuples, NEW t \in Tuples,
         \A i \in Tables : s[i] <= t[i]
  PROVE  s = t \/ Below(s, t)
<1> SUFFICES ASSUME s # t PROVE Below(s, t)
  OBVIOUS
<1> DEFINE D == {i \in Tables : s[i] # t[i]}
<1>1. D # {}
  BY DEF Tuples
<1>2. Tables \subseteq Nat
  BY DEF Tables
<1> DEFINE R == {ss \in Nat \X Nat : ss[1] < ss[2]}
<1>3. IsWellFoundedOn(R, Nat)
  BY NatLessThanWellFounded DEF OpToRel
<1>4. \E i \in D : \A j \in D : ~ (j < i)
  <2>1. PICK i \in D : \A j \in D : ~ (<<j, i>> \in R)
    <3>1. D \subseteq Nat
      BY <1>2
    <3> HIDE DEF D, R
    <3>2. QED
      BY <1>1, <1>3, <3>1, WFMin
  <2>2. \A j \in D : ~ (j < i)
    BY <1>2, <2>1
  <2>3. QED
    BY <2>2
<1>5. PICK i \in D : \A j \in D : ~ (j < i)
  BY <1>4
<1>6. s[i] < t[i]
  <2>1. s[i] \in Nat /\ t[i] \in Nat
    BY MaxRowsAssumption DEF Tuples
  <2>2. QED
    BY <2>1
<1>7. QED
  BY <1>2, <1>5, <1>6 DEF Below

(* Tables do not change.                                                   *)
LEMMA SameTables ==
  ASSUME UNCHANGED tables
  PROVE  /\ rows' = rows /\ method' = method /\ primary' = primary
         /\ Tables' = Tables /\ Tuples' = Tuples /\ Mergeable' = Mergeable
BY DEF tables, Tables, Tuples, Mergeable, DifferencesFit, Difference, Distinct

(* A tuple's places are rows of its tables.                                *)
LEMMA TupleRows ==
  ASSUME TypeOK, NEW tuple \in Tuples, NEW t \in Tables
  PROVE  /\ tuple[t] \in 1 .. Len(rows[t])
         /\ Len(rows[t]) \in 0 .. MaxRows
         /\ rows[t][tuple[t]] \in Int
<1>1. rows[t] \in KeySequences
  BY DEF TypeOK
<1>2. tuple[t] \in 1 .. Len(rows[t])
  BY <1>1, KeySequence, MaxRowsAssumption DEF Tuples
<1>3. Values \subseteq Int
  BY IntLimitAssumption
<1>4. QED
  BY <1>1, <1>2, <1>3, KeySequence

(* A scan that is not at its end can move on.                              *)
LEMMA MoveTuple ==
  ASSUME TypeOK, NEW s \in Tuples, NEW t \in Tables, s[t] # Len(rows[t])
  PROVE  s[t] + 1 \in 1 .. Len(rows[t]) /\ s[t] + 1 \in 1 .. MaxRows
BY TupleRows, MaxRowsAssumption

-----------------------------------------------------------------------------
(* The steps                                                               *)

LEMMA InitStep == Init => IInv
<1> SUFFICES ASSUME Init PROVE IInv
  OBVIOUS
<1>1. Len(rows) \in 2 .. MaxTables /\ rows \in [Tables -> KeySequences]
  <2>1. PICK n \in 2 .. MaxTables : rows \in [1 .. n -> KeySequences]
    BY DEF Init
  <2>2. rows \in Seq(KeySequences) /\ n \in Nat
    BY <2>1, MaxTablesAssumption
  <2>3. Len(rows) \in Nat
    BY <2>2, LenProperties
  <2>4. 1 .. Len(rows) = 1 .. n
    <3>1. DOMAIN rows = 1 .. Len(rows)
      BY <2>2, LenProperties
    <3>2. DOMAIN rows = 1 .. n
      BY <2>1
    <3>3. QED
      BY <3>1, <3>2
  <2>5. Len(rows) = n
    BY <2>2, <2>3, <2>4, IntervalLength
  <2>6. QED
    BY <2>1, <2>5 DEF Tables
<1>2. TypeOK
  BY <1>1 DEF Init, TypeOK
<1>3. QED
  BY <1>2 DEF Init, IInv, MergeJudged, MergeBehind, ProductJudged, NoTupleTwice,
              MergeFindsMatches, ProductFindsAll

LEMMA OpenStep ==
  ASSUME IInv, Open
  PROVE  IInv'
<1>1. /\ Tables' = Tables /\ Tuples' = Tuples /\ rows' = rows
      /\ method' = method /\ primary' = primary
  BY SameTables DEF Open
<1>2. TypeOK
  BY DEF IInv
<1>3. place' \in Tuples
  <2>1. \A t \in Tables : 1 <= Len(rows[t]) /\ 1 \in 1 .. MaxRows
    BY <1>2, KeySequence, MaxRowsAssumption DEF TypeOK, Open
  <2>2. QED
    BY <2>1 DEF Open, Tuples
<1>4. judged' = {} /\ repeated' = {} /\ answer' = "running"
  BY DEF Open, IInv, NoTupleTwice
<1>5. TypeOK'
  BY <1>1, <1>2, <1>3, <1>4 DEF TypeOK, Tables
<1>6. MergeJudged'
  <2> SUFFICES ASSUME method = "merge", NEW tuple \in Tuples
               PROVE  ~ (tuple[1] < place'[1]) /\ ~ (tuple[2] < place'[2])
    BY <1>1 DEF MergeJudged
  <2>1. 1 \in Tables /\ 2 \in Tables
    BY <1>2 DEF TypeOK, Tables
  <2>2. place'[1] = 1 /\ place'[2] = 1
    BY <2>1 DEF Open
  <2>3. tuple[1] \in 1 .. MaxRows /\ tuple[2] \in 1 .. MaxRows
    BY <2>1 DEF Tuples
  <2>4. QED
    BY <2>2, <2>3, MaxRowsAssumption
<1>7. ProductJudged'
  <2> SUFFICES ASSUME NEW tuple \in Tuples, NEW i \in Tables
               PROVE  ~ (tuple[i] < place'[i])
    BY <1>1, <1>4 DEF ProductJudged, Below
  <2>1. place'[i] = 1 /\ tuple[i] \in 1 .. MaxRows
    BY DEF Open, Tuples
  <2>2. QED
    BY <2>1, MaxRowsAssumption
<1>8. QED
  BY <1>4, <1>5, <1>6, <1>7 DEF IInv, MergeBehind, NoTupleTwice, MergeFindsMatches, ProductFindsAll

LEMMA OpenFailsStep ==
  ASSUME IInv, OpenFails
  PROVE  IInv'
<1>1. Tables' = Tables /\ Tuples' = Tuples /\ rows' = rows
  BY SameTables DEF OpenFails
<1>2. TypeOK'
  BY <1>1 DEF OpenFails, tables, IInv, TypeOK, Tables
<1>3. QED
  BY <1>2 DEF OpenFails, IInv, MergeJudged, MergeBehind, ProductJudged, NoTupleTwice,
              MergeFindsMatches, ProductFindsAll

(* The sides of a merge.                                                   *)
LEMMA MovingSide ==
  ASSUME TypeOK, method = "merge"
  PROVE  /\ Tables = {1, 2} /\ Moving \in {1, 2}
         /\ WithPrimaryKey \in {1, 2} /\ WithPrimaryKey \in primary
<1>1. Len(rows) = 2 /\ primary \in {{1}, {2}, {1, 2}}
  BY DEF TypeOK
<1>2. Tables = {1, 2}
  BY <1>1 DEF Tables
<1>3. WithPrimaryKey \in {1, 2} /\ WithPrimaryKey \in primary
  BY <1>1 DEF WithPrimaryKey
<1>4. Moving \in {1, 2}
  BY <1>3 DEF Moving
<1>5. QED
  BY <1>2, <1>3, <1>4

(* The argument of the merge: a match whose row on the moving side is not  *)
(* ahead has been judged, or is the pair that is being judged.             *)
LEMMA MergeLosesNothing ==
  ASSUME IInv, method = "merge", answer = "running", Mergeable,
         NEW tuple \in Tuples, Match(tuple), tuple[Moving] <= place[Moving]
  PROVE  tuple \in judged \/ (tuple = place /\ FirstMinusSecond = 0)
<1> DEFINE W == WithPrimaryKey
<1>1. TypeOK
  BY DEF IInv
<1>2. /\ Tables = {1, 2} /\ W \in primary /\ W \in {1, 2} /\ Moving \in {1, 2}
  BY <1>1, MovingSide
<1>3. /\ tuple[1] \in 1 .. Len(rows[1]) /\ tuple[2] \in 1 .. Len(rows[2])
      /\ Len(rows[1]) \in Nat /\ Len(rows[2]) \in Nat
      /\ rows[1][tuple[1]] \in Int /\ rows[2][tuple[2]] \in Int
  BY <1>1, <1>2, TupleRows, MaxRowsAssumption
<1>4. place \in Tuples
  BY <1>1 DEF TypeOK
<1>5. /\ place[1] \in 1 .. Len(rows[1]) /\ place[2] \in 1 .. Len(rows[2])
      /\ rows[1][place[1]] \in Int /\ rows[2][place[2]] \in Int
  BY <1>1, <1>2, <1>4, TupleRows
<1>6. FirstMinusSecond = rows[1][place[1]] - rows[2][place[2]]
  BY <1>1, FirstMinusSecondSign
<1>7. rows[1][tuple[1]] = rows[2][tuple[2]]
  BY DEF Match
<1>8. CASE tuple[1] < place[1] \/ tuple[2] < place[2]
  BY <1>8 DEF IInv, MergeJudged
<1>9. CASE place[1] <= tuple[1] /\ place[2] <= tuple[2]
  <2>1. /\ rows[1][place[1]] <= rows[1][tuple[1]]
        /\ rows[2][place[2]] <= rows[2][tuple[2]]
    <3>1. rows[1] \in KeySequences /\ rows[2] \in KeySequences
      BY <1>1, <1>2 DEF TypeOK
    <3>2. QED
      BY <1>3, <1>5, <1>9, <3>1, KeySequence
  <2>2. tuple[Moving] = place[Moving]
    BY <1>2, <1>3, <1>5, <1>9
  <2>3. CASE FirstMinusSecond < 0
    <3>1. Moving = 1
      BY <2>3, <1>5, <1>6 DEF Moving
    <3>2. rows[1][tuple[1]] = rows[1][place[1]]
      BY <2>2, <3>1
    <3>3. QED
      BY <1>3, <1>5, <1>6, <1>7, <2>1, <2>3, <3>2
  <2>4. CASE FirstMinusSecond > 0
    <3>1. Moving = 2
      BY <2>4, <1>5, <1>6 DEF Moving
    <3>2. rows[2][tuple[2]] = rows[2][place[2]]
      BY <2>2, <3>1
    <3>3. QED
      BY <1>3, <1>5, <1>6, <1>7, <2>1, <2>4, <3>2
  <2>5. CASE FirstMinusSecond = 0
    <3>1. rows[W][tuple[W]] = rows[W][place[W]]
      <4>1. rows[1][place[1]] = rows[2][place[2]]
        BY <1>5, <1>6, <2>5
      <4>2. Moving = 3 - W
        BY <2>5 DEF Moving
      <4>3. CASE W = 1
        BY <1>7, <2>2, <4>1, <4>2, <4>3
      <4>4. CASE W = 2
        BY <1>7, <2>2, <4>1, <4>2, <4>4
      <4> HIDE DEF W
      <4>5. QED
        BY <1>2, <4>3, <4>4
    <3>2. Distinct(rows[W])
      BY <1>2 DEF Mergeable
    <3>3. DOMAIN rows[1] = 1 .. Len(rows[1]) /\ DOMAIN rows[2] = 1 .. Len(rows[2])
      BY <1>1, <1>2, KeySequence DEF TypeOK
    <3>4. tuple[W] \in DOMAIN rows[W] /\ place[W] \in DOMAIN rows[W]
      BY <1>2, <1>3, <1>5, <3>3
    <3>5. tuple[W] = place[W]
      BY <3>1, <3>2, <3>4 DEF Distinct
    <3>6. tuple[1] = place[1] /\ tuple[2] = place[2]
      BY <1>2, <2>2, <2>5, <3>5 DEF Moving, WithPrimaryKey
    <3>7. tuple = place
      BY <1>2, <1>4, <3>6 DEF Tuples
    <3>8. QED
      BY <2>5, <3>7
  <2>6. QED
    BY <1>5, <1>6, <2>3, <2>4, <2>5
<1>10. QED
  BY <1>3, <1>5, <1>8, <1>9

(* Judging the pair the merge has come to.                                 *)
LEMMA JudgeEqualStep ==
  ASSUME IInv, method = "merge", answer = "running", JudgeEqual
  PROVE  /\ judged' = judged \cup {tuple \in {place} : FirstMinusSecond = 0}
         /\ judged' \subseteq Tuples
         /\ repeated' = {}
         /\ \A tuple \in judged' :
              tuple[1] <= place[1] /\ tuple[2] <= place[2]
<1>1. place \in Tuples /\ judged \subseteq Tuples /\ repeated = {}
  BY DEF IInv, TypeOK, NoTupleTwice
<1>2. place \notin judged
  BY DEF IInv, MergeBehind
<1>3. place[1] \in Int /\ place[2] \in Int
  BY <1>1, MovingSide, TupleRows DEF IInv
<1>4. judged' = judged \cup {tuple \in {place} : FirstMinusSecond = 0}
  BY DEF JudgeEqual, Judge
<1>5. repeated' = {}
  BY <1>1, <1>2 DEF JudgeEqual, Judge
<1>6. QED
  BY <1>1, <1>3, <1>4, <1>5 DEF IInv, MergeBehind

LEMMA MergeStep ==
  ASSUME IInv, Merge
  PROVE  IInv'
<1> DEFINE M == Moving
<1>1. /\ Tables' = Tables /\ Tuples' = Tuples /\ rows' = rows /\ method' = method
      /\ primary' = primary /\ Mergeable' = Mergeable
  BY SameTables DEF Merge
<1>2. /\ TypeOK /\ method = "merge" /\ answer = "running" /\ answer' = "running"
      /\ place \in Tuples
  BY DEF Merge, IInv, TypeOK
<1>3. Tables = {1, 2} /\ M \in {1, 2}
  BY <1>2, MovingSide
<1>4. /\ judged' = judged \cup {tuple \in {place} : FirstMinusSecond = 0}
      /\ judged' \subseteq Tuples
      /\ repeated' = {}
      /\ \A tuple \in judged' : tuple[1] <= place[1] /\ tuple[2] <= place[2]
  BY <1>2, JudgeEqualStep DEF Merge
<1>5. place' \in Tuples /\ place' = [place EXCEPT ![M] = @ + 1]
  <2>1. place' = [place EXCEPT ![M] = @ + 1] /\ place[M] # Len(rows[M])
    BY DEF Merge, AtEnd
  <2>2. place[M] + 1 \in 1 .. Len(rows[M]) /\ place[M] + 1 \in 1 .. MaxRows
    BY <1>2, <1>3, <2>1, MoveTuple
  <2> HIDE DEF M
  <2>3. place[M] + 1 <= Len(rows[M])
    BY <1>2, <1>3, <2>2, TupleRows
  <2>4. QED
    BY <1>2, <1>3, <2>1, <2>2, <2>3 DEF Tuples
<1>6. TypeOK'
  BY <1>1, <1>2, <1>4, <1>5 DEF TypeOK
<1>7. /\ place[1] \in Int /\ place[2] \in Int
      /\ \A tuple \in Tuples : tuple[1] \in Int /\ tuple[2] \in Int
  BY <1>2, <1>3, TupleRows
<1>8. place'[1] = place[1] + (IF M = 1 THEN 1 ELSE 0) /\ place'[2] = place[2] + (IF M = 2 THEN 1 ELSE 0)
  <2>1. DOMAIN place = {1, 2}
    BY <1>2, <1>3 DEF Tuples
  <2> HIDE DEF M
  <2>2. QED
    BY <1>3, <1>5, <1>7, <2>1
<1>9. MergeBehind'
  <2> SUFFICES ASSUME NEW tuple \in judged'
               PROVE  tuple # place' /\ tuple[1] <= place'[1] /\ tuple[2] <= place'[2]
    BY <1>1 DEF MergeBehind
  <2>1. /\ tuple[1] <= place[1] /\ tuple[2] <= place[2]
        /\ tuple[1] \in Int /\ tuple[2] \in Int
    BY <1>4, <1>7
  <2>2. tuple[1] < place'[1] \/ tuple[2] < place'[2]
    BY <1>3, <1>7, <1>8, <2>1
  <2>3. QED
    BY <1>3, <1>7, <1>8, <2>1, <2>2
<1>10. MergeJudged'
  <2> SUFFICES ASSUME Mergeable, NEW tuple \in Tuples, Match(tuple),
                      tuple[1] < place'[1] \/ tuple[2] < place'[2]
               PROVE  tuple \in judged'
    BY <1>1 DEF MergeJudged, Match
  <2>1. CASE tuple[1] < place[1] \/ tuple[2] < place[2]
    BY <1>2, <1>4, <2>1 DEF IInv, MergeJudged
  <2>2. CASE tuple[M] <= place[M]
    BY <1>2, <1>4, <2>2, MergeLosesNothing
  <2>3. QED
    BY <1>3, <1>7, <1>8, <2>1, <2>2
<1>11. QED
  BY <1>1, <1>2, <1>4, <1>6, <1>9, <1>10
     DEF IInv, ProductJudged, NoTupleTwice, MergeFindsMatches, ProductFindsAll

LEMMA MergeEndsStep ==
  ASSUME IInv, MergeEnds
  PROVE  IInv'
<1>1. /\ Tables' = Tables /\ Tuples' = Tuples /\ rows' = rows /\ method' = method
      /\ primary' = primary /\ Mergeable' = Mergeable
  BY SameTables DEF MergeEnds, tables
<1>2. /\ TypeOK /\ method = "merge" /\ answer = "running" /\ answer' = "done"
      /\ place \in Tuples /\ place' = place
  BY DEF MergeEnds, IInv, TypeOK
<1>3. Tables = {1, 2} /\ Moving \in {1, 2}
  BY <1>2, MovingSide
<1>4. /\ judged' = judged \cup {tuple \in {place} : FirstMinusSecond = 0}
      /\ judged' \subseteq Tuples
      /\ repeated' = {}
  BY <1>2, JudgeEqualStep DEF MergeEnds
<1>5. TypeOK'
  BY <1>1, <1>2, <1>4 DEF TypeOK
<1>6. MergeFindsMatches'
  <2> SUFFICES ASSUME Mergeable, NEW tuple \in Tuples, Match(tuple)
               PROVE  tuple \in judged'
    BY <1>1 DEF MergeFindsMatches, Match
  <2>1. tuple[Moving] <= Len(rows[Moving])
    BY <1>3 DEF Tuples
  <2>2. tuple[Moving] <= place[Moving]
    BY <2>1 DEF MergeEnds, AtEnd
  <2>3. QED
    BY <1>2, <1>4, <2>2, MergeLosesNothing
<1>7. QED
  BY <1>1, <1>2, <1>4, <1>5, <1>6
     DEF IInv, MergeJudged, MergeBehind, ProductJudged, NoTupleTwice, ProductFindsAll

LEMMA NotBelowItself ==
  ASSUME TypeOK, NEW s \in Tuples
  PROVE  ~ Below(s, s)
BY TupleRows DEF Below

LEMMA JudgeStep ==
  ASSUME IInv, method = "product", answer = "running", Judge({place})
  PROVE  /\ judged' = judged \cup {place}
         /\ judged' \subseteq Tuples
         /\ repeated' = {}
<1>1. TypeOK /\ place \in Tuples /\ judged \subseteq Tuples /\ repeated = {}
  BY DEF IInv, TypeOK, NoTupleTwice
<1>2. place \notin judged
  BY <1>1, NotBelowItself DEF IInv, ProductJudged
<1>3. QED
  BY <1>1, <1>2 DEF Judge

(* The argument of the odometer: next come the tuple it shows and those    *)
(* below it, and no others.                                                *)
LEMMA NextTupleIsNext ==
  ASSUME TypeOK, place \in Tuples, NEW c \in Tables, IsDigit(c),
         NEW tuple \in Tuples
  PROVE  Below(tuple, NextTuple(c)) <=> tuple = place \/ Below(tuple, place)
<1> DEFINE next == NextTuple(c)
<1>1. /\ \A t \in Tables : t < c => next[t] = place[t]
      /\ next[c] = place[c] + 1
      /\ \A t \in Tables : t > c => next[t] = 1
  BY DEF NextTuple, Tables
<1>2. \A t \in Tables : /\ tuple[t] \in Int /\ place[t] \in Int
                        /\ 1 <= tuple[t] /\ tuple[t] <= Len(rows[t])
  BY TupleRows
<1>3. \A t \in Tables : t > c => place[t] = Len(rows[t])
  BY DEF IsDigit, AtEnd
<1>4. \A t \in Tables : t \in Int
  BY DEF Tables
<1> HIDE DEF next
<1>5. ASSUME Below(tuple, next) PROVE tuple = place \/ Below(tuple, place)
  <2>1. PICK i \in Tables : /\ tuple[i] < next[i]
                            /\ \A j \in Tables : j < i => tuple[j] = next[j]
    BY <1>5 DEF Below
  <2>2. CASE i < c
    <3>1. tuple[i] < place[i]
      BY <1>1, <2>1, <2>2
    <3>2. \A j \in Tables : j < i => tuple[j] = place[j]
      BY <1>1, <1>4, <2>1, <2>2
    <3>3. QED
      BY <3>1, <3>2 DEF Below
  <2>3. CASE i = c
    <3>1. tuple[c] <= place[c]
      BY <1>1, <1>2, <2>1, <2>3
    <3>2. \A t \in Tables : t < c => tuple[t] = place[t]
      BY <1>1, <2>1, <2>3
    <3>3. \A t \in Tables : tuple[t] <= place[t]
      BY <1>2, <1>3, <1>4, <3>1, <3>2
    <3>4. QED
      BY <3>3, BelowOrEqual
  <2>4. CASE i > c
    BY <1>1, <1>2, <2>1, <2>4
  <2>5. QED
    BY <1>4, <2>2, <2>3, <2>4
<1>6. ASSUME tuple = place PROVE Below(tuple, next)
  <2>1. tuple[c] < next[c]
    BY <1>1, <1>2, <1>6
  <2>2. \A j \in Tables : j < c => tuple[j] = next[j]
    BY <1>1, <1>6
  <2>3. QED
    BY <2>1, <2>2 DEF Below
<1>7. ASSUME Below(tuple, place) PROVE Below(tuple, next)
  <2>1. PICK i \in Tables : /\ tuple[i] < place[i]
                            /\ \A j \in Tables : j < i => tuple[j] = place[j]
    BY <1>7 DEF Below
  <2>2. CASE i < c
    <3>1. tuple[i] < next[i]
      BY <1>1, <2>1, <2>2
    <3>2. \A j \in Tables : j < i => tuple[j] = next[j]
      BY <1>1, <1>4, <2>1, <2>2
    <3>3. QED
      BY <3>1, <3>2 DEF Below
  <2>3. CASE i >= c
    <3>1. tuple[c] <= place[c]
      BY <1>2, <1>4, <2>1, <2>3
    <3>2. tuple[c] < next[c]
      BY <1>1, <1>2, <3>1
    <3>3. \A j \in Tables : j < c => tuple[j] = next[j]
      BY <1>1, <1>4, <2>1, <2>3
    <3>4. QED
      BY <3>2, <3>3 DEF Below
  <2>4. QED
    BY <1>4, <2>2, <2>3
<1>8. QED
  BY <1>5, <1>6, <1>7 DEF next

LEMMA ProductStep ==
  ASSUME IInv, Product
  PROVE  IInv'
<1>1. /\ Tables' = Tables /\ Tuples' = Tuples /\ rows' = rows /\ method' = method
      /\ primary' = primary
  BY SameTables DEF Product
<1>2. /\ TypeOK /\ method = "product" /\ answer = "running" /\ answer' = "running"
      /\ place \in Tuples
  BY DEF Product, IInv, TypeOK
<1>3. /\ judged' = judged \cup {place}
      /\ judged' \subseteq Tuples
      /\ repeated' = {}
  BY <1>2, JudgeStep DEF Product
<1>4. PICK c \in Tables : IsDigit(c) /\ place' = NextTuple(c)
  BY DEF Product
<1>5. place' \in Tuples
  <2>1. place[c] + 1 \in 1 .. Len(rows[c]) /\ place[c] + 1 \in 1 .. MaxRows
    BY <1>2, <1>4, MoveTuple DEF IsDigit, AtEnd
  <2>2. \A t \in Tables : /\ place[t] \in 1 .. MaxRows
                          /\ place[t] <= Len(rows[t])
                          /\ 1 \in 1 .. MaxRows /\ 1 <= Len(rows[t])
    BY <1>2, TupleRows, MaxRowsAssumption DEF Tuples
  <2>3. place[c] + 1 <= Len(rows[c])
    BY <1>2, <2>1, TupleRows
  <2>4. \A t \in Tables : place'[t] \in 1 .. MaxRows /\ place'[t] <= Len(rows[t])
    BY <1>4, <2>1, <2>2, <2>3 DEF NextTuple
  <2>5. place' \in [Tables -> 1 .. MaxRows]
    BY <1>4, <2>4 DEF NextTuple
  <2>6. QED
    BY <2>4, <2>5 DEF Tuples
<1>6. TypeOK'
  BY <1>1, <1>2, <1>3, <1>5 DEF TypeOK
<1>7. ProductJudged'
  <2> SUFFICES ASSUME NEW tuple \in Tuples
               PROVE  tuple \in judged' <=> Below(tuple, place')
    BY <1>1 DEF ProductJudged, Below
  <2>1. Below(tuple, place') <=> tuple = place \/ Below(tuple, place)
    BY <1>2, <1>4, NextTupleIsNext
  <2>2. tuple \in judged <=> Below(tuple, place)
    BY <1>2 DEF IInv, ProductJudged
  <2>3. QED
    BY <1>3, <2>1, <2>2
<1>8. QED
  BY <1>1, <1>2, <1>3, <1>6, <1>7
     DEF IInv, MergeJudged, MergeBehind, NoTupleTwice, MergeFindsMatches, ProductFindsAll

LEMMA ProductEndsStep ==
  ASSUME IInv, ProductEnds
  PROVE  IInv'
<1>1. /\ Tables' = Tables /\ Tuples' = Tuples /\ rows' = rows /\ method' = method
      /\ primary' = primary
  BY SameTables DEF ProductEnds, tables
<1>2. /\ TypeOK /\ method = "product" /\ answer = "running" /\ answer' = "done"
      /\ place \in Tuples /\ place' = place
  BY DEF ProductEnds, IInv, TypeOK
<1>3. /\ judged' = judged \cup {place}
      /\ judged' \subseteq Tuples
      /\ repeated' = {}
  BY <1>2, JudgeStep DEF ProductEnds
<1>4. TypeOK'
  BY <1>1, <1>2, <1>3 DEF TypeOK
<1>5. ASSUME NEW tuple \in Tuples PROVE tuple \in judged'
  <2>1. \A t \in Tables : tuple[t] <= place[t]
    BY <1>2 DEF ProductEnds, AtEnd, Tuples
  <2>2. tuple = place \/ Below(tuple, place)
    BY <1>2, <2>1, BelowOrEqual
  <2>3. QED
    BY <1>2, <1>3, <2>2 DEF IInv, ProductJudged
<1>6. judged' = Tuples
  BY <1>3, <1>5
<1>7. QED
  BY <1>1, <1>2, <1>3, <1>4, <1>6
     DEF IInv, MergeJudged, MergeBehind, ProductJudged, NoTupleTwice, MergeFindsMatches,
         ProductFindsAll

LEMMA StutterStep ==
  ASSUME IInv, UNCHANGED vars
  PROVE  IInv'
<1>1. /\ Tables' = Tables /\ Tuples' = Tuples /\ Mergeable' = Mergeable
  BY SameTables DEF vars, tables
<1>2. QED
  BY <1>1 DEF vars, IInv, TypeOK, MergeJudged, MergeBehind, ProductJudged, Below, Match,
              NoTupleTwice, MergeFindsMatches, ProductFindsAll

-----------------------------------------------------------------------------
(* The theorems                                                            *)

(* What SELECT on several tables has judged, at every moment.              *)
THEOREM JoinsInvariant == Spec => []IInv
<1>1. Init => IInv
  BY InitStep
<1>2. IInv /\ [Next]_vars => IInv'
  <2> SUFFICES ASSUME IInv, [Next]_vars
               PROVE  IInv'
    OBVIOUS
  <2>1. CASE Open
    BY <2>1, OpenStep
  <2>2. CASE OpenFails
    BY <2>2, OpenFailsStep
  <2>3. CASE Merge
    BY <2>3, MergeStep
  <2>4. CASE MergeEnds
    BY <2>4, MergeEndsStep
  <2>5. CASE Product
    BY <2>5, ProductStep
  <2>6. CASE ProductEnds
    BY <2>6, ProductEndsStep
  <2>7. CASE UNCHANGED vars
    BY <2>7, StutterStep
  <2>8. QED
    BY <2>1, <2>2, <2>3, <2>4, <2>5, <2>6, <2>7 DEF Next
<1>3. QED
  BY <1>1, <1>2, PTL DEF Spec

(* Scans of a join stay on rows of their tables.                           *)
THEOREM JoinsTypeOK == Spec => []TypeOK
<1>1. IInv => TypeOK
  BY DEF IInv
<1>2. QED
  BY <1>1, JoinsInvariant, PTL

(* select_optimize judges every pair of rows with equal keys.              *)
THEOREM JoinsMerge == Spec => []MergeFindsMatches
<1>1. IInv => MergeFindsMatches
  BY DEF IInv
<1>2. QED
  BY <1>1, JoinsInvariant, PTL

(* The odometer comes to every tuple of the product.                       *)
THEOREM JoinsProduct == Spec => []ProductFindsAll
<1>1. IInv => ProductFindsAll
  BY DEF IInv
<1>2. QED
  BY <1>1, JoinsInvariant, PTL

(* No tuple is judged twice, by either way.                                *)
THEOREM JoinsNoTupleTwice == Spec => []NoTupleTwice
<1>1. IInv => NoTupleTwice
  BY DEF IInv
<1>2. QED
  BY <1>1, JoinsInvariant, PTL

=============================================================================
