-------------------------- MODULE PageCache_proofs ---------------------------
(***************************************************************************)
(* The page buffer over the file manager is invisible: for every number of *)
(* frames, file ids, files and pages, as long as a file is opened only     *)
(* while an id is free.                                                    *)
(*                                                                         *)
(* An operation of an upper layer is a sequence of calls of the buffer.    *)
(* Coherent is what each call keeps; Shows is what a page reads as in the  *)
(* state between two calls, whoever has the file open.                     *)
(***************************************************************************)
EXTENDS PageCache, WellFoundedInduction, TLAPS

(***************************************************************************)
(* The bitmap: MyBitMap is a set of numbers whose least one it finds, for  *)
(* every number of words and bits of a word.                               *)
(***************************************************************************)

USE WordsAssumption

(***************************************************************************)
(* Numbers, words and bits                                                 *)
(***************************************************************************)

LEMMA Places ==
  ASSUME NEW number \in Numbers
  PROVE  /\ Pos(number) \in Words
         /\ Bit(number) \in Bits
         /\ number = Pos(number) * WordBits + Bit(number)
BY DEF Pos, Bit, Words, Bits, Numbers

LEMMA NumberAt ==
  ASSUME NEW w \in Words, NEW b \in Bits
  PROVE  /\ w * WordBits + b \in Numbers
         /\ Pos(w * WordBits + b) = w
         /\ Bit(w * WordBits + b) = b
BY DEF Pos, Bit, Words, Bits, Numbers

(* The order of numbers is that of their words, then that of their bits.   *)
LEMMA PlacesInOrder ==
  ASSUME NEW m \in Numbers, NEW w \in Words, NEW b \in Bits,
         w < Pos(m) \/ (w = Pos(m) /\ b <= Bit(m))
  PROVE  w * WordBits + b <= m
<1>1. /\ Pos(m) \in Int /\ Bit(m) \in Nat /\ m = Pos(m) * WordBits + Bit(m)
      /\ w \in Int /\ b \in Int /\ b < WordBits /\ WordBits \in Nat
  BY Places DEF Words, Bits
<1>2. CASE w < Pos(m)
  <2>1. (w + 1) * WordBits <= Pos(m) * WordBits
    BY <1>1, <1>2
  <2> QED
    BY <1>1, <2>1
<1>3. CASE w = Pos(m) /\ b <= Bit(m)
  BY <1>1, <1>3
<1> QED
  BY <1>2, <1>3

(***************************************************************************)
(* The lowest bit of a word                                                *)
(***************************************************************************)

LEMMA LeastExists ==
  ASSUME NEW S \in SUBSET Nat, S # {}
  PROVE  \E n \in S : \A m \in S : n <= m
<1> DEFINE R == {ss \in Nat \X Nat : ss[1] < ss[2]}
<1>1. IsWellFoundedOn(R, Nat)
  BY NatLessThanWellFounded DEF OpToRel
<1>2. PICK n \in S : \A m \in S : <<m, n>> \notin R
  <2> HIDE DEF R
  <2> QED
    BY <1>1, WFMin
<1>3. \A m \in S : m \in Nat /\ n \in Nat /\ ~(m < n)
  BY <1>2
<1>4. \A m \in S : n <= m
  BY <1>3
<1> QED
  BY <1>4

LEMMA LowBitIsLeast ==
  ASSUME NEW S \in SUBSET Nat, S # {}
  PROVE  LowBit(S) \in S /\ \A m \in S : LowBit(S) <= m
BY LeastExists DEF LowBit, Min

(***************************************************************************)
(* The map as a set                                                        *)
(***************************************************************************)

(* The constructor makes a map of all numbers.                             *)
THEOREM BitMapIsFull ==
  AllOnes \in BitMaps /\ InnerMatches(AllOnes) /\ Elements(AllOnes) = Numbers
<1>1. Bits # {}
  BY DEF Bits
<1> QED
  BY <1>1, Places DEF AllOnes, BitMaps, InnerMatches, Elements

(* setBit puts the number into the map or takes it out, and no other, and  *)
(* keeps the inner word in step with the words below.                      *)
THEOREM BitMapSets ==
  ASSUME NEW map \in BitMaps, InnerMatches(map), NEW number \in Numbers, NEW k \in {0, 1}
  PROVE  /\ SetBit(map, number, k) \in BitMaps
         /\ InnerMatches(SetBit(map, number, k))
         /\ Elements(SetBit(map, number, k)) =
              IF k = 1 THEN Elements(map) \cup {number} ELSE Elements(map) \ {number}
<1> DEFINE w == Pos(number)
           b == Bit(number)
           data == SetLeafBit(map.data, number, k)
           after == SetBit(map, number, k)
<1>1. w \in Words /\ b \in Bits /\ map.data \in [Words -> SUBSET Bits] /\ map.inner \subseteq Words
  BY Places DEF BitMaps
<1>2. /\ data \in [Words -> SUBSET Bits]
      /\ \A v \in Words \ {w} : data[v] = map.data[v]
      /\ data[w] = IF k = 1 THEN map.data[w] \cup {b} ELSE map.data[w] \ {b}
  BY <1>1 DEF SetLeafBit
<1>3. after.data = data /\ after.inner = UpdateInner(map.inner, data, w)
  BY DEF SetBit
<1>4. after = [data |-> data, inner |-> UpdateInner(map.inner, data, w)]
  BY DEF SetBit
<1> HIDE DEF w, b, data, after
<1>5. after \in BitMaps
  BY <1>1, <1>2, <1>4 DEF BitMaps, UpdateInner
<1>6. InnerMatches(after)
  BY <1>1, <1>2, <1>3 DEF InnerMatches, UpdateInner
<1>7. \A m \in Numbers : m = number <=> Pos(m) = w /\ Bit(m) = b
  BY Places DEF w, b
<1>8. \A m \in Numbers \ {number} : Bit(m) \in after.data[Pos(m)] <=> Bit(m) \in map.data[Pos(m)]
  BY <1>2, <1>3, <1>7, Places
<1>9. Bit(number) \in after.data[Pos(number)] <=> k = 1
  BY <1>2, <1>3 DEF w, b
<1>10. Elements(after) =
         IF k = 1 THEN Elements(map) \cup {number} ELSE Elements(map) \ {number}
  BY <1>8, <1>9 DEF Elements
<1> QED
  BY <1>5, <1>6, <1>10 DEF after

(* findLeftOne returns the least number of the map, and 0 if there is none *)
(* (which openFile takes for a free id).                                   *)
THEOREM BitMapFindsLeast ==
  ASSUME NEW map \in BitMaps, InnerMatches(map)
  PROVE  /\ Elements(map) # {} =>
              /\ FindLeftOne(map) \in Elements(map)
              /\ \A m \in Elements(map) : FindLeftOne(map) <= m
         /\ Elements(map) = {} => FindLeftOne(map) = 0
<1> DEFINE w == LowBit(map.inner)
           b == LowBit(map.data[w])
<1>1. map.data \in [Words -> SUBSET Bits] /\ map.inner \in SUBSET Nat
  BY DEF BitMaps, Words
<1>2. \A m \in Elements(map) : Pos(m) \in map.inner /\ Bit(m) \in map.data[Pos(m)]
  BY Places DEF Elements, InnerMatches
<1>3. ASSUME Elements(map) # {}
      PROVE  /\ FindLeftOne(map) \in Elements(map)
             /\ \A m \in Elements(map) : FindLeftOne(map) <= m
  <2>1. map.inner # {}
    BY <1>2, <1>3
  <2>2. w \in map.inner /\ \A v \in map.inner : w <= v
    BY <1>1, <2>1, LowBitIsLeast
  <2>3. FindLeftOne(map) = w * WordBits + b
    BY DEF FindLeftOne
  <2> HIDE DEF w
  <2>4. w \in Words /\ map.data[w] # {}
    BY <2>2 DEF InnerMatches
  <2>5. b \in map.data[w] /\ \A c \in map.data[w] : b <= c
    <3>1. map.data[w] \in SUBSET Nat
      BY <1>1, <2>4 DEF Bits
    <3> QED
      BY <2>4, <3>1, LowBitIsLeast
  <2>6. b \in Bits
    BY <1>1, <2>4, <2>5
  <2> HIDE DEF b
  <2>7. FindLeftOne(map) \in Elements(map)
    BY <2>4, <2>5, <2>6, <2>3, NumberAt DEF Elements
  <2>8. ASSUME NEW m \in Elements(map)
        PROVE  FindLeftOne(map) <= m
    <3>1. m \in Numbers /\ Pos(m) \in Words /\ Bit(m) \in Bits
      BY Places DEF Elements
    <3>2. w <= Pos(m) /\ (w = Pos(m) => b <= Bit(m))
      BY <1>2, <2>2, <2>5
    <3>3. w < Pos(m) \/ (w = Pos(m) /\ b <= Bit(m))
      BY <2>4, <3>1, <3>2 DEF Words
    <3> QED
      BY <2>4, <2>6, <2>3, <3>1, <3>3, PlacesInOrder
  <2> QED
    BY <2>7, <2>8
<1>4. ASSUME Elements(map) = {}
      PROVE  FindLeftOne(map) = 0
  <2>1. \A v \in Words : map.data[v] = {}
    <3> SUFFICES ASSUME NEW v \in Words, NEW c \in map.data[v]
                 PROVE  FALSE
      OBVIOUS
    <3>1. v * WordBits + c \in Elements(map)
      BY <1>1, NumberAt DEF Elements
    <3> QED
      BY <1>4, <3>1
  <2>2. map.inner = {}
    BY <2>1 DEF InnerMatches
  <2>3. w = 0 /\ 0 \in Words
    BY <2>2 DEF LowBit, Words
  <2>4. b = 0
    BY <2>1, <2>3 DEF LowBit
  <2> QED
    BY <2>3, <2>4 DEF FindLeftOne
<1> QED
  BY <1>3, <1>4

HIDE WordsAssumption

-----------------------------------------------------------------------------
(***************************************************************************)
(* The buffer over the file manager                                        *)
(***************************************************************************)

(* No two ids mean one file, and an id that is free means none.            *)
GoodFiles(io) ==
  /\ io \in FileState
  /\ InnerMatches(io.fm)
  /\ \A a, c \in Ids : io.fd[a] = io.fd[c] /\ io.fd[a] # NoFile => a = c
  /\ \A id \in FreeIds(io) : io.fd[id] = NoFile

(* The replacement list has every frame.                                   *)
InOrder(b) == b \in Buffer /\ \A i \in Frames : \E k \in 1 .. Cap : b.order[k] = i

(* Frame i holds page p of file f.                                         *)
Holds(b, i, f, p) ==
  /\ b.key[i] # NoKey
  /\ b.io.fd[b.key[i][1]] = f
  /\ b.key[i][2] = p

(* A frame holds a page of an open file, and differs from it only if it is *)
(* marked as modified.                                                     *)
Fits(b, i) ==
  IF b.key[i] = NoKey THEN ~b.dirty[i]
  ELSE /\ b.io.fd[b.key[i][1]] # NoFile
       /\ b.dirty[i] \/ b.frame[i] = b.io.disk[b.io.fd[b.key[i][1]]][b.key[i][2]]

Distinct(b) ==
  \A i, j \in Frames : b.key[i] = b.key[j] /\ b.key[i] # NoKey => i = j

Coherent(b) ==
  /\ InOrder(b)
  /\ GoodFiles(b.io)
  /\ Distinct(b)
  /\ \A i \in Frames : Fits(b, i)

(* A page as it reads.                                                     *)
Shows(b, f, p) ==
  IF \E i \in Frames : Holds(b, i, f, p)
  THEN b.frame[CHOOSE i \in Frames : Holds(b, i, f, p)]
  ELSE b.io.disk[f][p]

SameView(b, c) == \A f \in Files, p \in PageIds : Shows(c, f, p) = Shows(b, f, p)

Wrote(b, c, f, p, v) ==
  \A g \in Files, q \in PageIds :
    Shows(c, g, q) = IF g = f /\ q = p THEN v ELSE Shows(b, g, q)

(* Which files there are, and which ids they have.                         *)
SameIds(b, c) ==
  c.io.fd = b.io.fd /\ c.io.fm = b.io.fm /\ c.io.exists = b.io.exists

LEMMA NoKeyIsNoPage == NoKey \notin Ids \X PageIds
BY NoKeyAssumption, PageIdsAssumption

-----------------------------------------------------------------------------
(* Frames and files                                                        *)

LEMMA BufferParts ==
  ASSUME NEW b \in Buffer
  PROVE  /\ b.key \in [Frames -> (Ids \X PageIds) \cup {NoKey}]
         /\ b.dirty \in [Frames -> BOOLEAN]
         /\ b.frame \in [Frames -> Cell]
         /\ b.order \in [1 .. Cap -> Frames]
         /\ b.last \in Frames \cup {-1}
         /\ b.io \in FileState
         /\ b.io.exists \in SUBSET Files
         /\ b.io.fm \in BitMaps
         /\ b.io.fd \in [Ids -> Files \cup {NoFile}]
         /\ b.io.disk \in [Files -> [PageIds -> Cell]]
BY DEF Buffer, FileState

LEMMA KeyParts ==
  ASSUME NEW b \in Buffer, NEW i \in Frames, b.key[i] # NoKey
  PROVE  /\ b.key[i][1] \in Ids
         /\ b.key[i][2] \in PageIds
         /\ b.key[i] = <<b.key[i][1], b.key[i][2]>>
BY BufferParts

(* A page has one holder at most.                                          *)
LEMMA OneHolder ==
  ASSUME NEW b, Coherent(b), NEW i \in Frames, NEW j \in Frames,
         NEW f \in Files, NEW p, Holds(b, i, f, p), Holds(b, j, f, p)
  PROVE  i = j
<1>1. b \in Buffer
  BY DEF Coherent, InOrder
<1>2. b.key[i][1] = b.key[j][1]
  BY <1>1, KeyParts, NoFileAssumption DEF Coherent, GoodFiles, Holds
<1>3. b.key[i] = b.key[j]
  BY <1>1, <1>2, KeyParts DEF Holds
<1>4. QED
  BY <1>3 DEF Coherent, Distinct, Holds

LEMMA ShowsHeld ==
  ASSUME NEW b, Coherent(b), NEW i \in Frames, NEW f \in Files, NEW p, Holds(b, i, f, p)
  PROVE  Shows(b, f, p) = b.frame[i]
BY OneHolder DEF Shows

(* Without a modified holder a page reads as it is on the disk.            *)
LEMMA ShowsDisk ==
  ASSUME NEW b, Coherent(b), NEW f \in Files, NEW p,
         \A i \in Frames : Holds(b, i, f, p) => ~b.dirty[i]
  PROVE  Shows(b, f, p) = b.io.disk[f][p]
<1>1. CASE \E i \in Frames : Holds(b, i, f, p)
  <2>1. PICK i \in Frames : Holds(b, i, f, p)
    BY <1>1
  <2>2. b.frame[i] = b.io.disk[f][p]
    BY <2>1 DEF Coherent, Fits, Holds
  <2>3. QED
    BY <2>1, <2>2, ShowsHeld
<1>2. CASE ~\E i \in Frames : Holds(b, i, f, p)
  BY <1>2 DEF Shows
<1>3. QED
  BY <1>1, <1>2

LEMMA CachedIsHeld ==
  ASSUME NEW b, Coherent(b), NEW id \in Ids, NEW p \in PageIds, IsCached(b, id, p)
  PROVE  /\ FrameOf(b, id, p) \in Frames
         /\ b.key[FrameOf(b, id, p)] = <<id, p>>
         /\ \A i \in Frames : b.key[i] = <<id, p>> => i = FrameOf(b, id, p)
         /\ Holds(b, FrameOf(b, id, p), b.io.fd[id], p)
<1>1. <<id, p>> # NoKey
  BY NoKeyIsNoPage
<1>2. FrameOf(b, id, p) \in Frames /\ b.key[FrameOf(b, id, p)] = <<id, p>>
  BY DEF IsCached, FrameOf
<1>3. QED
  BY <1>1, <1>2 DEF Coherent, Distinct, Holds

-----------------------------------------------------------------------------
(* The replacement list                                                    *)

LEMMA PositionOf ==
  ASSUME NEW order \in [1 .. Cap -> Frames], NEW i, \E k \in 1 .. Cap : order[k] = i
  PROVE  Position(order, i) \in 1 .. Cap /\ order[Position(order, i)] = i
BY DEF Position

LEMMA MovesToBack ==
  ASSUME NEW order \in [1 .. Cap -> Frames], NEW i \in Frames,
         \A j \in Frames : \E k \in 1 .. Cap : order[k] = j
  PROVE  /\ MoveToBack(order, i) \in [1 .. Cap -> Frames]
         /\ \A j \in Frames : \E k \in 1 .. Cap : MoveToBack(order, i)[k] = j
<1> DEFINE n == Position(order, i)
           new == MoveToBack(order, i)
<1>1. n \in 1 .. Cap /\ order[n] = i /\ Cap \in Nat \ {0}
  BY PositionOf, CapAssumption
<1>2. new = [k \in 1 .. Cap |-> IF k < n THEN order[k]
                                ELSE IF k < Cap THEN order[k + 1] ELSE i]
  BY DEF MoveToBack
<1> HIDE DEF n, new
<1>3. new \in [1 .. Cap -> Frames]
  BY <1>1, <1>2
<1>4. ASSUME NEW j \in Frames
      PROVE  \E k \in 1 .. Cap : new[k] = j
  <2>1. CASE j = i
    BY <1>1, <1>2, <2>1
  <2>2. CASE j # i
    <3>1. PICK k \in 1 .. Cap : order[k] = j
      OBVIOUS
    <3>2. CASE k < n
      BY <1>1, <1>2, <3>1, <3>2
    <3>3. CASE ~(k < n)
      <4>1. k - 1 \in 1 .. Cap /\ ~(k - 1 < n) /\ k - 1 < Cap /\ k - 1 + 1 = k
        BY <1>1, <2>2, <3>1, <3>3
      <4>2. new[k - 1] = order[k - 1 + 1]
        BY <1>2, <4>1
      <4>3. QED
        BY <3>1, <4>1, <4>2
    <3>4. QED
      BY <3>2, <3>3
  <2>3. QED
    BY <2>1, <2>2
<1>5. QED
  BY <1>3, <1>4 DEF new

LEMMA MovesToFront ==
  ASSUME NEW order \in [1 .. Cap -> Frames], NEW i \in Frames,
         \A j \in Frames : \E k \in 1 .. Cap : order[k] = j
  PROVE  /\ MoveToFront(order, i) \in [1 .. Cap -> Frames]
         /\ \A j \in Frames : \E k \in 1 .. Cap : MoveToFront(order, i)[k] = j
<1> DEFINE n == Position(order, i)
           new == MoveToFront(order, i)
<1>1. n \in 1 .. Cap /\ order[n] = i /\ Cap \in Nat \ {0}
  BY PositionOf, CapAssumption
<1>2. new = [k \in 1 .. Cap |-> IF k > n THEN order[k]
                                ELSE IF k > 1 THEN order[k - 1] ELSE i]
  BY DEF MoveToFront
<1> HIDE DEF n, new
<1>3. new \in [1 .. Cap -> Frames]
  BY <1>1, <1>2
<1>4. ASSUME NEW j \in Frames
      PROVE  \E k \in 1 .. Cap : new[k] = j
  <2>1. CASE j = i
    BY <1>1, <1>2, <2>1
  <2>2. CASE j # i
    <3>1. PICK k \in 1 .. Cap : order[k] = j
      OBVIOUS
    <3>2. CASE k > n
      BY <1>1, <1>2, <3>1, <3>2
    <3>3. CASE ~(k > n)
      <4>1. k + 1 \in 1 .. Cap /\ ~(k + 1 > n) /\ k + 1 > 1 /\ k + 1 - 1 = k
        BY <1>1, <2>2, <3>1, <3>3
      <4>2. new[k + 1] = order[k + 1 - 1]
        BY <1>2, <4>1
      <4>3. QED
        BY <3>1, <4>1, <4>2
    <3>4. QED
      BY <3>2, <3>3
  <2>3. QED
    BY <2>1, <2>2
<1>5. QED
  BY <1>3, <1>4 DEF new

(* access moves a frame in the list and nothing else.                      *)
LEMMA AccessMoves ==
  ASSUME NEW b, InOrder(b), NEW i \in Frames
  PROVE  /\ InOrder(Access(b, i))
         /\ Access(b, i).key = b.key
         /\ Access(b, i).dirty = b.dirty
         /\ Access(b, i).frame = b.frame
         /\ Access(b, i).io = b.io
<1>1. CASE b.last = i
  BY <1>1 DEF Access
<1>2. CASE b.last # i
  <2> DEFINE new == MoveToBack(b.order, i)
  <2>1. /\ new \in [1 .. Cap -> Frames]
        /\ \A j \in Frames : \E k \in 1 .. Cap : new[k] = j
    BY BufferParts, MovesToBack DEF InOrder
  <2>2. Access(b, i) = [b EXCEPT !.order = new, !.last = i]
    BY <1>2 DEF Access
  <2> HIDE DEF new
  <2>3. QED
    BY <2>1, <2>2 DEF InOrder, Buffer
<1>3. QED
  BY <1>1, <1>2

-----------------------------------------------------------------------------
(* The calls of the buffer                                                 *)

(* Writing a modified frame to its page changes what no page reads as.     *)
LEMMA Flushes ==
  ASSUME NEW b, Coherent(b), NEW i \in Frames
  PROVE  LET c == Flush(b, i) IN
         /\ Coherent(c)
         /\ SameView(b, c)
         /\ SameIds(b, c)
         /\ c.key = b.key /\ c.frame = b.frame /\ c.order = b.order
         /\ \A j \in Frames : c.dirty[j] <=> j # i /\ b.dirty[j]
<1> DEFINE c == Flush(b, i)
<1>1. b \in Buffer
  BY DEF Coherent, InOrder
<1>2. CASE ~b.dirty[i]
  <2>1. c = b
    BY <1>2 DEF Flush
  <2>2. QED
    BY <1>2, <2>1 DEF SameView, SameIds
<1>3. CASE b.dirty[i]
  <2> DEFINE id == b.key[i][1]
             p  == b.key[i][2]
             f  == b.io.fd[id]
             disk == [b.io.disk EXCEPT ![f] = [@ EXCEPT ![p] = b.frame[i]]]
             dirty == [b.dirty EXCEPT ![i] = FALSE]
  <2>1. /\ b.key[i] # NoKey
        /\ f # NoFile
    BY <1>3 DEF Coherent, Fits
  <2>2. /\ id \in Ids
        /\ p \in PageIds
        /\ f \in Files
        /\ Holds(b, i, f, p)
    BY <1>1, <2>1, KeyParts, BufferParts DEF Holds
  <2>3. WritePage(b.io, id, p, b.frame[i]) = [b.io EXCEPT !.disk = disk]
    BY <2>1 DEF WritePage
  <2>4. c = [b EXCEPT !.io = [b.io EXCEPT !.disk = disk], !.dirty = dirty]
    BY <1>3, <2>3 DEF Flush
  <2>5. /\ disk \in [Files -> [PageIds -> Cell]]
        /\ \A g \in Files, q \in PageIds :
             disk[g][q] = IF g = f /\ q = p THEN b.frame[i] ELSE b.io.disk[g][q]
    BY <1>1, <2>2, BufferParts
  <2>6. /\ dirty \in [Frames -> BOOLEAN]
        /\ \A j \in Frames : dirty[j] <=> j # i /\ b.dirty[j]
    BY <1>1, BufferParts
  <2> HIDE DEF disk, dirty
  <2>7. /\ c.key = b.key /\ c.frame = b.frame /\ c.order = b.order /\ c.last = b.last
        /\ c.dirty = dirty
        /\ c.io.fd = b.io.fd /\ c.io.fm = b.io.fm /\ c.io.exists = b.io.exists
        /\ c.io.disk = disk
        /\ c \in Buffer
    <3> DEFINE io == [b.io EXCEPT !.disk = disk]
    <3>1. /\ io \in FileState
          /\ io.fd = b.io.fd /\ io.fm = b.io.fm /\ io.exists = b.io.exists
          /\ io.disk = disk
      BY <1>1, <2>5, BufferParts DEF FileState
    <3> HIDE DEF io
    <3>2. c = [b EXCEPT !.io = io, !.dirty = dirty]
      BY <2>4 DEF io
    <3>3. QED
      BY <1>1, <2>6, <3>1, <3>2 DEF Buffer
  <2> HIDE DEF id, p, f, c
  <2>a. \A j \in Frames : c.dirty[j] <=> j # i /\ b.dirty[j]
    BY <2>6, <2>7
  <2>8. \A j \in Frames, g \in Files, q \in PageIds : Holds(c, j, g, q) <=> Holds(b, j, g, q)
    BY <2>7 DEF Holds
  <2>9. ASSUME NEW j \in Frames
        PROVE  Fits(c, j)
    <3>1. CASE b.key[j] = NoKey
      BY <2>7, <2>a, <3>1 DEF Coherent, Fits
    <3>2. CASE j = i
      BY <2>1, <2>2, <2>5, <2>7, <3>2 DEF Fits, Holds
    <3>3. CASE b.key[j] # NoKey /\ j # i
      <4> DEFINE g == b.io.fd[b.key[j][1]]
                 q == b.key[j][2]
      <4>1. g # NoFile /\ (b.dirty[j] \/ b.frame[j] = b.io.disk[g][q])
        BY <3>3 DEF Coherent, Fits
      <4>2. g \in Files /\ q \in PageIds /\ Holds(b, j, g, q)
        BY <1>1, <3>3, <4>1, KeyParts, BufferParts DEF Holds
      <4>3. ~(g = f /\ q = p)
        BY <2>2, <3>3, <4>2, OneHolder
      <4>4. c.io.disk[g][q] = b.io.disk[g][q]
        BY <2>5, <2>7, <4>2, <4>3
      <4>5. QED
        BY <2>7, <2>a, <3>3, <4>1, <4>4 DEF Fits
    <3>4. QED
      BY <3>1, <3>2, <3>3
  <2>10. Coherent(c)
    <3>1. GoodFiles(c.io)
      BY <2>7, BufferParts DEF Coherent, GoodFiles, FreeIds
    <3>2. QED
      BY <2>7, <2>9, <3>1 DEF Coherent, InOrder, Distinct
  <2>11. ASSUME NEW g \in Files, NEW q \in PageIds
         PROVE  Shows(c, g, q) = Shows(b, g, q)
    <3>1. CASE \E j \in Frames : Holds(b, j, g, q)
      BY <2>7, <2>8, <2>10, <3>1, ShowsHeld
    <3>2. CASE ~\E j \in Frames : Holds(b, j, g, q)
      <4>1. ~(g = f /\ q = p)
        BY <2>2, <3>2
      <4>2. QED
        BY <2>5, <2>7, <2>8, <3>2, <4>1 DEF Shows
    <3>3. QED
      BY <3>1, <3>2
  <2>12. QED
    BY <2>7, <2>a, <2>10, <2>11 DEF SameView, SameIds, c
<1>4. QED
  BY <1>1, <1>2, <1>3, BufferParts

(* The content of frame i is v now, of the page with this key; the rest is *)
(* as it was.                                                              *)
Puts(b, c, i, key, v) ==
  /\ c.io = b.io
  /\ c.key = [b.key EXCEPT ![i] = key]
  /\ c.frame = [b.frame EXCEPT ![i] = v]
  /\ \A j \in Frames \ {i} : c.dirty[j] <=> b.dirty[j]

LEMMA PutsParts ==
  ASSUME NEW b \in Buffer, NEW c, NEW i \in Frames, NEW key, NEW v, Puts(b, c, i, key, v)
  PROVE  /\ c.io = b.io
         /\ c.key[i] = key /\ c.frame[i] = v
         /\ \A j \in Frames \ {i} : c.key[j] = b.key[j] /\ c.frame[j] = b.frame[j]
BY BufferParts DEF Puts

(* A frame may be given to a page that no frame holds, unless its own is   *)
(* still to be written; and its content may be changed.                    *)
MayHold(b, i, id, p) ==
  b.key[i] = <<id, p>> \/ (~IsCached(b, id, p) /\ ~b.dirty[i])

LEMMA FillsFrame ==
  ASSUME NEW b, Coherent(b), NEW i \in Frames,
         NEW id \in Ids, NEW p \in PageIds, b.io.fd[id] # NoFile,
         NEW v \in Cell, NEW c, InOrder(c),
         Puts(b, c, i, <<id, p>>, v), MayHold(b, i, id, p), Fits(c, i)
  PROVE  Coherent(c) /\ Wrote(b, c, b.io.fd[id], p, v)
<1> DEFINE f == b.io.fd[id]
<1>1. b \in Buffer /\ c \in Buffer
  BY DEF Coherent, InOrder
<1>2. /\ f \in Files
      /\ <<id, p>> # NoKey
  BY <1>1, BufferParts, NoKeyIsNoPage
<1>3. /\ c.io = b.io
      /\ c.key[i] = <<id, p>> /\ c.frame[i] = v
      /\ \A j \in Frames \ {i} : c.key[j] = b.key[j] /\ c.frame[j] = b.frame[j]
  BY <1>1, PutsParts
<1>4. \A j \in Frames \ {i} : c.dirty[j] <=> b.dirty[j]
  BY DEF Puts
<1>5. Holds(c, i, f, p)
  BY <1>2, <1>3 DEF Holds
<1>6. \A j \in Frames \ {i}, g \in Files, q \in PageIds : Holds(c, j, g, q) <=> Holds(b, j, g, q)
  BY <1>3 DEF Holds
<1>7. Coherent(c)
  <2>1. Distinct(c)
    <3>1. \A j \in Frames \ {i} : b.key[j] # <<id, p>>
      BY <1>2 DEF Coherent, Distinct, IsCached, MayHold
    <3>2. QED
      BY <1>3, <3>1 DEF Coherent, Distinct
  <2>2. ASSUME NEW j \in Frames
        PROVE  Fits(c, j)
    <3>1. CASE j # i
      <4>1. Fits(b, j)
        BY DEF Coherent
      <4>2. QED
        BY <1>3, <1>4, <3>1, <4>1 DEF Fits
    <3>2. QED
      BY <3>1
  <2>3. QED
    BY <1>3, <2>1, <2>2 DEF Coherent
<1> HIDE DEF f
<1>8. ASSUME NEW g \in Files, NEW q \in PageIds
      PROVE  Shows(c, g, q) = IF g = f /\ q = p THEN v ELSE Shows(b, g, q)
  <2>1. CASE g = f /\ q = p
    <3>1. Holds(c, i, g, q)
      BY <1>5, <2>1
    <3>2. Shows(c, g, q) = c.frame[i]
      BY <1>7, <3>1, ShowsHeld
    <3>3. QED
      BY <1>3, <2>1, <3>2
  <2>2. CASE ~(g = f /\ q = p)
    <3>1. ~Holds(c, i, g, q)
      BY <1>3, <2>2 DEF Holds, f
    <3>2. CASE \E j \in Frames \ {i} : Holds(b, j, g, q)
      <4>1. PICK j \in Frames \ {i} : Holds(b, j, g, q)
        BY <3>2
      <4>2. Shows(b, g, q) = b.frame[j]
        BY <4>1, ShowsHeld
      <4>3. Holds(c, j, g, q)
        BY <1>6, <4>1
      <4>4. Shows(c, g, q) = c.frame[j]
        BY <1>7, <4>1, <4>3, ShowsHeld
      <4>5. QED
        BY <1>3, <2>2, <4>1, <4>2, <4>4
    <3>3. CASE ~\E j \in Frames \ {i} : Holds(b, j, g, q)
      <4>1. Holds(b, i, g, q) => ~b.dirty[i]
        BY <2>2 DEF MayHold, Holds, f
      <4>2. Shows(b, g, q) = b.io.disk[g][q]
        BY <3>3, <4>1, ShowsDisk
      <4>3. Shows(c, g, q) = c.io.disk[g][q]
        BY <1>6, <1>7, <3>1, <3>3, ShowsDisk
      <4>4. QED
        BY <1>3, <2>2, <4>2, <4>3
    <3>4. QED
      BY <3>2, <3>3
  <2>3. QED
    BY <2>1, <2>2
<1>9. QED
  BY <1>7, <1>8 DEF Wrote, f

(* A frame whose page need not be written may be given up.                 *)
LEMMA ClearsFrame ==
  ASSUME NEW b, Coherent(b), NEW i \in Frames, ~b.dirty[i],
         NEW c, InOrder(c), Puts(b, c, i, NoKey, Absent), ~c.dirty[i]
  PROVE  Coherent(c) /\ SameView(b, c)
<1>1. b \in Buffer /\ c \in Buffer
  BY DEF Coherent, InOrder
<1>2. /\ c.io = b.io
      /\ c.key[i] = NoKey
      /\ \A j \in Frames \ {i} : c.key[j] = b.key[j] /\ c.frame[j] = b.frame[j]
  BY <1>1, PutsParts
<1>3. \A j \in Frames \ {i} : c.dirty[j] <=> b.dirty[j]
  BY DEF Puts
<1>4. \A j \in Frames \ {i}, g \in Files, q \in PageIds : Holds(c, j, g, q) <=> Holds(b, j, g, q)
  BY <1>2 DEF Holds
<1>5. \A g \in Files, q \in PageIds : ~Holds(c, i, g, q)
  BY <1>2 DEF Holds
<1>6. Coherent(c)
  <2>1. Distinct(c)
    BY <1>2 DEF Coherent, Distinct
  <2>2. ASSUME NEW j \in Frames
        PROVE  Fits(c, j)
    <3>1. CASE j = i
      BY <1>2, <3>1 DEF Fits
    <3>2. CASE j # i
      <4>1. Fits(b, j)
        BY DEF Coherent
      <4>2. QED
        BY <1>2, <1>3, <3>2, <4>1 DEF Fits
    <3>3. QED
      BY <3>1, <3>2
  <2>3. QED
    BY <1>2, <2>1, <2>2 DEF Coherent
<1>7. ASSUME NEW g \in Files, NEW q \in PageIds
      PROVE  Shows(c, g, q) = Shows(b, g, q)
  <2>1. CASE \E j \in Frames \ {i} : Holds(b, j, g, q)
    <3>1. PICK j \in Frames \ {i} : Holds(b, j, g, q)
      BY <2>1
    <3>2. Shows(b, g, q) = b.frame[j]
      BY <3>1, ShowsHeld
    <3>3. Holds(c, j, g, q)
      BY <1>4, <3>1
    <3>4. Shows(c, g, q) = c.frame[j]
      BY <1>6, <3>1, <3>3, ShowsHeld
    <3>5. QED
      BY <1>2, <3>1, <3>2, <3>4
  <2>2. CASE ~\E j \in Frames \ {i} : Holds(b, j, g, q)
    <3>1. Shows(b, g, q) = b.io.disk[g][q]
      BY <2>2, ShowsDisk
    <3>2. Shows(c, g, q) = c.io.disk[g][q]
      BY <1>4, <1>5, <1>6, <2>2, ShowsDisk
    <3>3. QED
      BY <1>2, <3>1, <3>2
  <2>3. QED
    BY <2>1, <2>2
<1>8. QED
  BY <1>6, <1>7 DEF SameView

(* Only the list differs.                                                  *)
LEMMA Rearranges ==
  ASSUME NEW b, Coherent(b), NEW c, InOrder(c),
         c.io = b.io, c.key = b.key, c.frame = b.frame,
         \A i \in Frames : c.dirty[i] <=> b.dirty[i]
  PROVE  Coherent(c) /\ SameView(b, c)
<1>1. Coherent(c)
  <2>1. ASSUME NEW j \in Frames
        PROVE  Fits(c, j)
    <3>1. Fits(b, j)
      BY DEF Coherent
    <3>2. QED
      BY <3>1 DEF Fits
  <2>2. QED
    BY <2>1 DEF Coherent, Distinct
<1>2. \A i \in Frames, g \in Files, q \in PageIds : Holds(c, i, g, q) <=> Holds(b, i, g, q)
  BY DEF Holds
<1>3. ASSUME NEW g \in Files, NEW q \in PageIds
      PROVE  Shows(c, g, q) = Shows(b, g, q)
  <2>1. CASE \E j \in Frames : Holds(b, j, g, q)
    BY <1>1, <1>2, <2>1, ShowsHeld
  <2>2. CASE ~\E j \in Frames : Holds(b, j, g, q)
    BY <1>2, <2>2 DEF Shows
  <2>3. QED
    BY <2>1, <2>2
<1>4. QED
  BY <1>1, <1>3 DEF SameView

(* The frame that a page is fetched into.                                  *)
LEMMA Fetches ==
  ASSUME NEW b, Coherent(b), NEW id \in Ids, NEW p \in PageIds,
         ~IsCached(b, id, p)
  PROVE  LET i == Victim(b)
             m == Flush(b, i)
             c == FetchPage(b, id, p)
         IN  /\ i \in Frames
             /\ Coherent(m) /\ SameView(b, m) /\ SameIds(b, m)
             /\ m.key = b.key
             /\ MayHold(m, i, id, p)
             /\ InOrder(c)
             /\ Puts(m, c, i, <<id, p>>, Absent)
             /\ ~c.dirty[i]
<1> DEFINE i == Victim(b)
           m == Flush(b, i)
           c == FetchPage(b, id, p)
           order == MoveToBack(m.order, i)
           key == [m.key EXCEPT ![i] = <<id, p>>]
           frame == [m.frame EXCEPT ![i] = Absent]
<1>1. i \in Frames
  BY CapAssumption, BufferParts DEF Coherent, InOrder, Victim
<1> HIDE DEF i
<1>2. /\ Coherent(m) /\ SameView(b, m) /\ SameIds(b, m)
      /\ m.key = b.key
      /\ ~m.dirty[i]
  BY <1>1, Flushes
<1>3. MayHold(m, i, id, p)
  BY <1>2 DEF MayHold, IsCached
<1>4. c = [m EXCEPT !.order = order, !.key = key, !.frame = frame]
  BY DEF FetchPage, i
<1> HIDE DEF m
<1>5. m \in Buffer /\ InOrder(m)
  BY <1>2 DEF Coherent, InOrder
<1>6. /\ order \in [1 .. Cap -> Frames]
      /\ \A j \in Frames : \E k \in 1 .. Cap : order[k] = j
  BY <1>1, <1>5, BufferParts, MovesToBack DEF InOrder
<1>7. key \in [Frames -> (Ids \X PageIds) \cup {NoKey}] /\ frame \in [Frames -> Cell]
  BY <1>5, BufferParts DEF Cell
<1> HIDE DEF order, key, frame
<1>8. /\ c \in Buffer
      /\ c.order = order /\ c.key = key /\ c.frame = frame
      /\ c.dirty = m.dirty /\ c.io = m.io
  BY <1>4, <1>5, <1>6, <1>7 DEF Buffer
<1> HIDE DEF c
<1>9. InOrder(c)
  BY <1>6, <1>8 DEF InOrder
<1>10. Puts(m, c, i, <<id, p>>, Absent) /\ ~c.dirty[i]
  BY <1>2, <1>8 DEF Puts, key, frame
<1>11. QED
  BY <1>1, <1>2, <1>3, <1>9, <1>10 DEF i, m, c

(* Changing what a frame holds.                                            *)
LEMMA Fills ==
  ASSUME NEW b, InOrder(b), NEW i \in Frames, NEW v \in Cell
  PROVE  LET c == Fill(b, i, v) IN
         /\ InOrder(c)
         /\ Puts(b, c, i, b.key[i], v)
         /\ c.dirty[i]
<1> DEFINE frame == [b.frame EXCEPT ![i] = v]
           dirty == [b.dirty EXCEPT ![i] = TRUE]
           a == [b EXCEPT !.frame = frame, !.dirty = dirty]
           c == Fill(b, i, v)
<1>1. b \in Buffer
  BY DEF InOrder
<1>2. /\ frame \in [Frames -> Cell] /\ dirty \in [Frames -> BOOLEAN]
      /\ dirty[i]
      /\ \A j \in Frames \ {i} : dirty[j] <=> b.dirty[j]
  BY <1>1, BufferParts
<1>3. c = Access(a, i)
  <2>1. [[b EXCEPT !.frame = frame] EXCEPT !.dirty = dirty] = a
    <3> HIDE DEF frame, dirty
    <3>1. QED
      BY <1>1 DEF Buffer
  <2>2. QED
    BY <1>1, <2>1 DEF Fill, MarkDirty
<1>4. b.key = [b.key EXCEPT ![i] = b.key[i]]
  BY <1>1, BufferParts
<1>5. frame = [b.frame EXCEPT ![i] = v]
  OBVIOUS
<1> HIDE DEF frame, dirty
<1>6. /\ InOrder(a)
      /\ a.key = b.key /\ a.frame = frame /\ a.dirty = dirty /\ a.io = b.io
  BY <1>1, <1>2 DEF InOrder, Buffer
<1> HIDE DEF a, c
<1>7. /\ InOrder(c)
      /\ c.key = b.key /\ c.frame = frame /\ c.dirty = dirty /\ c.io = b.io
  BY <1>3, <1>6, AccessMoves
<1>8. c.dirty[i] /\ \A j \in Frames \ {i} : c.dirty[j] <=> b.dirty[j]
  BY <1>2, <1>7
<1>9. Puts(b, c, i, b.key[i], v)
  BY <1>4, <1>5, <1>7, <1>8 DEF Puts
<1>10. QED
  BY <1>7, <1>8, <1>9 DEF c

(* Reading a page brings it into the buffer and changes nothing.           *)
LEMMA GetsPage ==
  ASSUME NEW b, Coherent(b), NEW id \in Ids, NEW p \in PageIds, b.io.fd[id] # NoFile
  PROVE  LET d == GetPage(b, id, p) IN
         /\ Coherent(d)
         /\ SameView(b, d)
         /\ SameIds(b, d)
         /\ IsCached(d, id, p)
         /\ \A j \in Frames : d.key[j] \in {b.key[j], <<id, p>>}
         /\ ~IsCached(b, id, p) => ~d.dirty[FrameOf(d, id, p)]
<1> DEFINE d == GetPage(b, id, p)
<1>1. CASE IsCached(b, id, p)
  <2>1. FrameOf(b, id, p) \in Frames
    BY <1>1, CachedIsHeld
  <2>2. d = Access(b, FrameOf(b, id, p))
    BY <1>1 DEF GetPage
  <2>3. /\ InOrder(d)
        /\ d.key = b.key /\ d.dirty = b.dirty /\ d.frame = b.frame /\ d.io = b.io
    BY <2>1, <2>2, AccessMoves DEF Coherent
  <2>4. Coherent(d) /\ SameView(b, d)
    BY <2>3, Rearranges
  <2>5. QED
    BY <1>1, <2>3, <2>4 DEF SameIds, IsCached
<1>2. CASE ~IsCached(b, id, p)
  <2> DEFINE i == Victim(b)
             m == Flush(b, i)
             c == FetchPage(b, id, p)
             f == b.io.fd[id]
             v == m.io.disk[f][p]
             frame == [c.frame EXCEPT ![i] = v]
  <2>1. /\ i \in Frames
        /\ Coherent(m) /\ SameView(b, m) /\ SameIds(b, m)
        /\ m.key = b.key
        /\ MayHold(m, i, id, p)
        /\ InOrder(c)
        /\ Puts(m, c, i, <<id, p>>, Absent)
        /\ ~c.dirty[i]
    BY <1>2, Fetches
  <2>2. d = [c EXCEPT !.frame = [@ EXCEPT ![i] = ReadPage(c.io, id, p)]]
    BY <1>2 DEF GetPage
  <2> HIDE DEF i, m, c
  <2>3. /\ b \in Buffer /\ m \in Buffer /\ c \in Buffer
        /\ c.io = m.io /\ m.io.fd = b.io.fd
    BY <2>1 DEF Coherent, InOrder, Puts, SameIds
  <2>4. f \in Files /\ v \in Cell
    BY <2>3, BufferParts
  <2>5. ReadPage(c.io, id, p) = v
    BY <2>3 DEF ReadPage
  <2>6. d = [c EXCEPT !.frame = frame]
    BY <2>2, <2>5
  <2> HIDE DEF v, f
  <2>7. frame \in [Frames -> Cell] /\ frame = [m.frame EXCEPT ![i] = v]
    BY <2>1, <2>3, <2>4, BufferParts DEF Puts
  <2> HIDE DEF frame, d
  <2>8. /\ InOrder(d)
        /\ d.key = c.key /\ d.frame = frame /\ d.dirty = c.dirty /\ d.io = c.io
    BY <2>1, <2>3, <2>6, <2>7 DEF InOrder, Buffer
  <2>9. Puts(m, d, i, <<id, p>>, v) /\ ~d.dirty[i]
    BY <2>1, <2>7, <2>8 DEF Puts
  <2>10. /\ d.key[i] = <<id, p>> /\ d.frame[i] = v /\ d.io = m.io
         /\ \A j \in Frames \ {i} : d.key[j] = m.key[j]
    BY <2>1, <2>3, <2>9, PutsParts
  <2>11. Fits(d, i)
    BY <2>3, <2>10, NoKeyIsNoPage DEF Fits, v, f
  <2>12. Coherent(d) /\ Wrote(m, d, f, p, v)
    BY <2>1, <2>3, <2>4, <2>8, <2>9, <2>11, FillsFrame DEF f
  <2>13. Shows(m, f, p) = v
    <3>1. ASSUME NEW j \in Frames, Holds(m, j, f, p)
          PROVE  FALSE
      <4>1. m.key[j][1] \in Ids /\ m.key[j] = <<m.key[j][1], m.key[j][2]>>
        BY <2>3, <3>1, KeyParts DEF Holds
      <4>2. m.io.fd[m.key[j][1]] = m.io.fd[id] /\ m.io.fd[id] # NoFile
        BY <2>3, <3>1 DEF Holds, f
      <4>3. m.key[j][1] = id
        BY <2>1, <4>1, <4>2 DEF Coherent, GoodFiles
      <4>4. b.key[j] = <<id, p>>
        BY <2>1, <3>1, <4>1, <4>3 DEF Holds
      <4>5. QED
        BY <1>2, <4>4 DEF IsCached
    <3>2. QED
      BY <3>1 DEF Shows, v
  <2>14. SameView(b, d)
    <3>1. ASSUME NEW g \in Files, NEW q \in PageIds
          PROVE  Shows(d, g, q) = Shows(b, g, q)
      <4>1. Shows(m, g, q) = Shows(b, g, q)
        BY <2>1 DEF SameView
      <4>2. Shows(d, g, q) = IF g = f /\ q = p THEN v ELSE Shows(m, g, q)
        BY <2>12 DEF Wrote
      <4>3. QED
        BY <2>13, <4>1, <4>2
    <3>2. QED
      BY <3>1 DEF SameView
  <2>15. IsCached(d, id, p)
    BY <2>1, <2>10 DEF IsCached
  <2>16. FrameOf(d, id, p) = i
    BY <2>1, <2>10, <2>12, <2>15, CachedIsHeld
  <2>17. SameIds(b, d)
    BY <2>1, <2>10 DEF SameIds
  <2>18. \A j \in Frames : d.key[j] \in {b.key[j], <<id, p>>}
    BY <2>1, <2>10
  <2>19. QED
    BY <2>9, <2>12, <2>14, <2>15, <2>16, <2>17, <2>18 DEF d
<1>3. QED
  BY <1>1, <1>2

(* Changing a page changes what that page reads as.                        *)
LEMMA ChangesPage ==
  ASSUME NEW b, Coherent(b), NEW id \in Ids, NEW p \in PageIds, b.io.fd[id] # NoFile,
         NEW v \in Content
  PROVE  LET d == ChangePage(b, id, p, v) IN
         /\ Coherent(d)
         /\ Wrote(b, d, b.io.fd[id], p, v)
         /\ SameIds(b, d)
         /\ IsCached(d, id, p)
         /\ \A j \in Frames : d.key[j] \in {b.key[j], <<id, p>>}
<1> DEFINE c == GetPage(b, id, p)
           i == FrameOf(c, id, p)
           d == Fill(c, i, v)
<1>1. /\ Coherent(c)
      /\ SameView(b, c)
      /\ SameIds(b, c)
      /\ IsCached(c, id, p)
      /\ \A j \in Frames : c.key[j] \in {b.key[j], <<id, p>>}
  BY GetsPage
<1>2. ChangePage(b, id, p, v) = d
  BY DEF ChangePage
<1> HIDE DEF c
<1>3. i \in Frames /\ c.key[i] = <<id, p>>
  BY <1>1, CachedIsHeld
<1>4. v \in Cell /\ InOrder(c) /\ c \in Buffer
  BY <1>1 DEF Cell, Coherent, InOrder
<1> HIDE DEF i
<1>5. InOrder(d) /\ Puts(c, d, i, <<id, p>>, v) /\ d.dirty[i]
  BY <1>3, <1>4, Fills
<1> HIDE DEF d
<1>6. /\ d.io = c.io
      /\ d.key[i] = <<id, p>>
      /\ \A j \in Frames \ {i} : d.key[j] = c.key[j]
  BY <1>3, <1>4, <1>5, PutsParts
<1>7. c.io.fd = b.io.fd
  BY <1>1 DEF SameIds
<1>8. Fits(d, i)
  <2>1. <<id, p>> # NoKey
    BY NoKeyIsNoPage
  <2>2. d.io.fd[id] # NoFile
    BY <1>6, <1>7
  <2>3. QED
    BY <1>5, <1>6, <2>1, <2>2 DEF Fits
<1>9. MayHold(c, i, id, p)
  BY <1>3 DEF MayHold
<1>10. Coherent(d) /\ Wrote(c, d, b.io.fd[id], p, v)
  BY <1>1, <1>3, <1>4, <1>5, <1>7, <1>8, <1>9, FillsFrame
<1>11. Wrote(b, d, b.io.fd[id], p, v)
  BY <1>1, <1>10 DEF Wrote, SameView
<1>12. SameIds(b, d) /\ IsCached(d, id, p)
  BY <1>1, <1>3, <1>6 DEF SameIds, IsCached
<1>13. \A j \in Frames : d.key[j] \in {b.key[j], <<id, p>>}
  BY <1>1, <1>6
<1>14. QED
  BY <1>2, <1>10, <1>11, <1>12, <1>13

(* Releasing a frame that need not be written changes nothing.             *)
LEMMA Releases ==
  ASSUME NEW b, Coherent(b), NEW i \in Frames, ~b.dirty[i]
  PROVE  LET c == Release(b, i) IN
         /\ Coherent(c)
         /\ SameView(b, c)
         /\ SameIds(b, c)
         /\ c.key = [b.key EXCEPT ![i] = NoKey]
<1> DEFINE c == Release(b, i)
           order == MoveToFront(b.order, i)
           key == [b.key EXCEPT ![i] = NoKey]
           frame == [b.frame EXCEPT ![i] = Absent]
           dirty == [b.dirty EXCEPT ![i] = FALSE]
<1>1. b \in Buffer
  BY DEF Coherent, InOrder
<1>2. /\ order \in [1 .. Cap -> Frames]
      /\ \A j \in Frames : \E k \in 1 .. Cap : order[k] = j
  BY <1>1, BufferParts, MovesToFront DEF Coherent, InOrder
<1>3. /\ key \in [Frames -> (Ids \X PageIds) \cup {NoKey}]
      /\ frame \in [Frames -> Cell]
      /\ dirty \in [Frames -> BOOLEAN]
      /\ ~dirty[i]
      /\ \A j \in Frames \ {i} : dirty[j] <=> b.dirty[j]
  BY <1>1, BufferParts DEF Cell
<1>4. c = [b EXCEPT !.dirty = dirty, !.order = order, !.key = key, !.frame = frame]
  BY DEF Release
<1> HIDE DEF order, dirty, c
<1>5. /\ c \in Buffer
      /\ c.order = order /\ c.key = key /\ c.frame = frame /\ c.dirty = dirty
      /\ c.io = b.io
  <2> HIDE DEF key, frame
  <2>1. QED
    BY <1>1, <1>2, <1>3, <1>4 DEF Buffer
<1>6. InOrder(c)
  BY <1>2, <1>5 DEF InOrder
<1>7. ~c.dirty[i] /\ \A j \in Frames \ {i} : c.dirty[j] <=> b.dirty[j]
  BY <1>3, <1>5
<1>8. Puts(b, c, i, NoKey, Absent)
  BY <1>5, <1>7 DEF Puts
<1>9. Coherent(c) /\ SameView(b, c)
  BY <1>6, <1>7, <1>8, ClearsFrame
<1>10. QED
  BY <1>5, <1>9 DEF SameIds, c

LEMMA WritesBack ==
  ASSUME NEW b, Coherent(b), NEW i \in Frames
  PROVE  LET c == WriteBack(b, i) IN
         /\ Coherent(c)
         /\ SameView(b, c)
         /\ SameIds(b, c)
         /\ c.key = [b.key EXCEPT ![i] = NoKey]
<1> DEFINE m == Flush(b, i)
           c == Release(m, i)
<1>1. /\ Coherent(m) /\ SameView(b, m) /\ SameIds(b, m)
      /\ m.key = b.key
      /\ ~m.dirty[i]
  BY Flushes
<1> HIDE DEF m
<1>2. /\ Coherent(c) /\ SameView(m, c) /\ SameIds(m, c)
      /\ c.key = [m.key EXCEPT ![i] = NoKey]
  BY <1>1, Releases
<1>3. SameView(b, c) /\ SameIds(b, c)
  BY <1>1, <1>2 DEF SameView, SameIds
<1>4. QED
  BY <1>1, <1>2, <1>3 DEF WriteBack, m

(* A page written through the buffer leaves no frame behind.               *)
LEMMA PutsNewPage ==
  ASSUME NEW b, Coherent(b), NEW id \in Ids, NEW p \in PageIds, b.io.fd[id] # NoFile,
         ~IsCached(b, id, p), NEW v \in Content
  PROVE  LET d == PutNewPage(b, id, p, v) IN
         /\ Coherent(d)
         /\ Wrote(b, d, b.io.fd[id], p, v)
         /\ SameIds(b, d)
         /\ \A j \in Frames : d.key[j] \in {b.key[j], NoKey}
<1> DEFINE i == Victim(b)
           m == Flush(b, i)
           a == FetchPage(b, id, p)
           c == Fill(a, i, v)
           d == WriteBack(c, i)
<1>1. /\ i \in Frames
      /\ Coherent(m) /\ SameView(b, m) /\ SameIds(b, m)
      /\ m.key = b.key
      /\ MayHold(m, i, id, p)
      /\ InOrder(a)
      /\ Puts(m, a, i, <<id, p>>, Absent)
  BY Fetches
<1>2. PutNewPage(b, id, p, v) = d
  BY DEF PutNewPage, AllocPage
<1> HIDE DEF i, m, a
<1>3. v \in Cell /\ m \in Buffer /\ a \in Buffer
  BY <1>1 DEF Cell, Coherent, InOrder
<1>4. /\ a.io = m.io
      /\ a.key[i] = <<id, p>>
      /\ a.key = [m.key EXCEPT ![i] = <<id, p>>]
      /\ \A j \in Frames \ {i} : a.dirty[j] <=> m.dirty[j]
      /\ a.frame = [m.frame EXCEPT ![i] = Absent]
  <2>1. a.io = m.io /\ a.key[i] = <<id, p>>
    BY <1>1, <1>3, PutsParts
  <2>2. QED
    BY <1>1, <2>1 DEF Puts
<1>5. InOrder(c) /\ Puts(a, c, i, <<id, p>>, v) /\ c.dirty[i]
  <2>1. InOrder(c) /\ Puts(a, c, i, a.key[i], v) /\ c.dirty[i]
    BY <1>1, <1>3, Fills
  <2>2. QED
    BY <1>4, <2>1
<1> HIDE DEF c
<1>6. Puts(m, c, i, <<id, p>>, v)
  <2>1. c.io = m.io
    BY <1>4, <1>5 DEF Puts
  <2>2. c.key = [m.key EXCEPT ![i] = <<id, p>>] /\ c.frame = [m.frame EXCEPT ![i] = v]
    BY <1>3, <1>4, <1>5, BufferParts DEF Puts
  <2>3. \A j \in Frames \ {i} : c.dirty[j] <=> m.dirty[j]
    BY <1>4, <1>5 DEF Puts
  <2>4. QED
    BY <2>1, <2>2, <2>3 DEF Puts
<1>7. /\ c.io = m.io
      /\ c.key[i] = <<id, p>>
      /\ \A j \in Frames \ {i} : c.key[j] = m.key[j]
  BY <1>1, <1>3, <1>6, PutsParts
<1>8. m.io.fd = b.io.fd
  BY <1>1 DEF SameIds
<1>9. Fits(c, i)
  <2>1. <<id, p>> # NoKey
    BY NoKeyIsNoPage
  <2>2. c.io.fd[id] # NoFile
    BY <1>7, <1>8
  <2>3. QED
    BY <1>5, <1>7, <2>1, <2>2 DEF Fits
<1>10. Coherent(c) /\ Wrote(m, c, b.io.fd[id], p, v)
  BY <1>1, <1>3, <1>5, <1>6, <1>8, <1>9, FillsFrame
<1>11. /\ Coherent(d) /\ SameView(c, d) /\ SameIds(c, d)
       /\ d.key = [c.key EXCEPT ![i] = NoKey]
  BY <1>1, <1>10, WritesBack
<1> HIDE DEF d
<1>12. Wrote(b, d, b.io.fd[id], p, v)
  BY <1>1, <1>10, <1>11 DEF Wrote, SameView
<1>13. SameIds(b, d)
  BY <1>1, <1>7, <1>11 DEF SameIds
<1>14. \A j \in Frames : d.key[j] \in {b.key[j], NoKey}
  <2>1. c.key \in [Frames -> (Ids \X PageIds) \cup {NoKey}]
    BY <1>5, BufferParts DEF InOrder
  <2>2. QED
    BY <1>1, <1>7, <1>11, <2>1
<1>15. QED
  BY <1>2, <1>11, <1>12, <1>13, <1>14

LEMMA ForcesPage ==
  ASSUME NEW b, Coherent(b), NEW id \in Ids, NEW p \in PageIds, b.io.fd[id] # NoFile,
         NEW v \in Content
  PROVE  LET d == ForcePage(b, id, p, v) IN
         /\ Coherent(d)
         /\ Wrote(b, d, b.io.fd[id], p, v)
         /\ SameIds(b, d)
         /\ \A j \in Frames : d.key[j] \in {b.key[j], NoKey}
<1> DEFINE c == ChangePage(b, id, p, v)
           i == FrameOf(c, id, p)
           d == WriteBack(c, i)
<1>1. /\ Coherent(c)
      /\ Wrote(b, c, b.io.fd[id], p, v)
      /\ SameIds(b, c)
      /\ IsCached(c, id, p)
      /\ \A j \in Frames : c.key[j] \in {b.key[j], <<id, p>>}
  BY ChangesPage
<1>2. ForcePage(b, id, p, v) = d
  BY DEF ForcePage
<1> HIDE DEF c
<1>3. i \in Frames /\ \A j \in Frames : c.key[j] = <<id, p>> => j = i
  BY <1>1, CachedIsHeld
<1> HIDE DEF i
<1>4. /\ Coherent(d) /\ SameView(c, d) /\ SameIds(c, d)
      /\ d.key = [c.key EXCEPT ![i] = NoKey]
  BY <1>1, <1>3, WritesBack
<1> HIDE DEF d
<1>5. Wrote(b, d, b.io.fd[id], p, v) /\ SameIds(b, d)
  BY <1>1, <1>4 DEF Wrote, SameView, SameIds
<1>6. \A j \in Frames : d.key[j] \in {b.key[j], NoKey}
  <2>1. c.key \in [Frames -> (Ids \X PageIds) \cup {NoKey}]
    BY <1>1, BufferParts DEF Coherent, InOrder
  <2>2. QED
    BY <1>1, <1>3, <1>4, <2>1
<1>7. QED
  BY <1>2, <1>4, <1>5, <1>6

(* Writing the whole buffer back brings to disk what every page reads as.  *)
LEMMA ClosesBuffer ==
  ASSUME NEW b, Coherent(b)
  PROVE  LET c == CloseBuffer(b) IN
         /\ Coherent(c)
         /\ SameView(b, c)
         /\ SameIds(b, c)
         /\ \A j \in Frames : c.key[j] = NoKey
         /\ \A f \in Files, p \in PageIds : c.io.disk[f][p] = Shows(b, f, p)
<1> DEFINE HolderOf(f, p) == {i \in Frames : /\ b.dirty[i]
                                             /\ b.key[i][2] = p
                                             /\ b.io.fd[b.key[i][1]] = f}
           disk == [f \in Files |-> [p \in PageIds |->
                      IF HolderOf(f, p) = {} THEN b.io.disk[f][p]
                      ELSE b.frame[Max(HolderOf(f, p))]]]
           io == [b.io EXCEPT !.disk = disk]
           c == CloseBuffer(b)
<1>1. b \in Buffer
  BY DEF Coherent, InOrder
<1>2. ASSUME NEW f \in Files, NEW p \in PageIds
      PROVE  disk[f][p] = Shows(b, f, p)
  <2>1. disk[f][p] = IF HolderOf(f, p) = {} THEN b.io.disk[f][p]
                     ELSE b.frame[Max(HolderOf(f, p))]
    OBVIOUS
  <2> HIDE DEF disk
  <2>2. ASSUME NEW i \in HolderOf(f, p)
        PROVE  i \in Frames /\ b.dirty[i] /\ Holds(b, i, f, p)
    <3>1. Fits(b, i)
      BY DEF Coherent
    <3>2. b.key[i] # NoKey
      BY <3>1 DEF Fits
    <3>3. QED
      BY <3>2 DEF Holds
  <2>3. ASSUME NEW i \in Frames, Holds(b, i, f, p), b.dirty[i]
        PROVE  i \in HolderOf(f, p)
    BY <2>3 DEF Holds
  <2>4. CASE HolderOf(f, p) = {}
    <3>1. \A i \in Frames : Holds(b, i, f, p) => ~b.dirty[i]
      BY <2>3, <2>4
    <3> HIDE DEF HolderOf
    <3>2. QED
      BY <2>1, <2>4, <3>1, ShowsDisk
  <2>5. CASE HolderOf(f, p) # {}
    <3>1. PICK i \in HolderOf(f, p) : TRUE
      BY <2>5
    <3>2. i \in Frames /\ Holds(b, i, f, p)
      BY <2>2, <3>1
    <3> HIDE DEF HolderOf
    <3>3. HolderOf(f, p) = {i}
      BY <2>2, <3>1, <3>2, OneHolder
    <3>4. Max(HolderOf(f, p)) = i
      <4>1. i \in Int
        BY <3>2, CapAssumption DEF Frames
      <4>2. QED
        BY <3>3, <4>1 DEF Max
    <3>5. QED
      BY <2>1, <2>5, <3>2, <3>4, ShowsHeld
  <2>6. QED
    BY <2>4, <2>5
<1>3. ASSUME NEW f \in Files, NEW p \in PageIds
      PROVE  Shows(b, f, p) \in Cell
  <2>1. CASE \E i \in Frames : Holds(b, i, f, p)
    BY <1>1, <2>1, ShowsHeld, BufferParts
  <2>2. CASE ~\E i \in Frames : Holds(b, i, f, p)
    BY <1>1, <2>2, BufferParts DEF Shows
  <2>3. QED
    BY <2>1, <2>2
<1>4. disk = [f \in Files |-> [p \in PageIds |-> Shows(b, f, p)]]
  <2>1. \A f \in Files : disk[f] = [p \in PageIds |-> Shows(b, f, p)]
    BY <1>2
  <2>2. QED
    BY <2>1
<1>5. /\ c.key = [i \in Frames |-> NoKey]
      /\ c.dirty = [i \in Frames |-> FALSE]
      /\ c.frame = [i \in Frames |-> Absent]
      /\ c.order = [k \in 1 .. Cap |-> Cap - k]
      /\ c.last = b.last
      /\ c.io = io
      /\ c = [key |-> c.key, dirty |-> c.dirty, frame |-> c.frame,
              order |-> c.order, last |-> c.last, io |-> c.io]
  BY DEF CloseBuffer
<1> HIDE DEF disk, c, HolderOf
<1>6. disk \in [Files -> [PageIds -> Cell]]
  BY <1>3, <1>4
<1>7. /\ io \in FileState
      /\ io.fd = b.io.fd /\ io.fm = b.io.fm /\ io.exists = b.io.exists
      /\ io.disk = disk
  BY <1>1, <1>6, BufferParts DEF FileState
<1> HIDE DEF io
<1>8. InOrder(c)
  <2>1. c.order \in [1 .. Cap -> Frames]
    BY <1>5, CapAssumption DEF Frames
  <2>2. ASSUME NEW i \in Frames
        PROVE  \E k \in 1 .. Cap : c.order[k] = i
    <3>1. Cap - i \in 1 .. Cap /\ Cap - (Cap - i) = i
      BY CapAssumption DEF Frames
    <3>2. c.order[Cap - i] = i
      BY <1>5, <3>1
    <3>3. QED
      BY <3>1, <3>2
  <2>3. /\ c.key \in [Frames -> (Ids \X PageIds) \cup {NoKey}]
        /\ c.dirty \in [Frames -> BOOLEAN]
        /\ c.frame \in [Frames -> Cell]
        /\ c.last \in Frames \cup {-1}
        /\ c.io \in FileState
    BY <1>1, <1>5, <1>7, BufferParts DEF Cell
  <2>4. c \in Buffer
    BY <1>5, <2>1, <2>3 DEF Buffer
  <2>5. QED
    BY <2>2, <2>4 DEF InOrder
<1>9. \A j \in Frames : c.key[j] = NoKey /\ ~c.dirty[j]
  BY <1>5
<1>10. Coherent(c)
  <2>1. GoodFiles(c.io)
    BY <1>5, <1>7 DEF Coherent, GoodFiles, FreeIds
  <2>2. Distinct(c)
    BY <1>9 DEF Distinct
  <2>3. \A j \in Frames : Fits(c, j)
    BY <1>9 DEF Fits
  <2>4. QED
    BY <1>8, <2>1, <2>2, <2>3 DEF Coherent
<1>11. ASSUME NEW f \in Files, NEW p \in PageIds
       PROVE  c.io.disk[f][p] = Shows(b, f, p) /\ Shows(c, f, p) = Shows(b, f, p)
  <2>1. c.io.disk[f][p] = Shows(b, f, p)
    BY <1>4, <1>5, <1>7
  <2>2. \A j \in Frames : ~Holds(c, j, f, p)
    BY <1>9 DEF Holds
  <2>3. Shows(c, f, p) = c.io.disk[f][p]
    BY <2>2 DEF Shows
  <2>4. QED
    BY <2>1, <2>3
<1>12. QED
  BY <1>5, <1>7, <1>9, <1>10, <1>11 DEF SameView, SameIds, c

-----------------------------------------------------------------------------
(* The calls of the file manager                                           *)

(* No frame holds a page under an id that is free.                         *)
LEMMA FreeIsUncached ==
  ASSUME NEW b, Coherent(b), NEW id \in FreeIds(b.io)
  PROVE  /\ id \in Ids
         /\ b.io.fd[id] = NoFile
         /\ \A i \in Frames : b.key[i] # NoKey => b.key[i][1] # id
         /\ \A p \in PageIds : ~IsCached(b, id, p)
<1>1. id \in Ids
  BY DEF FreeIds, Elements, Ids
<1>2. b.io.fd[id] = NoFile
  BY DEF Coherent, GoodFiles
<1>3. ASSUME NEW i \in Frames, b.key[i] # NoKey
      PROVE  b.key[i][1] # id
  <2>1. Fits(b, i)
    BY DEF Coherent
  <2>2. QED
    BY <1>2, <1>3, <2>1 DEF Fits
<1>4. ASSUME NEW p \in PageIds, NEW i \in Frames, b.key[i] = <<id, p>>
      PROVE  FALSE
  <2>1. b.key[i] # NoKey
    BY <1>1, <1>4, NoKeyIsNoPage
  <2>2. b.key[i][1] # id
    BY <1>3, <2>1
  <2>3. QED
    BY <1>4, <2>2
<1>5. QED
  BY <1>1, <1>2, <1>3, <1>4 DEF IsCached

(* The files may change under the buffer, but not those of its frames.     *)
LEMMA Rewires ==
  ASSUME NEW b, Coherent(b), NEW io, GoodFiles(io),
         \A i \in Frames : b.key[i] # NoKey =>
           /\ io.fd[b.key[i][1]] = b.io.fd[b.key[i][1]]
           /\ io.disk[b.io.fd[b.key[i][1]]] = b.io.disk[b.io.fd[b.key[i][1]]]
  PROVE  LET c == [b EXCEPT !.io = io] IN
         /\ Coherent(c)
         /\ c.key = b.key /\ c.io = io
         /\ \A f \in Files, p \in PageIds :
              /\ io.disk[f] = b.io.disk[f] => Shows(c, f, p) = Shows(b, f, p)
              /\ (\A i \in Frames : ~Holds(b, i, f, p)) => Shows(c, f, p) = io.disk[f][p]
<1> DEFINE c == [b EXCEPT !.io = io]
<1>1. b \in Buffer
  BY DEF Coherent, InOrder
<1>2. /\ InOrder(c)
      /\ c.key = b.key /\ c.io = io /\ c.frame = b.frame /\ c.dirty = b.dirty
  BY <1>1 DEF Coherent, InOrder, GoodFiles, Buffer
<1> HIDE DEF c
<1>3. \A i \in Frames, f \in Files, p \in PageIds : Holds(c, i, f, p) <=> Holds(b, i, f, p)
  BY <1>2 DEF Holds
<1>4. Coherent(c)
  <2>1. ASSUME NEW i \in Frames
        PROVE  Fits(c, i)
    <3>1. Fits(b, i)
      BY DEF Coherent
    <3>2. QED
      BY <1>2, <3>1 DEF Fits
  <2>2. QED
    BY <1>2, <2>1 DEF Coherent, Distinct
<1>5. ASSUME NEW f \in Files, NEW p \in PageIds
      PROVE  /\ io.disk[f] = b.io.disk[f] => Shows(c, f, p) = Shows(b, f, p)
             /\ (\A i \in Frames : ~Holds(b, i, f, p)) => Shows(c, f, p) = io.disk[f][p]
  <2>1. CASE \E i \in Frames : Holds(b, i, f, p)
    <3>1. PICK i \in Frames : Holds(b, i, f, p)
      BY <2>1
    <3>2. Shows(b, f, p) = b.frame[i]
      BY <3>1, ShowsHeld
    <3>3. Holds(c, i, f, p)
      BY <1>3, <3>1
    <3>4. Shows(c, f, p) = c.frame[i]
      BY <1>4, <3>1, <3>3, ShowsHeld
    <3>5. QED
      BY <1>2, <2>1, <3>2, <3>4
  <2>2. CASE ~\E i \in Frames : Holds(b, i, f, p)
    BY <1>2, <1>3, <2>2 DEF Shows
  <2>3. QED
    BY <2>1, <2>2
<1>6. QED
  BY <1>2, <1>4, <1>5 DEF c

LEMMA FileParts ==
  ASSUME NEW io, GoodFiles(io)
  PROVE  /\ io \in FileState
         /\ io.exists \in SUBSET Files
         /\ io.fm \in BitMaps /\ InnerMatches(io.fm)
         /\ io.fd \in [Ids -> Files \cup {NoFile}]
         /\ io.disk \in [Files -> [PageIds -> Cell]]
         /\ FreeIds(io) \subseteq Ids
BY DEF GoodFiles, FileState, FreeIds, Elements, Ids

LEMMA CreatesFile ==
  ASSUME NEW b, Coherent(b), NEW f \in Files
  PROVE  LET c == [b EXCEPT !.io = CreateFile(b.io, f)] IN
         /\ Coherent(c)
         /\ SameView(b, c)
         /\ c.key = b.key
         /\ c.io.fd = b.io.fd /\ c.io.fm = b.io.fm
         /\ c.io.exists = b.io.exists \cup {f}
<1> DEFINE io == CreateFile(b.io, f)
           c == [b EXCEPT !.io = io]
<1>1. GoodFiles(b.io)
  BY DEF Coherent
<1>2. /\ io \in FileState
      /\ io.fd = b.io.fd /\ io.fm = b.io.fm /\ io.disk = b.io.disk
      /\ io.exists = b.io.exists \cup {f}
  BY <1>1, FileParts DEF CreateFile, FileState
<1> HIDE DEF io
<1>3. FreeIds(io) = FreeIds(b.io)
  BY <1>2 DEF FreeIds
<1>4. GoodFiles(io)
  BY <1>1, <1>2, <1>3 DEF GoodFiles
<1>5. /\ Coherent(c)
      /\ c.key = b.key /\ c.io = io
      /\ \A g \in Files, p \in PageIds :
           io.disk[g] = b.io.disk[g] => Shows(c, g, p) = Shows(b, g, p)
  BY <1>2, <1>4, Rewires
<1> HIDE DEF c
<1>6. SameView(b, c)
  BY <1>2, <1>5 DEF SameView
<1>7. QED
  BY <1>2, <1>3, <1>5, <1>6 DEF c, io

(* A file that no frame holds a page of may be removed.                    *)
LEMMA RemovesFile ==
  ASSUME NEW b, Coherent(b), NEW f \in Files, \A id \in Ids : b.io.fd[id] # f
  PROVE  LET c == [b EXCEPT !.io = RemoveFile(b.io, f)] IN
         /\ Coherent(c)
         /\ c.key = b.key
         /\ c.io.fd = b.io.fd /\ FreeIds(c.io) = FreeIds(b.io)
         /\ c.io.exists = b.io.exists \ {f}
         /\ \A g \in Files, p \in PageIds :
              Shows(c, g, p) = IF g = f THEN Absent ELSE Shows(b, g, p)
<1> DEFINE io == RemoveFile(b.io, f)
           c == [b EXCEPT !.io = io]
           blank == [p \in PageIds |-> Absent]
<1>1. GoodFiles(b.io) /\ b \in Buffer
  BY DEF Coherent, InOrder
<1>2. /\ io \in FileState
      /\ io.fd = b.io.fd /\ io.fm = b.io.fm
      /\ io.disk = [b.io.disk EXCEPT ![f] = blank]
      /\ io.exists = b.io.exists \ {f}
  <2>1. blank \in [PageIds -> Cell]
    BY DEF Cell
  <2>2. io = [b.io EXCEPT !.exists = b.io.exists \ {f},
                          !.disk = [b.io.disk EXCEPT ![f] = blank]]
    BY DEF RemoveFile
  <2> HIDE DEF blank, io
  <2>3. [b.io.disk EXCEPT ![f] = blank] \in [Files -> [PageIds -> Cell]]
    BY <1>1, <2>1, FileParts
  <2>4. b.io.exists \ {f} \in SUBSET Files
    BY <1>1, FileParts
  <2>5. b.io \in FileState
    BY <1>1, FileParts
  <2>6. /\ io \in FileState
        /\ io.fd = b.io.fd /\ io.fm = b.io.fm
        /\ io.exists = b.io.exists \ {f}
        /\ io.disk = [b.io.disk EXCEPT ![f] = blank]
    BY <2>2, <2>3, <2>4, <2>5 DEF FileState
  <2>7. QED
    BY <2>6
<1> HIDE DEF io
<1>3. FreeIds(io) = FreeIds(b.io)
  BY <1>2 DEF FreeIds
<1>4. GoodFiles(io)
  BY <1>1, <1>2, <1>3 DEF GoodFiles
<1>5. ASSUME NEW i \in Frames, b.key[i] # NoKey
      PROVE  b.key[i][1] \in Ids /\ b.io.fd[b.key[i][1]] # f
  BY <1>1, <1>5, KeyParts
<1>6. /\ Coherent(c)
      /\ c.key = b.key /\ c.io = io
      /\ \A g \in Files, p \in PageIds :
           /\ io.disk[g] = b.io.disk[g] => Shows(c, g, p) = Shows(b, g, p)
           /\ (\A i \in Frames : ~Holds(b, i, g, p)) => Shows(c, g, p) = io.disk[g][p]
  <2>1. ASSUME NEW i \in Frames, b.key[i] # NoKey
        PROVE  /\ io.fd[b.key[i][1]] = b.io.fd[b.key[i][1]]
               /\ io.disk[b.io.fd[b.key[i][1]]] = b.io.disk[b.io.fd[b.key[i][1]]]
    <3>1. Fits(b, i)
      BY DEF Coherent
    <3>2. b.io.fd[b.key[i][1]] \in Files \ {f}
      BY <1>1, <1>5, <2>1, <3>1, BufferParts DEF Fits
    <3>3. QED
      BY <1>1, <1>2, <3>2, FileParts
  <2>2. QED
    BY <1>4, <2>1, Rewires
<1> HIDE DEF c
<1>7. ASSUME NEW g \in Files, NEW p \in PageIds
      PROVE  Shows(c, g, p) = IF g = f THEN Absent ELSE Shows(b, g, p)
  <2>1. CASE g = f
    <3>1. \A i \in Frames : ~Holds(b, i, g, p)
      BY <1>5, <2>1 DEF Holds
    <3>2. io.disk[g] = blank
      BY <1>1, <1>2, <2>1, FileParts
    <3>3. Shows(c, g, p) = io.disk[g][p]
      BY <1>6, <3>1
    <3>4. QED
      BY <2>1, <3>2, <3>3
  <2>2. CASE g # f
    <3>1. io.disk[g] = b.io.disk[g]
      BY <1>1, <1>2, <2>2, FileParts
    <3>2. QED
      BY <1>6, <2>2, <3>1
  <2>3. QED
    BY <2>1, <2>2
<1>8. QED
  BY <1>2, <1>3, <1>6, <1>7 DEF c, io

(* A file opened while an id is free gets a free id, and finds no page of  *)
(* the file that had it before.                                            *)
LEMMA OpensFile ==
  ASSUME NEW b, Coherent(b), NEW f \in Files, FreeIds(b.io) # {},
         \A id \in Ids : b.io.fd[id] # f
  PROVE  LET id == FirstId(b.io)
             c  == Opened(b, f)
         IN  /\ id \in FreeIds(b.io)
             /\ Coherent(c)
             /\ SameView(b, c)
             /\ c.key = b.key
             /\ c.io.exists = b.io.exists
             /\ FreeIds(c.io) = FreeIds(b.io) \ {id}
             /\ c.io.fd = IF f \in b.io.exists THEN [b.io.fd EXCEPT ![id] = f] ELSE b.io.fd
<1> DEFINE id == FirstId(b.io)
           io == OpenFile(b.io, f)
           c  == Opened(b, f)
           fd == IF f \in b.io.exists THEN [b.io.fd EXCEPT ![id] = f] ELSE b.io.fd
           fm == SetBit(b.io.fm, id, 0)
<1>1. GoodFiles(b.io) /\ b \in Buffer
  BY DEF Coherent, InOrder
<1>2. id \in FreeIds(b.io)
  BY <1>1, FileParts, BitMapFindsLeast DEF FreeIds, FirstId
<1>3. /\ id \in Ids
      /\ b.io.fd[id] = NoFile
      /\ \A i \in Frames : b.key[i] # NoKey => b.key[i][1] # id
  BY <1>2, FreeIsUncached
<1>4. /\ fm \in BitMaps /\ InnerMatches(fm)
      /\ Elements(fm) = Elements(b.io.fm) \ {id}
  BY <1>1, <1>3, FileParts, BitMapSets DEF Ids
<1>5. io = [b.io EXCEPT !.fm = fm, !.fd = fd]
  BY DEF OpenFile
<1>6. c = [b EXCEPT !.io = io]
  BY DEF Opened
<1> HIDE DEF id, fm, io, c
<1>7. fd \in [Ids -> Files \cup {NoFile}]
  BY <1>1, FileParts
<1>8. /\ \A x \in Ids \ {id} : fd[x] = b.io.fd[x]
      /\ fd[id] = NoFile \/ fd[id] = f
  BY <1>1, <1>3, FileParts
<1> HIDE DEF fd
<1>9. /\ io \in FileState
      /\ io.fd = fd /\ io.fm = fm /\ io.exists = b.io.exists /\ io.disk = b.io.disk
  <2>1. b.io \in FileState
    BY <1>1, FileParts
  <2>2. QED
    BY <1>4, <1>5, <1>7, <2>1 DEF FileState
<1>10. FreeIds(io) = FreeIds(b.io) \ {id}
  BY <1>4, <1>9 DEF FreeIds
<1>11. GoodFiles(io)
  <2>1. ASSUME NEW x \in Ids, NEW y \in Ids, fd[x] = fd[y], fd[x] # NoFile
        PROVE  x = y
    BY <1>1, <1>8, <2>1 DEF GoodFiles
  <2>2. ASSUME NEW x \in FreeIds(io)
        PROVE  fd[x] = NoFile
    <3>1. x \in FreeIds(b.io) /\ x # id /\ x \in Ids
      BY <1>1, <1>10, FileParts
    <3>2. QED
      BY <1>1, <1>8, <3>1 DEF GoodFiles
  <2>3. QED
    BY <1>4, <1>9, <2>1, <2>2 DEF GoodFiles
<1>12. /\ Coherent(c)
       /\ c.key = b.key /\ c.io = io
       /\ \A g \in Files, p \in PageIds :
            io.disk[g] = b.io.disk[g] => Shows(c, g, p) = Shows(b, g, p)
  <2>1. ASSUME NEW i \in Frames, b.key[i] # NoKey
        PROVE  io.fd[b.key[i][1]] = b.io.fd[b.key[i][1]]
    <3>1. b.key[i][1] \in Ids \ {id}
      BY <1>1, <1>3, <2>1, KeyParts
    <3>2. QED
      BY <1>8, <1>9, <3>1
  <2>2. QED
    BY <1>6, <1>9, <1>11, <2>1, Rewires
<1>13. SameView(b, c)
  BY <1>9, <1>12 DEF SameView
<1>14. QED
  BY <1>2, <1>9, <1>10, <1>12, <1>13 DEF id, c, fd

(* An id may be given back when no frame holds a page under it.            *)
LEMMA ClosesFile ==
  ASSUME NEW b, Coherent(b), NEW id \in Ids,
         \A i \in Frames : b.key[i] # NoKey => b.key[i][1] # id
  PROVE  LET c == Closed(b, id) IN
         /\ Coherent(c)
         /\ SameView(b, c)
         /\ c.key = b.key
         /\ c.io.exists = b.io.exists
         /\ c.io.disk = b.io.disk
         /\ FreeIds(c.io) = FreeIds(b.io) \cup {id}
         /\ c.io.fd = [b.io.fd EXCEPT ![id] = NoFile]
<1> DEFINE io == CloseFile(b.io, id)
           c  == Closed(b, id)
           fd == [b.io.fd EXCEPT ![id] = NoFile]
           fm == SetBit(b.io.fm, id, 1)
<1>1. GoodFiles(b.io) /\ b \in Buffer
  BY DEF Coherent, InOrder
<1>2. /\ fm \in BitMaps /\ InnerMatches(fm)
      /\ Elements(fm) = Elements(b.io.fm) \cup {id}
  BY <1>1, FileParts, BitMapSets DEF Ids
<1>3. io = [b.io EXCEPT !.fm = fm, !.fd = fd]
  BY DEF CloseFile
<1>4. c = [b EXCEPT !.io = io]
  BY DEF Closed
<1> HIDE DEF fm, io, c
<1>5. fd \in [Ids -> Files \cup {NoFile}]
  BY <1>1, FileParts
<1>6. fd[id] = NoFile /\ \A x \in Ids \ {id} : fd[x] = b.io.fd[x]
  BY <1>1, FileParts
<1> HIDE DEF fd
<1>7. /\ io \in FileState
      /\ io.fd = fd /\ io.fm = fm /\ io.exists = b.io.exists /\ io.disk = b.io.disk
  <2>1. b.io \in FileState
    BY <1>1, FileParts
  <2>2. QED
    BY <1>2, <1>3, <1>5, <2>1 DEF FileState
<1>8. FreeIds(io) = FreeIds(b.io) \cup {id}
  BY <1>2, <1>7 DEF FreeIds
<1>9. GoodFiles(io)
  <2>1. ASSUME NEW x \in Ids, NEW y \in Ids, fd[x] = fd[y], fd[x] # NoFile
        PROVE  x = y
    BY <1>1, <1>6, <2>1 DEF GoodFiles
  <2>2. ASSUME NEW x \in FreeIds(io)
        PROVE  fd[x] = NoFile
    BY <1>1, <1>6, <1>8, FileParts DEF GoodFiles
  <2>3. QED
    BY <1>2, <1>7, <2>1, <2>2 DEF GoodFiles
<1>10. /\ Coherent(c)
       /\ c.key = b.key /\ c.io = io
       /\ \A g \in Files, p \in PageIds :
            io.disk[g] = b.io.disk[g] => Shows(c, g, p) = Shows(b, g, p)
  <2>1. ASSUME NEW i \in Frames, b.key[i] # NoKey
        PROVE  io.fd[b.key[i][1]] = b.io.fd[b.key[i][1]]
    <3>1. b.key[i][1] \in Ids \ {id}
      BY <1>1, <2>1, KeyParts
    <3>2. QED
      BY <1>6, <1>7, <3>1
  <2>2. QED
    BY <1>4, <1>7, <1>9, <2>1, Rewires
<1>11. SameView(b, c)
  BY <1>7, <1>10 DEF SameView
<1>12. QED
  BY <1>7, <1>8, <1>10, <1>11 DEF c, fd

-----------------------------------------------------------------------------
(* The invariant                                                           *)

(* A handle has the id under which the file manager has its file.          *)
Linked == \A f \in Files, id \in Ids : buf.io.fd[id] = f <=> handle[f] = id

(* Open files are there, and files have a header.                          *)
Sizes ==
  \A f \in Files : /\ IsOpen(f) => f \in buf.io.exists
                   /\ f \in buf.io.exists => pageNum[f] >= 1

(* A key names a page of its file; the header of an index is kept out of   *)
(* the buffer, so that its close may allocate a frame for it.              *)
Inside(key, fd, size) ==
  /\ key[2] < size[fd[key[1]]]
  /\ fd[key[1]] \in IndexFiles => key[2] # 0

KeysInside ==
  \A i \in Frames : buf.key[i] # NoKey => Inside(buf.key[i], buf.io.fd, pageNum)

HandlesOK ==
  /\ handle \in [Files -> Ids \cup {NoId}]
  /\ pageNum \in [Files -> Nat]
  /\ \A f \in Files : pageNum[f] <= MaxPageNum[f]

(* The inductive invariant.                                                *)
IInv ==
  /\ Coherent(buf)
  /\ HandlesOK
  /\ Linked
  /\ Sizes
  /\ KeysInside

LEMMA NoIdIsNone == NoId \notin Ids
BY DEF NoId, Ids, Numbers

LEMMA OpenHas ==
  ASSUME IInv, NEW f \in Files, IsOpen(f)
  PROVE  /\ handle[f] \in Ids
         /\ buf.io.fd[handle[f]] = f
         /\ buf.io.fd[handle[f]] # NoFile
         /\ f \in buf.io.exists
         /\ pageNum[f] \in Nat
         /\ pageNum[f] >= 1
<1>1. handle[f] \in Ids /\ pageNum[f] \in Nat
  BY DEF IInv, HandlesOK, IsOpen
<1>2. buf.io.fd[handle[f]] = f
  BY <1>1 DEF IInv, Linked
<1>3. QED
  BY <1>1, <1>2, NoFileAssumption DEF IInv, Sizes

LEMMA ClosedHasNone ==
  ASSUME IInv, NEW f \in Files, ~IsOpen(f)
  PROVE  \A id \in Ids : buf.io.fd[id] # f
BY NoIdIsNone DEF IInv, Linked, IsOpen

(* A key in the buffer is one of an open file.                             *)
LEMMA KeyIsOpen ==
  ASSUME IInv, NEW i \in Frames, buf.key[i] # NoKey
  PROVE  LET f == buf.io.fd[buf.key[i][1]] IN
         /\ f \in Files
         /\ handle[f] = buf.key[i][1]
         /\ IsOpen(f)
         /\ buf.key[i][1] \in Ids
         /\ buf.key[i][2] \in PageIds
         /\ Inside(buf.key[i], buf.io.fd, pageNum)
<1> DEFINE id == buf.key[i][1]
           f  == buf.io.fd[id]
<1>1. buf \in Buffer /\ Fits(buf, i)
  BY DEF IInv, Coherent, InOrder
<1>2. id \in Ids /\ buf.key[i][2] \in PageIds
  BY <1>1, KeyParts
<1>3. f \in Files
  BY <1>1, <1>2, BufferParts DEF Fits
<1>4. handle[f] = id
  BY <1>2, <1>3 DEF IInv, Linked
<1>5. IsOpen(f)
  BY <1>2, <1>4, NoIdIsNone DEF IsOpen
<1>6. Inside(buf.key[i], buf.io.fd, pageNum)
  BY DEF IInv, KeysInside
<1>7. QED
  BY <1>2, <1>3, <1>4, <1>5, <1>6

(* Steps that leave every id with its file: the buffer may forget pages    *)
(* and may learn page p of the open file f.                                *)
LEMMA HandlesKept ==
  ASSUME IInv, Coherent(buf'), buf'.io.fd = buf.io.fd, handle' = handle,
         pageNum' \in [Files -> Nat],
         \A g \in Files : pageNum'[g] <= MaxPageNum[g],
         \A g \in Files : IsOpen(g) => pageNum[g] <= pageNum'[g],
         \A g \in Files : IsOpen(g) => g \in buf'.io.exists,
         \A g \in Files : g \in buf'.io.exists => pageNum'[g] >= 1,
         NEW f \in Files, NEW p \in PageIds,
         \A j \in Frames : \/ buf'.key[j] \in {buf.key[j], NoKey}
                           \/ IsOpen(f) /\ buf'.key[j] = <<handle[f], p>>,
         IsOpen(f) => p < pageNum'[f] /\ (f \in IndexFiles => p # 0)
  PROVE  IInv'
<1>1. HandlesOK'
  BY DEF IInv, HandlesOK
<1>2. Linked' /\ Sizes'
  BY DEF IInv, Linked, Sizes, IsOpen
<1>3. ASSUME NEW j \in Frames, buf'.key[j] # NoKey
      PROVE  Inside(buf'.key[j], buf.io.fd, pageNum')
  <2>1. CASE buf'.key[j] = buf.key[j]
    <3> DEFINE g == buf.io.fd[buf.key[j][1]]
               q == buf.key[j][2]
    <3>1. /\ g \in Files /\ IsOpen(g)
          /\ q \in PageIds
          /\ q < pageNum[g]
          /\ g \in IndexFiles => q # 0
      BY <1>3, <2>1, KeyIsOpen DEF Inside
    <3>2. pageNum[g] \in Nat /\ pageNum'[g] \in Nat /\ q \in Nat /\ pageNum[g] <= pageNum'[g]
      BY <3>1, PageIdsAssumption DEF IInv, HandlesOK
    <3> HIDE DEF g, q
    <3>3. q < pageNum'[g]
      BY <3>1, <3>2
    <3>4. QED
      BY <2>1, <3>1, <3>3 DEF Inside, g, q
  <2>2. CASE IsOpen(f) /\ buf'.key[j] = <<handle[f], p>>
    <3>1. buf.io.fd[handle[f]] = f
      BY <2>2, OpenHas
    <3>2. QED
      BY <2>2, <3>1 DEF Inside
  <2>3. QED
    BY <1>3, <2>1, <2>2
<1>4. KeysInside'
  BY <1>3 DEF KeysInside
<1>5. QED
  BY <1>1, <1>2, <1>4 DEF IInv

-----------------------------------------------------------------------------
(* The pages as their readers see them                                     *)

LEMMA SeenIsShown ==
  ASSUME NEW b, Coherent(b), NEW h \in [Files -> Ids \cup {NoId}],
         \A g \in Files, id \in Ids : b.io.fd[id] = g <=> h[g] = id,
         NEW f \in Files, NEW p \in PageIds
  PROVE  (IF h[f] # NoId /\ IsCached(b, h[f], p) THEN b.frame[FrameOf(b, h[f], p)]
          ELSE b.io.disk[f][p]) = Shows(b, f, p)
<1>1. CASE h[f] # NoId /\ IsCached(b, h[f], p)
  <2> DEFINE i == FrameOf(b, h[f], p)
  <2>1. h[f] \in Ids /\ b.io.fd[h[f]] = f
    BY <1>1
  <2>2. i \in Frames /\ Holds(b, i, f, p)
    BY <1>1, <2>1, CachedIsHeld
  <2> HIDE DEF i
  <2>3. Shows(b, f, p) = b.frame[i]
    BY <2>2, ShowsHeld
  <2>4. QED
    BY <1>1, <2>3 DEF i
<1>2. CASE ~(h[f] # NoId /\ IsCached(b, h[f], p))
  <2>1. ASSUME NEW i \in Frames, Holds(b, i, f, p)
        PROVE  FALSE
    <3>1. /\ b.key[i][1] \in Ids
          /\ b.key[i] = <<b.key[i][1], b.key[i][2]>>
          /\ b.io.fd[b.key[i][1]] = f
          /\ b.key[i][2] = p
      BY <2>1, KeyParts DEF Holds, Coherent, InOrder
    <3>2. h[f] = b.key[i][1] /\ h[f] # NoId
      BY <3>1, NoIdIsNone
    <3>3. b.key[i] = <<h[f], p>>
      BY <3>1, <3>2
    <3>4. QED
      BY <1>2, <3>2, <3>3 DEF IsCached
  <2>2. Shows(b, f, p) = b.io.disk[f][p]
    BY <2>1 DEF Shows
  <2>3. QED
    BY <1>2, <2>2
<1>3. QED
  BY <1>1, <1>2

LEMMA PagesAre ==
  ASSUME IInv
  PROVE  /\ Pages = [f \in Files |-> [p \in PageIds |-> Shows(buf, f, p)]]
         /\ \A f \in Files, p \in PageIds : PageSeen(f, p) = Shows(buf, f, p)
<1>1. ASSUME NEW f \in Files, NEW p \in PageIds
      PROVE  PageSeen(f, p) = Shows(buf, f, p)
  BY SeenIsShown DEF IInv, HandlesOK, Linked, PageSeen, IsOpen
<1>2. QED
  BY <1>1 DEF Pages

LEMMA PagesAreNext ==
  ASSUME IInv'
  PROVE  Pages' = [f \in Files |-> [p \in PageIds |-> Shows(buf', f, p)]]
<1>1. ASSUME NEW f \in Files, NEW p \in PageIds
      PROVE  PageSeen(f, p)' = Shows(buf', f, p)
  BY SeenIsShown DEF IInv, HandlesOK, Linked, PageSeen, IsOpen
<1>2. QED
  BY <1>1 DEF Pages

LEMMA ReadsAsBefore ==
  ASSUME IInv, IInv', SameView(buf, buf')
  PROVE  Pages' = Pages
BY PagesAre, PagesAreNext DEF SameView

(* A step that writes pages of a file.                                     *)
LEMMA WritesOne ==
  ASSUME IInv, IInv', NEW f \in Files, NEW p \in PageIds, NEW v \in Content,
         Wrote(buf, buf', f, p, v)
  PROVE  Store!WritePage(f, p, v)
<1>1. Pages = [g \in Files |-> [x \in PageIds |-> Shows(buf, g, x)]]
  BY PagesAre
<1>2. Pages' = [g \in Files |-> [x \in PageIds |-> Shows(buf', g, x)]]
  BY PagesAreNext
<1>3. Pages' = [Pages EXCEPT ![f][p] = v]
  BY <1>1, <1>2 DEF Wrote
<1>4. QED
  BY <1>3 DEF Store!WritePage

LEMMA WritesTwo ==
  ASSUME IInv, IInv', NEW f \in Files, 0 \in PageIds, 1 \in PageIds,
         NEW v \in Content, NEW w \in Content,
         \A g \in Files, x \in PageIds :
           Shows(buf', g, x) = IF g = f /\ x = 1 THEN w
                               ELSE IF g = f /\ x = 0 THEN v ELSE Shows(buf, g, x)
  PROVE  Store!CreateIndex(f, v, w)
<1>1. Pages = [g \in Files |-> [x \in PageIds |-> Shows(buf, g, x)]]
  BY PagesAre
<1>2. Pages' = [g \in Files |-> [x \in PageIds |-> Shows(buf', g, x)]]
  BY PagesAreNext
<1>3. Pages' = [Pages EXCEPT ![f][0] = v, ![f][1] = w]
  BY <1>1, <1>2
<1>4. QED
  BY <1>3 DEF Store!CreateIndex

(* What every step is shown to do.                                         *)
ClosingStep ==
  \A f \in Files : IsOpen(f) /\ handle'[f] = NoId =>
    \A g \in Files, p \in PageIds :
      <<g, p>> # <<f, 0>> => buf'.io.disk[g][p] = PageSeen(g, p)

StepOK == IInv' /\ [Store!Next]_Pages /\ ClosingStep

-----------------------------------------------------------------------------
(* Creating, removing, opening and closing files                           *)

LEMMA HeaderPages ==
  ASSUME NEW f \in Files
  PROVE  0 \in PageIds /\ 1 \in PageIds /\ MaxPageNum[f] \in Nat /\ MaxPageNum[f] >= 2
<1>1. /\ MaxPageNum[f] \in Nat /\ MaxPageNum[f] >= 2
      /\ 0 .. MaxPageNum[f] - 1 \subseteq PageIds
  BY MaxPageNumAssumption
<1>2. 0 \in 0 .. MaxPageNum[f] - 1 /\ 1 \in 0 .. MaxPageNum[f] - 1
  BY <1>1
<1>3. QED
  BY <1>1, <1>2

LEMMA NoneCloses ==
  ASSUME handle' = handle
  PROVE  ClosingStep
BY DEF ClosingStep, IsOpen

LEMMA UnderNoKey ==
  ASSUME NEW b, NEW id \in Ids, NEW p \in PageIds,
         \A i \in Frames : b.key[i] # NoKey => b.key[i][1] # id
  PROVE  ~IsCached(b, id, p)
<1>1. <<id, p>> # NoKey /\ <<id, p>>[1] = id
  BY NoKeyIsNoPage
<1>2. QED
  BY <1>1 DEF IsCached

(* The id that a file is opened under, when one is free.                   *)
LEMMA FirstIsFree ==
  ASSUME IInv, NEW f \in Files, ~IsOpen(f), FreeIds(buf.io) # {}
  PROVE  LET id == FirstId(buf.io)
             c  == Opened(buf, f)
             d  == Created(buf, f)
         IN  /\ id \in Ids
             /\ buf.io.fd[id] = NoFile
             /\ \A i \in Frames : buf.key[i] # NoKey => buf.key[i][1] # id
             /\ Coherent(c) /\ SameView(buf, c)
             /\ c.key = buf.key /\ c.io.exists = buf.io.exists
             /\ c.io.fd = IF f \in buf.io.exists THEN [buf.io.fd EXCEPT ![id] = f]
                          ELSE buf.io.fd
             /\ Coherent(d) /\ SameView(buf, d)
             /\ d.key = buf.key /\ d.io.exists = buf.io.exists \cup {f}
             /\ d.io.fd = [buf.io.fd EXCEPT ![id] = f]
<1> DEFINE id == FirstId(buf.io)
           c  == Opened(buf, f)
           a  == [buf EXCEPT !.io = CreateFile(buf.io, f)]
           d  == Opened(a, f)
<1>1. Coherent(buf) /\ \A x \in Ids : buf.io.fd[x] # f
  BY ClosedHasNone DEF IInv
<1>2. /\ id \in FreeIds(buf.io)
      /\ Coherent(c) /\ SameView(buf, c)
      /\ c.key = buf.key /\ c.io.exists = buf.io.exists
      /\ c.io.fd = IF f \in buf.io.exists THEN [buf.io.fd EXCEPT ![id] = f] ELSE buf.io.fd
  BY <1>1, OpensFile
<1>3. /\ Coherent(a) /\ SameView(buf, a)
      /\ a.key = buf.key
      /\ a.io.fd = buf.io.fd /\ a.io.fm = buf.io.fm
      /\ a.io.exists = buf.io.exists \cup {f}
  BY <1>1, CreatesFile
<1>4. Created(buf, f) = d
  BY DEF Created
<1> HIDE DEF a
<1>5. FreeIds(a.io) = FreeIds(buf.io) /\ FirstId(a.io) = id
  BY <1>3 DEF FreeIds, FirstId
<1>6. /\ Coherent(d) /\ SameView(a, d)
      /\ d.key = a.key /\ d.io.exists = a.io.exists
      /\ d.io.fd = IF f \in a.io.exists THEN [a.io.fd EXCEPT ![FirstId(a.io)] = f]
                   ELSE a.io.fd
  <2>1. \A x \in Ids : a.io.fd[x] # f
    BY <1>1, <1>3
  <2>2. FreeIds(a.io) # {}
    BY <1>5
  <2>3. QED
    BY <1>3, <2>1, <2>2, OpensFile
<1>7. SameView(buf, d)
  BY <1>3, <1>6 DEF SameView
<1>8. d.io.fd = [buf.io.fd EXCEPT ![id] = f]
  BY <1>3, <1>5, <1>6
<1>9. /\ id \in Ids
      /\ buf.io.fd[id] = NoFile
      /\ \A i \in Frames : buf.key[i] # NoKey => buf.key[i][1] # id
  BY <1>1, <1>2, FreeIsUncached
<1> HIDE DEF c, d, id
<1>10. QED
  BY <1>2, <1>3, <1>4, <1>6, <1>7, <1>8, <1>9 DEF c, id

(* A new file is closed again once its first pages are written.            *)
LEMMA ClosesNew ==
  ASSUME IInv, NEW f \in Files, ~IsOpen(f), NEW id \in Ids, buf.io.fd[id] = NoFile,
         \A i \in Frames : buf.key[i] # NoKey => buf.key[i][1] # id,
         NEW d, Coherent(d),
         d.io.fd = [buf.io.fd EXCEPT ![id] = f],
         d.io.exists = buf.io.exists \cup {f},
         \A j \in Frames : d.key[j] \in {buf.key[j], NoKey},
         buf' = Closed(d, id), NEW n \in {1, 2},
         pageNum' = [pageNum EXCEPT ![f] = n], handle' = handle
  PROVE  IInv' /\ SameView(d, buf')
<1>1. \A i \in Frames : d.key[i] # NoKey => d.key[i][1] # id
  OBVIOUS
<1>2. /\ Coherent(buf') /\ SameView(d, buf')
      /\ buf'.key = d.key /\ buf'.io.exists = d.io.exists
      /\ buf'.io.fd = [d.io.fd EXCEPT ![id] = NoFile]
  BY <1>1, ClosesFile
<1>3. buf'.io.fd = buf.io.fd
  <2>1. buf.io.fd \in [Ids -> Files \cup {NoFile}]
    BY BufferParts DEF IInv, Coherent, InOrder
  <2>2. QED
    BY <1>2, <2>1
<1>4. /\ pageNum \in [Files -> Nat] /\ pageNum' \in [Files -> Nat]
      /\ pageNum'[f] = n
      /\ \A g \in Files : g # f => pageNum'[g] = pageNum[g]
  BY DEF IInv, HandlesOK
<1>5. ASSUME NEW g \in Files
      PROVE  pageNum'[g] <= MaxPageNum[g]
  <2>1. pageNum[g] <= MaxPageNum[g] /\ MaxPageNum[g] >= 2 /\ MaxPageNum[g] \in Nat
    BY HeaderPages DEF IInv, HandlesOK
  <2>2. n \in Nat /\ n <= 2
    OBVIOUS
  <2>3. QED
    BY <1>4, <2>1, <2>2
<1>6. \A g \in Files : IsOpen(g) => /\ pageNum[g] <= pageNum'[g]
                                    /\ g \in buf'.io.exists
  BY <1>2, <1>4, OpenHas
<1>7. ASSUME NEW g \in Files, g \in buf'.io.exists
      PROVE  pageNum'[g] >= 1
  <2>1. g = f \/ g \in buf.io.exists
    BY <1>2, <1>7
  <2>2. QED
    BY <1>4, <2>1 DEF IInv, Sizes
<1>8. \A j \in Frames : buf'.key[j] \in {buf.key[j], NoKey}
  BY <1>2
<1>9. IInv'
  BY <1>2, <1>3, <1>4, <1>5, <1>6, <1>7, <1>8, HeaderPages, HandlesKept
<1>10. QED
  BY <1>2, <1>9

LEMMA StepCreateRecordFile ==
  ASSUME IInv, NEW f \in Files, FreeIds(buf.io) # {}, NEW v \in Content,
         CreateRecordFile(f, v)
  PROVE  StepOK /\ Store!WritePage(f, 0, v)
<1> DEFINE id == FirstId(buf.io)
           c  == Created(buf, f)
           d  == PutNewPage(c, id, 0, v)
<1>1. /\ ~IsOpen(f)
      /\ buf' = Closed(d, id)
      /\ pageNum' = [pageNum EXCEPT ![f] = 1] /\ handle' = handle
  BY DEF CreateRecordFile
<1>2. /\ id \in Ids
      /\ buf.io.fd[id] = NoFile
      /\ \A i \in Frames : buf.key[i] # NoKey => buf.key[i][1] # id
      /\ Coherent(c) /\ SameView(buf, c)
      /\ c.key = buf.key /\ c.io.exists = buf.io.exists \cup {f}
      /\ c.io.fd = [buf.io.fd EXCEPT ![id] = f]
  BY <1>1, FirstIsFree
<1>3. 0 \in PageIds
  BY HeaderPages
<1> HIDE DEF id, c
<1>4. c.io.fd[id] = f /\ f # NoFile /\ ~IsCached(c, id, 0)
  <2>1. buf.io.fd \in [Ids -> Files \cup {NoFile}]
    BY BufferParts DEF IInv, Coherent, InOrder
  <2>2. ~IsCached(c, id, 0)
    BY <1>2, <1>3, UnderNoKey
  <2>3. QED
    BY <1>2, <2>1, <2>2, NoFileAssumption
<1>5. /\ Coherent(d)
      /\ Wrote(c, d, f, 0, v)
      /\ SameIds(c, d)
      /\ \A j \in Frames : d.key[j] \in {c.key[j], NoKey}
  BY <1>2, <1>3, <1>4, PutsNewPage
<1> HIDE DEF d
<1>6. IInv' /\ SameView(d, buf')
  <2>1. /\ d.io.fd = [buf.io.fd EXCEPT ![id] = f]
        /\ d.io.exists = buf.io.exists \cup {f}
        /\ \A j \in Frames : d.key[j] \in {buf.key[j], NoKey}
    BY <1>2, <1>5 DEF SameIds
  <2>2. QED
    BY <1>1, <1>2, <1>5, <2>1, ClosesNew
<1>7. Wrote(buf, buf', f, 0, v)
  BY <1>2, <1>5, <1>6 DEF Wrote, SameView
<1>8. Store!WritePage(f, 0, v)
  BY <1>3, <1>6, <1>7, WritesOne
<1>9. QED
  BY <1>1, <1>3, <1>6, <1>8, NoneCloses DEF StepOK, Store!Next

LEMMA StepCreateIndex ==
  ASSUME IInv, NEW f \in Files, FreeIds(buf.io) # {}, NEW v \in Content, NEW w \in Content,
         CreateIndex(f, v, w)
  PROVE  StepOK /\ Store!CreateIndex(f, v, w)
<1> DEFINE id == FirstId(buf.io)
           c  == Created(buf, f)
           a  == PutNewPage(c, id, 0, v)
           d  == PutNewPage(a, id, 1, w)
<1>1. /\ ~IsOpen(f)
      /\ buf' = Closed(d, id)
      /\ pageNum' = [pageNum EXCEPT ![f] = 2] /\ handle' = handle
  BY DEF CreateIndex
<1>2. /\ id \in Ids
      /\ buf.io.fd[id] = NoFile
      /\ \A i \in Frames : buf.key[i] # NoKey => buf.key[i][1] # id
      /\ Coherent(c) /\ SameView(buf, c)
      /\ c.key = buf.key /\ c.io.exists = buf.io.exists \cup {f}
      /\ c.io.fd = [buf.io.fd EXCEPT ![id] = f]
  BY <1>1, FirstIsFree
<1>3. 0 \in PageIds /\ 1 \in PageIds
  BY HeaderPages
<1> HIDE DEF id, c
<1>4. c.io.fd[id] = f /\ f # NoFile /\ ~IsCached(c, id, 0)
  <2>1. buf.io.fd \in [Ids -> Files \cup {NoFile}]
    BY BufferParts DEF IInv, Coherent, InOrder
  <2>2. ~IsCached(c, id, 0)
    BY <1>2, <1>3, UnderNoKey
  <2>3. QED
    BY <1>2, <2>1, <2>2, NoFileAssumption
<1>5. /\ Coherent(a)
      /\ Wrote(c, a, f, 0, v)
      /\ SameIds(c, a)
      /\ \A j \in Frames : a.key[j] \in {c.key[j], NoKey}
  BY <1>2, <1>3, <1>4, PutsNewPage
<1> HIDE DEF a
<1>6. a.io.fd[id] = f /\ ~IsCached(a, id, 1)
  <2>1. \A i \in Frames : a.key[i] # NoKey => a.key[i][1] # id
    BY <1>2, <1>5
  <2>2. ~IsCached(a, id, 1)
    BY <1>2, <1>3, <2>1, UnderNoKey
  <2>3. QED
    BY <1>4, <1>5, <2>2 DEF SameIds
<1>7. /\ Coherent(d)
      /\ Wrote(a, d, f, 1, w)
      /\ SameIds(a, d)
      /\ \A j \in Frames : d.key[j] \in {a.key[j], NoKey}
  BY <1>2, <1>3, <1>4, <1>5, <1>6, PutsNewPage
<1> HIDE DEF d
<1>8. IInv' /\ SameView(d, buf')
  <2>1. /\ d.io.fd = [buf.io.fd EXCEPT ![id] = f]
        /\ d.io.exists = buf.io.exists \cup {f}
        /\ \A j \in Frames : d.key[j] \in {buf.key[j], NoKey}
    BY <1>2, <1>5, <1>7 DEF SameIds
  <2>2. QED
    BY <1>1, <1>2, <1>7, <2>1, ClosesNew
<1>9. ASSUME NEW g \in Files, NEW x \in PageIds
      PROVE  Shows(buf', g, x) = IF g = f /\ x = 1 THEN w
                                 ELSE IF g = f /\ x = 0 THEN v ELSE Shows(buf, g, x)
  BY <1>2, <1>5, <1>7, <1>8 DEF Wrote, SameView
<1>10. Store!CreateIndex(f, v, w)
  BY <1>3, <1>8, <1>9, WritesTwo
<1>11. QED
  BY <1>1, <1>8, <1>10, NoneCloses DEF StepOK, Store!Next

LEMMA StepDestroy ==
  ASSUME IInv, NEW f \in Files, Destroy(f)
  PROVE  StepOK /\ Store!RemoveFile(f)
<1>1. /\ ~IsOpen(f)
      /\ buf' = [buf EXCEPT !.io = RemoveFile(buf.io, f)]
      /\ pageNum' = [pageNum EXCEPT ![f] = 0] /\ handle' = handle
  BY DEF Destroy
<1>2. Coherent(buf) /\ \A id \in Ids : buf.io.fd[id] # f
  BY <1>1, ClosedHasNone DEF IInv
<1>3. /\ Coherent(buf')
      /\ buf'.key = buf.key
      /\ buf'.io.fd = buf.io.fd
      /\ buf'.io.exists = buf.io.exists \ {f}
      /\ \A g \in Files, p \in PageIds :
           Shows(buf', g, p) = IF g = f THEN Absent ELSE Shows(buf, g, p)
  BY <1>1, <1>2, RemovesFile
<1>4. /\ pageNum \in [Files -> Nat] /\ pageNum' \in [Files -> Nat]
      /\ pageNum'[f] = 0
      /\ \A g \in Files : g # f => pageNum'[g] = pageNum[g]
  BY <1>1 DEF IInv, HandlesOK
<1>5. ASSUME NEW g \in Files
      PROVE  pageNum'[g] <= MaxPageNum[g]
  <2>1. pageNum[g] <= MaxPageNum[g] /\ MaxPageNum[g] \in Nat
    BY HeaderPages DEF IInv, HandlesOK
  <2>2. QED
    BY <1>4, <2>1
<1>6. ASSUME NEW g \in Files, IsOpen(g)
      PROVE  pageNum[g] <= pageNum'[g] /\ g \in buf'.io.exists
  BY <1>1, <1>3, <1>4, <1>6, OpenHas
<1>7. \A g \in Files : g \in buf'.io.exists => pageNum'[g] >= 1
  BY <1>3, <1>4 DEF IInv, Sizes
<1>8. IInv'
  BY <1>1, <1>3, <1>4, <1>5, <1>6, <1>7, HeaderPages, HandlesKept
<1>9. Store!RemoveFile(f)
  <2>1. Pages = [g \in Files |-> [x \in PageIds |-> Shows(buf, g, x)]]
    BY PagesAre
  <2>2. Pages' = [g \in Files |-> [x \in PageIds |-> Shows(buf', g, x)]]
    BY <1>8, PagesAreNext
  <2>3. Pages' = [Pages EXCEPT ![f] = [x \in PageIds |-> Absent]]
    BY <1>3, <2>1, <2>2
  <2>4. QED
    BY <2>3 DEF Store!RemoveFile
<1>10. QED
  BY <1>1, <1>8, <1>9, NoneCloses DEF StepOK, Store!Next

(* A file is opened: the buffer may learn the header of a record file.     *)
LEMMA OpensHandle ==
  ASSUME IInv, NEW f \in Files, ~IsOpen(f), f \in buf.io.exists,
         NEW id \in Ids, buf.io.fd[id] = NoFile,
         \A i \in Frames : buf.key[i] # NoKey => buf.key[i][1] # id,
         Coherent(buf'), SameView(buf, buf'),
         buf'.io.fd = [buf.io.fd EXCEPT ![id] = f],
         buf'.io.exists = buf.io.exists,
         handle' = [handle EXCEPT ![f] = id], pageNum' = pageNum,
         \A j \in Frames : \/ buf'.key[j] \in {buf.key[j], NoKey}
                           \/ f \in RecordFiles /\ buf'.key[j] = <<id, 0>>
  PROVE  StepOK /\ Pages' = Pages
<1>1. /\ handle \in [Files -> Ids \cup {NoId}]
      /\ buf.io.fd \in [Ids -> Files \cup {NoFile}]
      /\ \A g \in Files : buf.io.fd[id] # g
  BY BufferParts, NoFileAssumption DEF IInv, HandlesOK, Coherent, InOrder
<1>2. /\ handle'[f] = id
      /\ \A g \in Files : g # f => handle'[g] = handle[g]
      /\ buf'.io.fd[id] = f
      /\ \A x \in Ids : x # id => buf'.io.fd[x] = buf.io.fd[x]
  BY <1>1
<1>3. HandlesOK'
  BY <1>1 DEF IInv, HandlesOK
<1>4. Linked'
  <2>1. ASSUME NEW g \in Files, NEW x \in Ids
        PROVE  buf'.io.fd[x] = g <=> handle'[g] = x
    <3>1. buf.io.fd[x] = g <=> handle[g] = x
      BY DEF IInv, Linked
    <3>2. handle[g] # id /\ buf.io.fd[x] # f
      BY <1>1, ClosedHasNone DEF IInv, Linked
    <3>3. QED
      BY <1>2, <3>1, <3>2
  <2>2. QED
    BY <2>1 DEF Linked
<1>5. Sizes'
  BY <1>2 DEF IInv, Sizes, IsOpen
<1>6. KeysInside'
  <2>1. ASSUME NEW j \in Frames, buf'.key[j] # NoKey
        PROVE  Inside(buf'.key[j], buf'.io.fd, pageNum')
    <3>1. CASE buf'.key[j] = buf.key[j]
      <4>1. buf.key[j][1] \in Ids /\ buf.key[j][1] # id
        BY <2>1, <3>1, KeyIsOpen
      <4>2. Inside(buf.key[j], buf.io.fd, pageNum)
        BY <2>1, <3>1, KeyIsOpen
      <4>3. QED
        BY <1>2, <3>1, <4>1, <4>2 DEF Inside
    <3>2. CASE f \in RecordFiles /\ buf'.key[j] = <<id, 0>>
      <4>1. pageNum[f] \in Nat /\ pageNum[f] >= 1
        BY DEF IInv, HandlesOK, Sizes
      <4>2. 0 < pageNum[f]
        BY <4>1
      <4>3. QED
        BY <1>2, <3>2, <4>2 DEF Inside, IndexFiles
    <3>3. QED
      BY <2>1, <3>1, <3>2
  <2>2. QED
    BY <2>1 DEF KeysInside
<1>7. IInv'
  BY <1>3, <1>4, <1>5, <1>6 DEF IInv
<1>8. ClosingStep
  BY <1>2, NoIdIsNone DEF ClosingStep, IsOpen
<1>9. QED
  BY <1>7, <1>8, ReadsAsBefore DEF StepOK

LEMMA StepOpenRecordFile ==
  ASSUME IInv, NEW f \in Files, FreeIds(buf.io) # {}, OpenRecordFile(f)
  PROVE  StepOK /\ Pages' = Pages
<1> DEFINE id == FirstId(buf.io)
           c  == Opened(buf, f)
<1>1. /\ ~IsOpen(f) /\ f \in RecordFiles /\ f \in buf.io.exists
      /\ buf' = GetPage(c, id, 0)
      /\ handle' = [handle EXCEPT ![f] = id] /\ pageNum' = pageNum
  BY DEF OpenRecordFile
<1>2. /\ id \in Ids
      /\ buf.io.fd[id] = NoFile
      /\ \A i \in Frames : buf.key[i] # NoKey => buf.key[i][1] # id
      /\ Coherent(c) /\ SameView(buf, c)
      /\ c.key = buf.key /\ c.io.exists = buf.io.exists
      /\ c.io.fd = [buf.io.fd EXCEPT ![id] = f]
  BY <1>1, FirstIsFree
<1>3. 0 \in PageIds
  BY HeaderPages
<1> HIDE DEF id, c
<1>4. c.io.fd[id] # NoFile
  <2>1. buf.io.fd \in [Ids -> Files \cup {NoFile}]
    BY BufferParts DEF IInv, Coherent, InOrder
  <2>2. QED
    BY <1>2, <2>1, NoFileAssumption
<1>5. /\ Coherent(buf') /\ SameView(c, buf') /\ SameIds(c, buf')
      /\ \A j \in Frames : buf'.key[j] \in {c.key[j], <<id, 0>>}
  BY <1>1, <1>2, <1>3, <1>4, GetsPage
<1>6. /\ SameView(buf, buf')
      /\ buf'.io.fd = [buf.io.fd EXCEPT ![id] = f]
      /\ buf'.io.exists = buf.io.exists
  BY <1>2, <1>5 DEF SameView, SameIds
<1>7. \A j \in Frames : \/ buf'.key[j] \in {buf.key[j], NoKey}
                        \/ f \in RecordFiles /\ buf'.key[j] = <<id, 0>>
  BY <1>1, <1>2, <1>5
<1>8. QED
  BY <1>1, <1>2, <1>5, <1>6, <1>7, OpensHandle

LEMMA StepOpenIndex ==
  ASSUME IInv, NEW f \in Files, FreeIds(buf.io) # {}, OpenIndex(f)
  PROVE  StepOK /\ Pages' = Pages
<1> DEFINE id == FirstId(buf.io)
           c  == Opened(buf, f)
           a  == GetPage(c, id, 0)
           i  == FrameOf(a, id, 0)
<1>1. /\ ~IsOpen(f) /\ f \in buf.io.exists
      /\ buf' = Release(a, i)
      /\ handle' = [handle EXCEPT ![f] = id] /\ pageNum' = pageNum
  BY DEF OpenIndex
<1>2. /\ id \in Ids
      /\ buf.io.fd[id] = NoFile
      /\ \A j \in Frames : buf.key[j] # NoKey => buf.key[j][1] # id
      /\ Coherent(c) /\ SameView(buf, c)
      /\ c.key = buf.key /\ c.io.exists = buf.io.exists
      /\ c.io.fd = [buf.io.fd EXCEPT ![id] = f]
  BY <1>1, FirstIsFree
<1>3. 0 \in PageIds
  BY HeaderPages
<1> HIDE DEF id, c
<1>4. c.io.fd[id] # NoFile /\ ~IsCached(c, id, 0)
  <2>1. buf.io.fd \in [Ids -> Files \cup {NoFile}]
    BY BufferParts DEF IInv, Coherent, InOrder
  <2>2. ~IsCached(c, id, 0)
    BY <1>2, <1>3, UnderNoKey
  <2>3. QED
    BY <1>2, <2>1, <2>2, NoFileAssumption
<1>5. /\ Coherent(a) /\ SameView(c, a) /\ SameIds(c, a)
      /\ IsCached(a, id, 0)
      /\ \A j \in Frames : a.key[j] \in {c.key[j], <<id, 0>>}
      /\ ~a.dirty[i]
  BY <1>2, <1>3, <1>4, GetsPage
<1> HIDE DEF a
<1>6. /\ i \in Frames
      /\ \A j \in Frames : a.key[j] = <<id, 0>> => j = i
  BY <1>2, <1>3, <1>5, CachedIsHeld
<1> HIDE DEF i
<1>7. /\ Coherent(buf') /\ SameView(a, buf') /\ SameIds(a, buf')
      /\ buf'.key = [a.key EXCEPT ![i] = NoKey]
  BY <1>1, <1>5, <1>6, Releases
<1>8. /\ SameView(buf, buf')
      /\ buf'.io.fd = [buf.io.fd EXCEPT ![id] = f]
      /\ buf'.io.exists = buf.io.exists
  BY <1>2, <1>5, <1>7 DEF SameView, SameIds
<1>9. \A j \in Frames : buf'.key[j] \in {buf.key[j], NoKey}
  <2>1. a.key \in [Frames -> (Ids \X PageIds) \cup {NoKey}]
    BY <1>5, BufferParts DEF Coherent, InOrder
  <2>2. QED
    BY <1>2, <1>5, <1>6, <1>7, <2>1
<1>10. QED
  BY <1>1, <1>2, <1>7, <1>8, <1>9, OpensHandle

(* A step that leaves the handles, the sizes and what the pages read as.   *)
LEMMA ChangesNothing ==
  ASSUME IInv, Coherent(buf'), SameView(buf, buf'),
         buf'.io.fd = buf.io.fd, buf'.io.exists = buf.io.exists,
         handle' = handle, pageNum' = pageNum,
         NEW f \in Files, NEW p \in PageIds,
         \A j \in Frames : \/ buf'.key[j] \in {buf.key[j], NoKey}
                           \/ IsOpen(f) /\ buf'.key[j] = <<handle[f], p>>,
         IsOpen(f) => p < pageNum[f] /\ (f \in IndexFiles => p # 0)
  PROVE  StepOK /\ Pages' = Pages
<1>1. /\ pageNum' \in [Files -> Nat]
      /\ \A g \in Files : pageNum'[g] <= MaxPageNum[g]
      /\ \A g \in Files : g \in buf'.io.exists => pageNum'[g] >= 1
      /\ \A g \in Files : IsOpen(g) => g \in buf'.io.exists
  BY DEF IInv, HandlesOK, Sizes
<1>2. \A g \in Files : pageNum[g] <= pageNum'[g]
  BY DEF IInv, HandlesOK
<1>3. IInv'
  BY <1>1, <1>2, HandlesKept
<1>4. QED
  BY <1>3, ReadsAsBefore, NoneCloses DEF StepOK

LEMMA StepOpenMissing ==
  ASSUME IInv, NEW f \in Files, FreeIds(buf.io) # {}, OpenMissing(f)
  PROVE  StepOK /\ Pages' = Pages
<1>1. /\ f \notin buf.io.exists
      /\ buf' = Opened(buf, f)
      /\ handle' = handle /\ pageNum' = pageNum
  BY DEF OpenMissing
<1>2. ~IsOpen(f)
  BY <1>1 DEF IInv, Sizes
<1>3. /\ Coherent(buf') /\ SameView(buf, buf')
      /\ buf'.key = buf.key /\ buf'.io.exists = buf.io.exists
      /\ buf'.io.fd = buf.io.fd
  BY <1>1, <1>2, FirstIsFree
<1>4. QED
  BY <1>1, <1>2, <1>3, HeaderPages, ChangesNothing

(* A handle is closed after the whole buffer was written.                  *)
LEMMA ClosesHandle ==
  ASSUME IInv, NEW f \in Files, IsOpen(f), NEW v \in Content,
         NEW a, Coherent(a), Wrote(buf, a, f, 0, v), SameIds(buf, a),
         buf' = Closed(CloseBuffer(a), handle[f]),
         handle' = [handle EXCEPT ![f] = NoId], pageNum' = pageNum
  PROVE  StepOK /\ Store!WritePage(f, 0, v)
<1> DEFINE id == handle[f]
           d  == CloseBuffer(a)
<1>1. /\ Coherent(d) /\ SameView(a, d) /\ SameIds(a, d)
      /\ \A j \in Frames : d.key[j] = NoKey
      /\ \A g \in Files, p \in PageIds : d.io.disk[g][p] = Shows(a, g, p)
  BY ClosesBuffer
<1>2. id \in Ids /\ buf.io.fd[id] = f
  BY OpenHas
<1> HIDE DEF id, d
<1>3. /\ Coherent(buf') /\ SameView(d, buf')
      /\ buf'.key = d.key
      /\ buf'.io.exists = d.io.exists
      /\ buf'.io.disk = d.io.disk
      /\ buf'.io.fd = [d.io.fd EXCEPT ![id] = NoFile]
  BY <1>1, <1>2, ClosesFile DEF id, d
<1>4. /\ buf'.io.fd = [buf.io.fd EXCEPT ![id] = NoFile]
      /\ buf'.io.exists = buf.io.exists
      /\ \A j \in Frames : buf'.key[j] = NoKey
  BY <1>1, <1>3 DEF SameIds
<1>5. /\ handle \in [Files -> Ids \cup {NoId}]
      /\ buf.io.fd \in [Ids -> Files \cup {NoFile}]
  BY BufferParts DEF IInv, HandlesOK, Coherent, InOrder
<1>6. /\ handle'[f] = NoId
      /\ \A g \in Files : g # f => handle'[g] = handle[g]
      /\ buf'.io.fd[id] = NoFile
      /\ \A x \in Ids : x # id => buf'.io.fd[x] = buf.io.fd[x]
  BY <1>2, <1>4, <1>5
<1>7. HandlesOK'
  BY <1>5 DEF IInv, HandlesOK
<1>8. Linked'
  <2>1. ASSUME NEW g \in Files, NEW x \in Ids
        PROVE  buf'.io.fd[x] = g <=> handle'[g] = x
    <3>1. buf.io.fd[x] = g <=> handle[g] = x
      BY DEF IInv, Linked
    <3>2. (handle[g] = id <=> g = f) /\ (x = id <=> buf.io.fd[x] = f)
      BY <1>2 DEF IInv, Linked
    <3>3. QED
      BY <1>6, <3>1, <3>2, NoFileAssumption, NoIdIsNone
  <2>2. QED
    BY <2>1 DEF Linked
<1>9. Sizes' /\ KeysInside'
  BY <1>4, <1>6 DEF IInv, Sizes, KeysInside, IsOpen
<1>10. IInv'
  BY <1>3, <1>7, <1>8, <1>9 DEF IInv
<1>11. Wrote(buf, buf', f, 0, v)
  BY <1>1, <1>3 DEF Wrote, SameView
<1>12. Store!WritePage(f, 0, v)
  BY <1>10, <1>11, HeaderPages, WritesOne
<1>13. ClosingStep
  <2>1. ASSUME NEW g \in Files, NEW p \in PageIds, <<g, p>> # <<f, 0>>
        PROVE  buf'.io.disk[g][p] = PageSeen(g, p)
    <3>1. buf'.io.disk[g][p] = Shows(a, g, p)
      BY <1>1, <1>3
    <3>2. Shows(a, g, p) = Shows(buf, g, p)
      BY <2>1 DEF Wrote
    <3>3. QED
      BY <3>1, <3>2, PagesAre
  <2>2. \A g \in Files : IsOpen(g) /\ handle'[g] = NoId => g = f
    BY <1>6 DEF IsOpen
  <2>3. QED
    BY <2>1, <2>2 DEF ClosingStep
<1>14. QED
  BY <1>10, <1>12, <1>13, HeaderPages DEF StepOK, Store!Next

(* The page that an operation allocates is not in the buffer.              *)
LEMMA NotInside ==
  ASSUME IInv, NEW f \in Files, IsOpen(f), NEW p \in PageIds,
         p >= pageNum[f] \/ (f \in IndexFiles /\ p = 0)
  PROVE  ~IsCached(buf, handle[f], p)
<1>1. /\ handle[f] \in Ids /\ buf.io.fd[handle[f]] = f
      /\ pageNum[f] \in Nat /\ p \in Nat
  BY OpenHas, PageIdsAssumption
<1>2. ASSUME NEW i \in Frames, buf.key[i] = <<handle[f], p>>
      PROVE  FALSE
  <2>1. buf.key[i] # NoKey
    BY <1>1, <1>2, NoKeyIsNoPage
  <2>2. Inside(buf.key[i], buf.io.fd, pageNum)
    BY <2>1, KeyIsOpen
  <2>3. p < pageNum[f] /\ (f \in IndexFiles => p # 0)
    BY <1>1, <1>2, <2>2 DEF Inside
  <2>4. QED
    BY <1>1, <2>3
<1>3. QED
  BY <1>2 DEF IsCached

LEMMA StepCloseRecordFile ==
  ASSUME IInv, NEW f \in Files, NEW v \in Content, CloseRecordFile(f, v)
  PROVE  StepOK /\ Store!WritePage(f, 0, v)
<1> DEFINE a == ForcePage(buf, handle[f], 0, v)
<1>1. /\ IsOpen(f)
      /\ buf' = Closed(CloseBuffer(a), handle[f])
      /\ handle' = [handle EXCEPT ![f] = NoId] /\ pageNum' = pageNum
  BY DEF CloseRecordFile
<1>2. /\ handle[f] \in Ids /\ buf.io.fd[handle[f]] = f /\ buf.io.fd[handle[f]] # NoFile
      /\ 0 \in PageIds /\ Coherent(buf)
  BY <1>1, OpenHas, HeaderPages DEF IInv
<1>3. Coherent(a) /\ Wrote(buf, a, f, 0, v) /\ SameIds(buf, a)
  BY <1>2, ForcesPage
<1> HIDE DEF a
<1>4. QED
  BY <1>1, <1>3, ClosesHandle

LEMMA StepCloseIndex ==
  ASSUME IInv, NEW f \in Files, NEW v \in Content, CloseIndex(f, v)
  PROVE  StepOK /\ Store!WritePage(f, 0, v)
<1> DEFINE a == PutNewPage(buf, handle[f], 0, v)
<1>1. /\ IsOpen(f) /\ f \in IndexFiles
      /\ buf' = Closed(CloseBuffer(a), handle[f])
      /\ handle' = [handle EXCEPT ![f] = NoId] /\ pageNum' = pageNum
  BY DEF CloseIndex
<1>2. /\ handle[f] \in Ids /\ buf.io.fd[handle[f]] = f /\ buf.io.fd[handle[f]] # NoFile
      /\ 0 \in PageIds /\ Coherent(buf)
  BY <1>1, OpenHas, HeaderPages DEF IInv
<1>3. ~IsCached(buf, handle[f], 0)
  BY <1>1, <1>2, NotInside
<1>4. Coherent(a) /\ Wrote(buf, a, f, 0, v) /\ SameIds(buf, a)
  BY <1>2, <1>3, PutsNewPage
<1> HIDE DEF a
<1>5. QED
  BY <1>1, <1>4, ClosesHandle

-----------------------------------------------------------------------------
(* Reading and writing pages                                               *)

(* A page of an open file is written; the file may grow by that page.      *)
LEMMA WritesAPage ==
  ASSUME IInv, NEW f \in Files, IsOpen(f), NEW p \in PageIds, NEW v \in Content,
         Coherent(buf'), Wrote(buf, buf', f, p, v), SameIds(buf, buf'),
         handle' = handle,
         \/ pageNum' = pageNum
         \/ /\ pageNum' = [pageNum EXCEPT ![f] = @ + 1]
            /\ pageNum[f] < MaxPageNum[f],
         \/ \A j \in Frames : buf'.key[j] \in {buf.key[j], NoKey}
         \/ /\ \A j \in Frames : buf'.key[j] \in {buf.key[j], NoKey, <<handle[f], p>>}
            /\ p < pageNum'[f]
            /\ f \in IndexFiles => p # 0
  PROVE  StepOK /\ Store!WritePage(f, p, v)
<1>1. /\ pageNum \in [Files -> Nat]
      /\ \A g \in Files : pageNum[g] <= MaxPageNum[g] /\ MaxPageNum[g] \in Nat
  BY HeaderPages DEF IInv, HandlesOK
<1>2. \A g \in Files : pageNum'[g] \in {pageNum[g], pageNum[g] + 1}
  BY <1>1
<1>3. /\ pageNum' \in [Files -> Nat]
      /\ \A g \in Files : pageNum'[g] <= MaxPageNum[g]
      /\ \A g \in Files : pageNum[g] <= pageNum'[g]
  <2>1. CASE pageNum' = pageNum
    BY <1>1, <2>1
  <2>2. CASE /\ pageNum' = [pageNum EXCEPT ![f] = @ + 1]
             /\ pageNum[f] < MaxPageNum[f]
    BY <1>1, <2>2
  <2>3. QED
    BY <2>1, <2>2
<1>4. /\ \A g \in Files : IsOpen(g) => g \in buf'.io.exists
      /\ buf'.io.fd = buf.io.fd
      /\ buf'.io.exists = buf.io.exists
  BY DEF IInv, Sizes, SameIds
<1>5. ASSUME NEW g \in Files, g \in buf'.io.exists
      PROVE  pageNum'[g] >= 1
  <2>1. pageNum[g] >= 1 /\ pageNum[g] \in Nat
    BY <1>1, <1>4, <1>5 DEF IInv, Sizes
  <2>2. QED
    BY <1>3, <2>1
<1>6. IInv'
  <2>1. CASE \A j \in Frames : buf'.key[j] \in {buf.key[j], NoKey}
    <3>1. 0 \in PageIds /\ 1 \in PageIds /\ 1 \in Nat
      BY HeaderPages
    <3>2. Coherent(buf') /\ HandlesOK' /\ Linked' /\ Sizes'
      BY <1>3, <1>4, <1>5 DEF IInv, HandlesOK, Linked, Sizes, IsOpen
    <3>3. ASSUME NEW j \in Frames, buf'.key[j] # NoKey
          PROVE  Inside(buf'.key[j], buf'.io.fd, pageNum')
      <4> DEFINE g == buf.io.fd[buf.key[j][1]]
                 q == buf.key[j][2]
      <4>1. buf'.key[j] = buf.key[j]
        BY <2>1, <3>3
      <4>2. /\ g \in Files /\ q \in Nat /\ q < pageNum[g]
            /\ g \in IndexFiles => q # 0
        BY <3>3, <4>1, KeyIsOpen, PageIdsAssumption DEF Inside
      <4>3. pageNum[g] \in Nat /\ pageNum'[g] \in Nat /\ pageNum[g] <= pageNum'[g]
        BY <1>1, <1>3, <4>2
      <4> HIDE DEF g, q
      <4>4. q < pageNum'[g]
        BY <4>2, <4>3
      <4>5. QED
        BY <1>4, <4>1, <4>2, <4>4 DEF Inside, g, q
    <3>4. QED
      BY <3>2, <3>3 DEF IInv, KeysInside
  <2>2. CASE /\ \A j \in Frames : buf'.key[j] \in {buf.key[j], NoKey, <<handle[f], p>>}
             /\ p < pageNum'[f]
             /\ f \in IndexFiles => p # 0
    BY <1>3, <1>4, <1>5, <2>2, HandlesKept
  <2>3. QED
    BY <2>1, <2>2
<1>7. Store!WritePage(f, p, v)
  BY <1>6, WritesOne
<1>8. QED
  BY <1>6, <1>7, NoneCloses DEF StepOK, Store!Next

LEMMA StepReadAPage ==
  ASSUME IInv, NEW f \in Files, NEW p \in PageIds, ReadAPage(f, p)
  PROVE  StepOK /\ Pages' = Pages /\ Delivered(f, p)
<1>1. /\ IsOpen(f) /\ p < pageNum[f] /\ 0 < p
      /\ buf' = GetPage(buf, handle[f], p)
      /\ handle' = handle /\ pageNum' = pageNum
  BY DEF ReadAPage, IsPageOf
<1>2. handle[f] \in Ids /\ buf.io.fd[handle[f]] # NoFile /\ Coherent(buf)
  BY <1>1, OpenHas DEF IInv
<1>3. /\ Coherent(buf') /\ SameView(buf, buf') /\ SameIds(buf, buf')
      /\ \A j \in Frames : buf'.key[j] \in {buf.key[j], <<handle[f], p>>}
      /\ IsCached(buf', handle[f], p)
  BY <1>1, <1>2, GetsPage
<1>4. p # 0
  BY <1>1
<1>5. StepOK /\ Pages' = Pages
  BY <1>1, <1>3, <1>4, ChangesNothing DEF SameIds
<1>6. Delivered(f, p)
  <2> DEFINE i == FrameOf(buf', handle[f], p)
  <2>1. i \in Frames /\ Holds(buf', i, f, p)
    BY <1>2, <1>3, CachedIsHeld, OpenHas, <1>1 DEF SameIds
  <2> HIDE DEF i
  <2>2. buf'.frame[i] = Shows(buf', f, p)
    BY <1>3, <2>1, ShowsHeld
  <2>3. Shows(buf', f, p) = PageSeen(f, p)
    BY <1>3, PagesAre DEF SameView
  <2>4. QED
    BY <1>3, <2>2, <2>3 DEF Delivered, i
<1>7. QED
  BY <1>5, <1>6

LEMMA StepUpdatePage ==
  ASSUME IInv, NEW f \in Files, NEW p \in PageIds, NEW v \in Content, UpdatePage(f, p, v)
  PROVE  StepOK /\ Store!WritePage(f, p, v)
<1>1. /\ IsOpen(f) /\ p < pageNum[f] /\ 0 < p
      /\ buf' = ChangePage(buf, handle[f], p, v)
      /\ handle' = handle /\ pageNum' = pageNum
  BY DEF UpdatePage, IsPageOf
<1>2. /\ handle[f] \in Ids /\ buf.io.fd[handle[f]] = f
      /\ buf.io.fd[handle[f]] # NoFile /\ Coherent(buf)
  BY <1>1, OpenHas DEF IInv
<1>3. /\ Coherent(buf') /\ Wrote(buf, buf', f, p, v) /\ SameIds(buf, buf')
      /\ \A j \in Frames : buf'.key[j] \in {buf.key[j], <<handle[f], p>>}
  BY <1>1, <1>2, ChangesPage
<1>4. p # 0
  BY <1>1
<1>5. QED
  BY <1>1, <1>3, <1>4, WritesAPage

LEMMA StepUpdatePageThrough ==
  ASSUME IInv, NEW f \in Files, NEW p \in PageIds, NEW v \in Content,
         UpdatePageThrough(f, p, v)
  PROVE  StepOK /\ Store!WritePage(f, p, v)
<1>1. /\ IsOpen(f)
      /\ buf' = ForcePage(buf, handle[f], p, v)
      /\ handle' = handle /\ pageNum' = pageNum
  BY DEF UpdatePageThrough
<1>2. /\ handle[f] \in Ids /\ buf.io.fd[handle[f]] = f
      /\ buf.io.fd[handle[f]] # NoFile /\ Coherent(buf)
  BY <1>1, OpenHas DEF IInv
<1>3. /\ Coherent(buf') /\ Wrote(buf, buf', f, p, v) /\ SameIds(buf, buf')
      /\ \A j \in Frames : buf'.key[j] \in {buf.key[j], NoKey}
  BY <1>1, <1>2, ForcesPage
<1>4. QED
  BY <1>1, <1>3, WritesAPage

LEMMA LastPage ==
  ASSUME IInv, NEW f \in Files, pageNum[f] < MaxPageNum[f]
  PROVE  pageNum[f] \in PageIds /\ pageNum[f] \in Nat
<1>1. /\ MaxPageNum[f] \in Nat /\ 0 .. MaxPageNum[f] - 1 \subseteq PageIds
      /\ pageNum[f] \in Nat
  BY MaxPageNumAssumption DEF IInv, HandlesOK
<1>2. pageNum[f] \in 0 .. MaxPageNum[f] - 1
  BY <1>1
<1>3. QED
  BY <1>1, <1>2

LEMMA StepAppendRecordPage ==
  ASSUME IInv, NEW f \in Files, NEW v \in Content, AppendRecordPage(f, v)
  PROVE  StepOK /\ Store!WritePage(f, pageNum[f], v)
<1>1. /\ IsOpen(f) /\ pageNum[f] < MaxPageNum[f]
      /\ buf' = PutNewPage(buf, handle[f], pageNum[f], v)
      /\ handle' = handle /\ pageNum' = [pageNum EXCEPT ![f] = @ + 1]
  BY DEF AppendRecordPage
<1>2. /\ handle[f] \in Ids /\ buf.io.fd[handle[f]] = f
      /\ buf.io.fd[handle[f]] # NoFile /\ Coherent(buf)
      /\ pageNum[f] \in PageIds /\ pageNum[f] \in Nat
  BY <1>1, OpenHas, LastPage DEF IInv
<1>3. ~IsCached(buf, handle[f], pageNum[f])
  BY <1>1, <1>2, NotInside
<1>4. /\ Coherent(buf') /\ Wrote(buf, buf', f, pageNum[f], v) /\ SameIds(buf, buf')
      /\ \A j \in Frames : buf'.key[j] \in {buf.key[j], NoKey}
  BY <1>1, <1>2, <1>3, PutsNewPage
<1>5. QED
  BY <1>1, <1>2, <1>4, WritesAPage

LEMMA StepAppendNode ==
  ASSUME IInv, NEW f \in Files, NEW v \in Content, AppendNode(f, v)
  PROVE  StepOK /\ Store!WritePage(f, pageNum[f], v)
<1>1. /\ IsOpen(f) /\ pageNum[f] < MaxPageNum[f]
      /\ buf' = ChangePage(buf, handle[f], pageNum[f], v)
      /\ handle' = handle /\ pageNum' = [pageNum EXCEPT ![f] = @ + 1]
  BY DEF AppendNode
<1>2. /\ handle[f] \in Ids /\ buf.io.fd[handle[f]] = f
      /\ buf.io.fd[handle[f]] # NoFile /\ Coherent(buf)
      /\ pageNum[f] \in PageIds /\ pageNum[f] \in Nat /\ pageNum[f] >= 1
  BY <1>1, OpenHas, LastPage DEF IInv
<1>3. /\ Coherent(buf') /\ Wrote(buf, buf', f, pageNum[f], v) /\ SameIds(buf, buf')
      /\ \A j \in Frames : buf'.key[j] \in {buf.key[j], <<handle[f], pageNum[f]>>}
  BY <1>1, <1>2, ChangesPage
<1>4. pageNum[f] < pageNum'[f] /\ pageNum[f] # 0
  BY <1>1, <1>2 DEF IInv, HandlesOK
<1>5. QED
  BY <1>1, <1>2, <1>3, <1>4, WritesAPage

LEMMA StepForceDisk ==
  ASSUME IInv, NEW f \in Files, NEW v \in Content, ForceDisk(f, v)
  PROVE  StepOK /\ Store!WritePage(f, 0, v)
<1> DEFINE a == ForcePage(buf, handle[f], 0, v)
<1>1. /\ IsOpen(f)
      /\ buf' = CloseBuffer(a)
      /\ handle' = handle /\ pageNum' = pageNum
  BY DEF ForceDisk
<1>2. /\ handle[f] \in Ids /\ buf.io.fd[handle[f]] = f /\ buf.io.fd[handle[f]] # NoFile
      /\ 0 \in PageIds /\ Coherent(buf)
  BY <1>1, OpenHas, HeaderPages DEF IInv
<1>3. Coherent(a) /\ Wrote(buf, a, f, 0, v) /\ SameIds(buf, a)
  BY <1>2, ForcesPage
<1> HIDE DEF a
<1>4. /\ Coherent(buf') /\ SameView(a, buf') /\ SameIds(a, buf')
      /\ \A j \in Frames : buf'.key[j] = NoKey
  BY <1>1, <1>3, ClosesBuffer
<1>5. Wrote(buf, buf', f, 0, v) /\ SameIds(buf, buf')
  BY <1>3, <1>4 DEF Wrote, SameView, SameIds
<1>6. QED
  BY <1>1, <1>2, <1>4, <1>5, WritesAPage

LEMMA StepForcePages ==
  ASSUME IInv, NEW f \in Files, ForcePages(f)
  PROVE  StepOK /\ Pages' = Pages
<1>1. /\ IsOpen(f)
      /\ buf' = CloseBuffer(buf)
      /\ handle' = handle /\ pageNum' = pageNum
  BY DEF ForcePages
<1>2. /\ Coherent(buf') /\ SameView(buf, buf') /\ SameIds(buf, buf')
      /\ \A j \in Frames : buf'.key[j] = NoKey
  BY <1>1, ClosesBuffer DEF IInv
<1>3. pageNum[f] \in Nat /\ pageNum[f] >= 1
  BY <1>1, OpenHas
<1>4. IInv'
  BY <1>1, <1>2 DEF IInv, HandlesOK, Linked, Sizes, KeysInside, SameIds, IsOpen
<1>5. QED
  BY <1>1, <1>2, <1>4, ReadsAsBefore, NoneCloses DEF StepOK

LEMMA StepStutters ==
  ASSUME IInv, UNCHANGED vars
  PROVE  StepOK
<1>1. buf' = buf /\ handle' = handle /\ pageNum' = pageNum
  BY DEF vars
<1>2. IInv'
  BY <1>1 DEF IInv, HandlesOK, Linked, Sizes, KeysInside, IsOpen
<1>3. SameView(buf, buf')
  BY <1>1 DEF SameView
<1>4. QED
  BY <1>1, <1>2, <1>3, ReadsAsBefore, NoneCloses DEF StepOK

-----------------------------------------------------------------------------
(* The specification                                                       *)

LEMMA InitInv == Init => IInv /\ Store!Init
<1> SUFFICES ASSUME Init
             PROVE  IInv /\ Store!Init
  OBVIOUS
<1>1. /\ buf = EmptyBuffer
      /\ handle = [f \in Files |-> NoId]
      /\ pageNum = [f \in Files |-> 0]
  BY DEF Init
<1>2. GoodFiles(NoFiles)
  <2>1. AllOnes \in BitMaps /\ InnerMatches(AllOnes)
    BY BitMapIsFull
  <2>2. NoFiles \in FileState /\ NoFiles.fm = AllOnes
    BY <2>1 DEF NoFiles, FileState, Cell
  <2>3. \A id \in Ids : NoFiles.fd[id] = NoFile
    BY DEF NoFiles
  <2>4. FreeIds(NoFiles) \subseteq Ids
    BY DEF FreeIds, Elements, Ids
  <2>5. QED
    BY <2>1, <2>2, <2>3, <2>4 DEF GoodFiles
<1>3. InOrder(EmptyBuffer)
  <2>1. EmptyBuffer.order \in [1 .. Cap -> Frames]
    BY CapAssumption DEF EmptyBuffer, Frames
  <2>2. ASSUME NEW i \in Frames
        PROVE  \E k \in 1 .. Cap : EmptyBuffer.order[k] = i
    <3>1. i \in Int /\ i + 1 \in 1 .. Cap /\ i + 1 - 1 = i
      BY CapAssumption DEF Frames
    <3>2. EmptyBuffer.order = [k \in 1 .. Cap |-> k - 1]
      BY DEF EmptyBuffer
    <3>3. EmptyBuffer.order[i + 1] = i
      BY <3>1, <3>2
    <3>4. QED
      BY <3>1, <3>3
  <2>3. EmptyBuffer \in Buffer
    BY <1>2, <2>1 DEF EmptyBuffer, Buffer, GoodFiles, Cell
  <2>4. QED
    BY <2>2, <2>3 DEF InOrder
<1>4. /\ buf.io = NoFiles
      /\ \A i \in Frames : buf.key[i] = NoKey /\ ~buf.dirty[i]
  BY <1>1 DEF EmptyBuffer
<1>5. Coherent(buf)
  BY <1>1, <1>2, <1>3, <1>4 DEF Coherent, Distinct, Fits
<1>6. HandlesOK
  <2>1. \A f \in Files : 0 <= MaxPageNum[f]
    BY HeaderPages
  <2>2. QED
    BY <1>1, <2>1 DEF HandlesOK
<1>7. Linked
  BY <1>1, <1>4, NoIdIsNone, NoFileAssumption DEF Linked, NoFiles
<1>8. Sizes
  BY <1>1, <1>4 DEF Sizes, IsOpen, NoFiles
<1>9. KeysInside
  BY <1>4 DEF KeysInside
<1>10. Store!Init
  <2>1. \A f \in Files, p \in PageIds : PageSeen(f, p) = Absent
    BY <1>1, <1>4 DEF PageSeen, IsOpen, NoFiles
  <2>2. QED
    BY <2>1 DEF Store!Init, Pages
<1>11. QED
  BY <1>5, <1>6, <1>7, <1>8, <1>9, <1>10 DEF IInv

LEMMA StepIsOK == IInv /\ [NextWithinLimit]_vars => StepOK
<1> SUFFICES ASSUME IInv, [NextWithinLimit]_vars
             PROVE  StepOK
  OBVIOUS
<1>1. CASE UNCHANGED vars
  BY <1>1, StepStutters
<1>2. ASSUME NEW f \in Files, FreeIds(buf.io) # {}, OpeningCall(f)
      PROVE  StepOK
  BY <1>2, StepCreateRecordFile, StepCreateIndex, StepOpenRecordFile, StepOpenIndex,
     StepOpenMissing DEF OpeningCall
<1>3. ASSUME NEW f \in Files, OtherCall(f)
      PROVE  StepOK
  BY <1>3, StepDestroy, StepForcePages, StepCloseRecordFile, StepCloseIndex,
     StepAppendRecordPage, StepAppendNode, StepForceDisk, StepReadAPage, StepUpdatePage,
     StepUpdatePageThrough DEF OtherCall
<1>4. QED
  BY <1>1, <1>2, <1>3 DEF NextWithinLimit

(* What the runs check follows from the invariant.                         *)
LEMMA InvImplies ==
  ASSUME IInv
  PROVE  TypeOK /\ BufferCoherent /\ IdsDistinguishFiles /\ AllocatedPagesNotCached
<1>1. buf \in Buffer /\ Coherent(buf)
  BY DEF IInv, Coherent, InOrder
<1>2. TypeOK
  BY DEF IInv, Coherent, InOrder, HandlesOK, TypeOK
<1>3. BufferCoherent
  <2>1. ASSUME NEW i \in Frames, buf.key[i] # NoKey
        PROVE  LET f == buf.io.fd[buf.key[i][1]] IN
               /\ f \in Files
               /\ handle[f] = buf.key[i][1]
               /\ buf.dirty[i] \/ buf.frame[i] = buf.io.disk[f][buf.key[i][2]]
    BY <1>1, <2>1, KeyIsOpen DEF Coherent, Fits
  <2>2. \A i \in Frames : buf.key[i] = NoKey => ~buf.dirty[i]
    BY <1>1 DEF Coherent, Fits
  <2>3. QED
    BY <1>1, <2>1, <2>2 DEF BufferCoherent, Coherent, Distinct
<1>4. IdsDistinguishFiles
  <2>1. ASSUME NEW f \in Files, NEW g \in Files, f # g, IsOpen(f)
        PROVE  handle[f] # handle[g]
    <3>1. handle[f] \in Ids /\ buf.io.fd[handle[f]] = f
      BY <2>1, OpenHas
    <3>2. handle[g] = handle[f] => buf.io.fd[handle[f]] = g
      BY <3>1 DEF IInv, Linked
    <3>3. QED
      BY <2>1, <3>1, <3>2
  <2>2. QED
    BY <2>1 DEF IdsDistinguishFiles
<1>5. AllocatedPagesNotCached
  <2>1. \A p \in PageIds, id \in FreeIds(buf.io) : ~IsCached(buf, id, p)
    BY <1>1, FreeIsUncached
  <2>2. ASSUME NEW f \in IndexFiles, IsOpen(f)
        PROVE  ~IsCached(buf, handle[f], 0)
    BY <2>2, NotInside, HeaderPages DEF IndexFiles
  <2>3. ASSUME NEW f \in RecordFiles, IsOpen(f)
        PROVE  ~IsCached(buf, handle[f], pageNum[f])
    <3>1. f \in Files /\ pageNum[f] \in Nat
      BY RecordFilesAssumption DEF IInv, HandlesOK
    <3>2. CASE pageNum[f] \in PageIds
      <4>1. pageNum[f] >= pageNum[f]
        BY <3>1
      <4>2. QED
        BY <2>3, <3>1, <3>2, <4>1, NotInside
    <3>3. CASE pageNum[f] \notin PageIds
      <4>1. ASSUME NEW i \in Frames, buf.key[i] = <<handle[f], pageNum[f]>>
            PROVE  FALSE
        <5>1. handle[f] \in Ids
          BY <2>3, <3>1, OpenHas
        <5>2. buf.key[i] \in (Ids \X PageIds) \cup {NoKey}
          BY <1>1, BufferParts
        <5>3. buf.key[i] = NoKey
          BY <3>3, <4>1, <5>2
        <5>4. <<handle[f], pageNum[f]>> \in Ids \X Nat
          BY <3>1, <5>1
        <5>5. QED
          BY <4>1, <5>3, <5>4, NoKeyAssumption
      <4>2. QED
        BY <4>1 DEF IsCached
    <3>4. QED
      BY <3>2, <3>3
  <2>4. QED
    BY <2>1, <2>2, <2>3 DEF AllocatedPagesNotCached
<1>6. QED
  BY <1>2, <1>3, <1>4, <1>5

(* The buffer is coherent and the handles agree with the file manager in   *)
(* every reachable state: the inductive invariant of PageCache.            *)
THEOREM PageCacheInvariant == Spec => []IInv
<1>1. Init => IInv
  BY InitInv
<1>2. IInv /\ [NextWithinLimit]_vars => IInv'
  BY StepIsOK DEF StepOK
<1>3. QED
  BY <1>1, <1>2, PTL DEF Spec

(* The frames, the replacement list, the ids and the sizes keep their      *)
(* types, and the list always has every frame (BufPageManager, FileManager).*)
THEOREM PageCacheTypes == Spec => []TypeOK
<1>1. IInv => TypeOK
  BY InvImplies
<1>2. QED
  BY <1>1, PageCacheInvariant, PTL

(* No two frames hold one page, every frame is of an open file, and an     *)
(* unmodified one equals its page: for every number of frames and files.   *)
THEOREM BufferStaysCoherent == Spec => []BufferCoherent
<1>1. IInv => BufferCoherent
  BY InvImplies
<1>2. QED
  BY <1>1, PageCacheInvariant, PTL

(* Open files have different ids, as long as a file is opened only while   *)
(* an id is free.                                                          *)
THEOREM IdsStayDistinct == Spec => []IdsDistinguishFiles
<1>1. IInv => IdsDistinguishFiles
  BY InvImplies
<1>2. QED
  BY <1>1, PageCacheInvariant, PTL

(* The callers of allocPage never allocate a page that is in the buffer.   *)
THEOREM AllocationsAreSafe == Spec => []AllocatedPagesNotCached
<1>1. IInv => AllocatedPagesNotCached
  BY InvImplies
<1>2. QED
  BY <1>1, PageCacheInvariant, PTL

(* The pages of the files change by writes, creations of indexes and       *)
(* removals of files only: with PageCacheCalls, by those that the call     *)
(* names.                                                                  *)
THEOREM PageCacheImplementsStore == Spec => ImplementsPageStore
<1>1. Init => Store!Init
  BY InitInv
<1>2. IInv /\ [NextWithinLimit]_vars => [Store!Next]_Pages
  BY StepIsOK DEF StepOK
<1>3. QED
  BY <1>1, <1>2, PageCacheInvariant, PTL DEF Spec, ImplementsPageStore, Store!Spec

(* Each call of the record and index layers writes the pages it names with *)
(* the contents it was given and changes no other page of any file; a read *)
(* returns what was written last.                                          *)
THEOREM PageCacheCalls == Spec => CallsMatchPages
<1> DEFINE A == \A f \in Files : OpeningCallMatches(f) /\ OtherCallMatches(f)
<1>1. Store!ChangesNothing <=> Pages' = Pages
  BY DEF Store!ChangesNothing
<1>2. ASSUME IInv, NEW f \in Files
      PROVE  OpeningCallMatches(f)
  BY <1>1, <1>2, StepOpenRecordFile, StepOpenIndex, StepOpenMissing, StepCreateRecordFile,
     StepCreateIndex DEF OpeningCallMatches
<1>3. ASSUME IInv, NEW f \in Files
      PROVE  OtherCallMatches(f)
  <2>1. (Destroy(f) => Store!RemoveFile(f)) /\ (ForcePages(f) => Store!ChangesNothing)
    BY <1>1, <1>3, StepDestroy, StepForcePages
  <2>2. ASSUME NEW v \in Content
        PROVE  /\ CloseRecordFile(f, v) \/ CloseIndex(f, v) \/ ForceDisk(f, v) =>
                    Store!WritePage(f, 0, v)
               /\ AppendRecordPage(f, v) \/ AppendNode(f, v) =>
                    Store!WritePage(f, pageNum[f], v)
    BY <1>3, StepCloseRecordFile, StepCloseIndex, StepForceDisk, StepAppendRecordPage,
       StepAppendNode
  <2>3. ASSUME NEW p \in PageIds
        PROVE  /\ ReadAPage(f, p) => Store!ChangesNothing /\ Delivered(f, p)
               /\ \A v \in Content :
                    UpdatePage(f, p, v) \/ UpdatePageThrough(f, p, v) =>
                      Store!WritePage(f, p, v)
    BY <1>1, <1>3, StepReadAPage, StepUpdatePage, StepUpdatePageThrough
  <2>4. QED
    BY <2>1, <2>2, <2>3 DEF OtherCallMatches
<1>4. IInv /\ [NextWithinLimit]_vars => [A]_vars
  BY <1>2, <1>3
<1>5. QED
  BY <1>4, PageCacheInvariant, PTL DEF Spec, CallsMatchPages

(* Closing any handle brings every page but the closed header's to disk.   *)
THEOREM ClosingIsDurable == Spec => ClosingWritesAll
<1>1. IInv /\ [NextWithinLimit]_vars => [ClosingStep]_vars
  BY StepIsOK DEF StepOK
<1>2. QED
  BY <1>1, PageCacheInvariant, PTL DEF Spec, ClosingWritesAll, ClosingStep

=============================================================================
