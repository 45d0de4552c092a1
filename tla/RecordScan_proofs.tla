-------------------------- MODULE RecordScan_proofs --------------------------
(***************************************************************************)
(* What a scan returns, for every page size, file size and set of record   *)
(* contents, whatever is inserted, deleted and updated between its calls.  *)
(***************************************************************************)
EXTENDS RecordScan, FiniteSetTheorems, TLAPS

(***************************************************************************)
(* The file: invariance and refinement of RecordManager, for every page    *)
(* size, file size and set of record contents.                             *)
(***************************************************************************)

(* A page that has its type and whose count is right.                      *)
GoodPage(pg) == pg \in Page /\ pg.count = Cardinality(Used(pg))

(* While the file is closed its page 0 holds the header last in use.       *)
ClosedSaved == status = "closed" => saved = header

(* The inductive invariant: what the insertions and deletions rely on.     *)
IInv ==
  /\ TypeOK
  /\ CountMatchesBitmap
  /\ LinksInsideFile
  /\ PagesPastEndBlank
  /\ ClosedSaved

-----------------------------------------------------------------------------
(* The pages                                                               *)

LEMMA UsedFinite ==
  ASSUME NEW pg
  PROVE  IsFiniteSet(Used(pg)) /\ Cardinality(Used(pg)) \in Nat
<1>1. IsFiniteSet(Slots)
  BY RecordNumAssumption, FS_Interval DEF Slots
<1>2. Used(pg) \subseteq Slots
  BY DEF Used
<1>3. QED
  BY <1>1, <1>2, FS_Subset, FS_CardinalityType

(* A page fresh from initPage is well formed.                              *)
LEMMA InitPageGood ==
  ASSUME NEW p \in Pages
  PROVE  GoodPage(InitPage(p))
<1>1. InitPage(p) \in Page
  BY MaxPagesAssumption, RecordNumAssumption DEF Page, InitPage, Pages, Slots
<1>2. Used(InitPage(p)) = {}
  BY DEF Used, InitPage
<1>3. QED
  BY <1>1, <1>2, FS_EmptySet DEF GoodPage, InitPage

(* Writing a record into a free slot keeps the count right.                *)
LEMMA PutGood ==
  ASSUME NEW pg, GoodPage(pg), NEW s \in Slots, s \notin Used(pg),
         NEW d \in Data, pg.count < RecordNum
  PROVE  /\ GoodPage(Put(pg, s, d))
         /\ Put(pg, s, d).next = pg.next
         /\ Put(pg, s, d).prev = pg.prev
         /\ Put(pg, s, d).rec = [pg.rec EXCEPT ![s] = d]
         /\ Put(pg, s, d).count = pg.count + 1
<1>1. Put(pg, s, d) \in Page
  <2>1. pg.count + 1 \in 0 .. RecordNum
    BY RecordNumAssumption DEF GoodPage, Page
  <2>2. [pg.rec EXCEPT ![s] = d] \in [Slots -> Data \cup {NoRecord}]
    BY DEF GoodPage, Page
  <2>3. QED
    BY <2>1, <2>2 DEF GoodPage, Page, Put
<1>2. Used(Put(pg, s, d)) = Used(pg) \cup {s}
  BY NoRecordAssumption DEF GoodPage, Page, Put, Used
<1>3. Cardinality(Used(pg) \cup {s}) = Cardinality(Used(pg)) + 1
  BY UsedFinite, FS_AddElement
<1>4. QED
  BY <1>1, <1>2, <1>3 DEF GoodPage, Page, Put

(* Clearing a used slot keeps the count right.                             *)
LEMMA TakeGood ==
  ASSUME NEW pg, GoodPage(pg), NEW s \in Used(pg)
  PROVE  /\ GoodPage(Take(pg, s))
         /\ Take(pg, s).next = pg.next
         /\ Take(pg, s).prev = pg.prev
         /\ Take(pg, s).rec = [pg.rec EXCEPT ![s] = NoRecord]
<1>1. Used(Take(pg, s)) = Used(pg) \ {s}
  BY DEF GoodPage, Page, Take, Used
<1>2. /\ Cardinality(Used(pg) \ {s}) = Cardinality(Used(pg)) - 1
      /\ Cardinality(Used(pg) \ {s}) \in Nat
  BY UsedFinite, <1>1, FS_RemoveElement
<1>3. pg.count - 1 \in 0 .. RecordNum
  BY <1>2, RecordNumAssumption DEF GoodPage, Page
<1>4. Take(pg, s) \in Page
  BY <1>3 DEF GoodPage, Page, Take
<1>5. QED
  BY <1>1, <1>2, <1>4 DEF GoodPage, Page, Take

(* Overwriting a used slot keeps the count right.                          *)
LEMMA OverwriteGood ==
  ASSUME NEW pg, GoodPage(pg), NEW s \in Used(pg), NEW d \in Data
  PROVE  /\ GoodPage(Overwrite(pg, s, d))
         /\ Overwrite(pg, s, d).next = pg.next
         /\ Overwrite(pg, s, d).prev = pg.prev
         /\ Overwrite(pg, s, d).rec = [pg.rec EXCEPT ![s] = d]
<1>1. [pg.rec EXCEPT ![s] = d] \in [Slots -> Data \cup {NoRecord}]
  BY DEF GoodPage, Page
<1>2. Used(Overwrite(pg, s, d)) = Used(pg)
  BY NoRecordAssumption DEF GoodPage, Page, Overwrite, Used
<1>3. QED
  BY <1>1, <1>2 DEF GoodPage, Page, Overwrite

-----------------------------------------------------------------------------
(* The file                                                                *)

(* Pages f form a sound file of n - 1 data pages: every page is well       *)
(* formed, the links of those in the file stay inside it, the others are   *)
(* blank.                                                                  *)
Sound(f, n) ==
  /\ f \in [Pages -> Page]
  /\ \A p \in Pages : GoodPage(f[p])
  /\ \A p \in Pages : p < n => f[p].next <= n /\ f[p].prev < n
  /\ \A p \in Pages : p >= n => f[p] = InitPage(p)

(* Pages g hold the records of pages f, but for d in slot s of page p.     *)
RecordSet(f, g, p, s, d) ==
  \A x \in Pages : g[x].rec = IF x = p THEN [f[p].rec EXCEPT ![s] = d]
                              ELSE f[x].rec

(* Moving a page in the free list leaves every record where it is.         *)
LEMMA SetPrevSound ==
  ASSUME NEW n \in 1 .. MaxPages + 1, NEW f, Sound(f, n),
         NEW p \in Pages, p < n, NEW v \in 0 .. MaxPages, v < n
  PROVE  /\ Sound(SetPrev(f, p, v), n)
         /\ \A x \in Pages : SetPrev(f, p, v)[x].rec = f[x].rec
<1> DEFINE pg == [f[p] EXCEPT !.prev = v]
<1>1. f[p] \in Page
  BY DEF Sound
<1>2. pg \in Page /\ pg.rec = f[p].rec /\ pg.count = f[p].count
      /\ pg.next = f[p].next /\ pg.prev = v
  BY <1>1 DEF Page
<1>3. GoodPage(pg)
  <2>1. Used(pg) = Used(f[p])
    BY <1>2 DEF Used
  <2>2. QED
    BY <1>2, <2>1 DEF Sound, GoodPage
<1>4. SetPrev(f, p, v) = [f EXCEPT ![p] = pg]
  BY DEF SetPrev
<1> HIDE DEF pg
<1>5. QED
  BY <1>2, <1>3, <1>4 DEF Sound, Pages

LEMMA SetNextSound ==
  ASSUME NEW n \in 1 .. MaxPages + 1, NEW f, Sound(f, n),
         NEW p \in Pages, p < n, NEW v \in 1 .. MaxPages + 1, v <= n
  PROVE  /\ Sound(SetNext(f, p, v), n)
         /\ \A x \in Pages : SetNext(f, p, v)[x].rec = f[x].rec
<1> DEFINE pg == [f[p] EXCEPT !.next = v]
<1>1. f[p] \in Page
  BY DEF Sound
<1>2. pg \in Page /\ pg.rec = f[p].rec /\ pg.count = f[p].count
      /\ pg.prev = f[p].prev /\ pg.next = v
  BY <1>1 DEF Page
<1>3. GoodPage(pg)
  <2>1. Used(pg) = Used(f[p])
    BY <1>2 DEF Used
  <2>2. QED
    BY <1>2, <2>1 DEF Sound, GoodPage
<1>4. SetNext(f, p, v) = [f EXCEPT ![p] = pg]
  BY DEF SetNext
<1> HIDE DEF pg
<1>5. QED
  BY <1>2, <1>3, <1>4 DEF Sound, Pages

(* A page of a sound file may be replaced by a well formed one with the    *)
(* same links and another content in one slot.                             *)
LEMMA ReplaceSound ==
  ASSUME NEW n \in 1 .. MaxPages + 1, NEW f, Sound(f, n),
         NEW p \in Pages, p < n, NEW pg, GoodPage(pg),
         pg.next = f[p].next, pg.prev = f[p].prev,
         NEW s, NEW d, pg.rec = [f[p].rec EXCEPT ![s] = d]
  PROVE  /\ Sound([f EXCEPT ![p] = pg], n)
         /\ RecordSet(f, [f EXCEPT ![p] = pg], p, s, d)
BY DEF Sound, RecordSet, GoodPage, Pages

LEMMA PutSound ==
  ASSUME NEW n \in 1 .. MaxPages + 1, NEW f, Sound(f, n),
         NEW p \in Pages, p < n, NEW s \in Slots, s \notin Used(f[p]),
         NEW d \in Data, f[p].count < RecordNum
  PROVE  /\ Sound([f EXCEPT ![p] = Put(f[p], s, d)], n)
         /\ RecordSet(f, [f EXCEPT ![p] = Put(f[p], s, d)], p, s, d)
<1>1. GoodPage(f[p])
  BY DEF Sound
<1>2. /\ GoodPage(Put(f[p], s, d))
      /\ Put(f[p], s, d).next = f[p].next
      /\ Put(f[p], s, d).prev = f[p].prev
      /\ Put(f[p], s, d).rec = [f[p].rec EXCEPT ![s] = d]
  BY <1>1, PutGood
<1>3. QED
  BY <1>2, ReplaceSound

LEMMA TakeSound ==
  ASSUME NEW n \in 1 .. MaxPages + 1, NEW f, Sound(f, n),
         NEW p \in Pages, p < n, NEW s \in Used(f[p])
  PROVE  /\ Sound([f EXCEPT ![p] = Take(f[p], s)], n)
         /\ RecordSet(f, [f EXCEPT ![p] = Take(f[p], s)], p, s, NoRecord)
<1>1. GoodPage(f[p])
  BY DEF Sound
<1>2. /\ GoodPage(Take(f[p], s))
      /\ Take(f[p], s).next = f[p].next
      /\ Take(f[p], s).prev = f[p].prev
      /\ Take(f[p], s).rec = [f[p].rec EXCEPT ![s] = NoRecord]
  BY <1>1, TakeGood
<1>3. QED
  BY <1>2, ReplaceSound

LEMMA OverwriteSound ==
  ASSUME NEW n \in 1 .. MaxPages + 1, NEW f, Sound(f, n),
         NEW p \in Pages, p < n, NEW s \in Used(f[p]), NEW d \in Data
  PROVE  /\ Sound([f EXCEPT ![p] = Overwrite(f[p], s, d)], n)
         /\ RecordSet(f, [f EXCEPT ![p] = Overwrite(f[p], s, d)], p, s, d)
<1>1. GoodPage(f[p])
  BY DEF Sound
<1>2. /\ GoodPage(Overwrite(f[p], s, d))
      /\ Overwrite(f[p], s, d).next = f[p].next
      /\ Overwrite(f[p], s, d).prev = f[p].prev
      /\ Overwrite(f[p], s, d).rec = [f[p].rec EXCEPT ![s] = d]
  BY <1>1, OverwriteGood
<1>3. QED
  BY <1>2, ReplaceSound

(* The page after the last one may be appended with its first record.      *)
LEMMA AppendSound ==
  ASSUME NEW n \in 1 .. MaxPages, NEW f, Sound(f, n), NEW d \in Data
  PROVE  LET g == [f EXCEPT ![n] = Put(InitPage(n), 0, d)] IN
         Sound(g, n + 1) /\ RecordSet(f, g, n, 0, d)
<1> DEFINE pg == Put(InitPage(n), 0, d)
<1>1. n \in Pages /\ 0 \in Slots
  BY RecordNumAssumption DEF Pages, Slots
<1>2. 0 \notin Used(InitPage(n)) /\ InitPage(n).count < RecordNum
  BY RecordNumAssumption DEF Used, InitPage
<1>3. /\ GoodPage(pg)
      /\ pg.next = n + 1
      /\ pg.prev = 0
      /\ pg.rec = [InitPage(n).rec EXCEPT ![0] = d]
  <2>1. InitPage(n).next = n + 1 /\ InitPage(n).prev = 0
    BY DEF InitPage
  <2>2. GoodPage(InitPage(n))
    BY <1>1, InitPageGood
  <2>3. QED
    BY <1>1, <1>2, <2>1, <2>2, PutGood
<1>4. f[n] = InitPage(n)
  BY <1>1 DEF Sound
<1> HIDE DEF pg
<1>5. Sound([f EXCEPT ![n] = pg], n + 1)
  <2> DEFINE g == [f EXCEPT ![n] = pg]
  <2>1. /\ g \in [Pages -> Page]
        /\ \A p \in Pages : GoodPage(g[p])
    BY <1>1, <1>3 DEF Sound, GoodPage
  <2>2. ASSUME NEW p \in Pages, p < n + 1
        PROVE  g[p].next <= n + 1 /\ g[p].prev < n + 1
    <3>1. CASE p = n
      BY <1>1, <1>3, <3>1, MaxPagesAssumption DEF Sound
    <3>2. CASE p # n
      <4>1. f[p].next <= n /\ f[p].prev < n
        BY <2>2, <3>2 DEF Sound, Pages
      <4>2. f[p].next \in Int /\ f[p].prev \in Int
        BY MaxPagesAssumption DEF Sound, Page
      <4>3. QED
        BY <3>2, <4>1, <4>2 DEF Sound
    <3>3. QED
      BY <3>1, <3>2
  <2>3. ASSUME NEW p \in Pages, p >= n + 1
        PROVE  g[p] = InitPage(p)
    BY <2>3 DEF Sound, Pages
  <2>4. QED
    BY <2>1, <2>2, <2>3 DEF Sound
<1>6. RecordSet(f, [f EXCEPT ![n] = pg], n, 0, d)
  BY <1>1, <1>3, <1>4 DEF Sound, RecordSet
<1>7. QED
  BY <1>5, <1>6 DEF pg

-----------------------------------------------------------------------------
(* The steps                                                               *)

HeaderOK ==
  /\ header \in Header
  /\ saved \in Header
  /\ status \in {"open", "closed", "aborted", "hung"}
  /\ header.next <= header.pageNum
  /\ ClosedSaved

(* The inductive invariant as a statement about the header and the file.   *)
LEMMA IInvElim ==
  ASSUME IInv
  PROVE  HeaderOK /\ Sound(page, header.pageNum)
<1>1. HeaderOK
  BY DEF IInv, TypeOK, LinksInsideFile, HeaderOK
<1>2. header.pageNum \in 1 .. MaxPages + 1
  BY DEF IInv, TypeOK, Header
<1>3. \A p \in Pages : p < header.pageNum => p \in 1 .. header.pageNum - 1
  BY <1>2, MaxPagesAssumption DEF Pages
<1>4. QED
  BY <1>1, <1>2, <1>3
     DEF IInv, TypeOK, CountMatchesBitmap, LinksInsideFile, PagesPastEndBlank,
         Sound, GoodPage

LEMMA IInvIntro ==
  ASSUME HeaderOK', Sound(page', header'.pageNum)
  PROVE  IInv'
<1>1. header'.pageNum \in 1 .. MaxPages + 1
  BY DEF HeaderOK, Header
<1>2. \A p \in 1 .. header'.pageNum - 1 : p \in Pages /\ p < header'.pageNum
  BY <1>1, MaxPagesAssumption DEF Pages
<1>3. TypeOK'
  BY DEF HeaderOK, Sound, TypeOK
<1>4. CountMatchesBitmap'
  BY DEF Sound, GoodPage, CountMatchesBitmap
<1>5. LinksInsideFile'
  BY <1>2 DEF HeaderOK, Sound, LinksInsideFile
<1>6. PagesPastEndBlank'
  BY DEF Sound, PagesPastEndBlank
<1>7. QED
  BY <1>3, <1>4, <1>5, <1>6 DEF IInv, HeaderOK

(* Whoever goes by the current header sees what the pages hold: the pages  *)
(* past the end hold nothing, and the header in a closed file is current.  *)
LEMMA RecordsAre ==
  ASSUME IInv
  PROVE  Records = [r \in RIDs |-> page[r[1]].rec[r[2]]]
<1>1. CurrentHeader.pageNum = header.pageNum
  BY DEF IInv, ClosedSaved, CurrentHeader
<1>2. ASSUME NEW r \in RIDs
      PROVE  GetRec(r) = page[r[1]].rec[r[2]]
  <2>1. r[1] \in Pages /\ r[2] \in Slots
    BY DEF RIDs
  <2>2. CASE r[1] < header.pageNum
    BY <1>1, <2>2 DEF GetRec
  <2>3. CASE ~(r[1] < header.pageNum)
    <3>1. r[1] >= header.pageNum
      BY <2>1, <2>3, MaxPagesAssumption DEF IInv, TypeOK, Header, Pages
    <3>2. page[r[1]] = InitPage(r[1])
      BY <2>1, <3>1 DEF IInv, PagesPastEndBlank
    <3>3. page[r[1]].rec[r[2]] = NoRecord
      BY <2>1, <3>2 DEF InitPage
    <3>4. QED
      BY <1>1, <2>3, <3>3 DEF GetRec
  <2>4. QED
    BY <2>2, <2>3
<1>3. QED
  BY <1>2 DEF Records

LEMMA RecordsAreNext ==
  ASSUME IInv'
  PROVE  Records' = [r \in RIDs |-> page'[r[1]].rec[r[2]]]
<1>1. CurrentHeader'.pageNum = header'.pageNum
  BY DEF IInv, ClosedSaved, CurrentHeader
<1>2. ASSUME NEW r \in RIDs
      PROVE  GetRec(r)' = page'[r[1]].rec[r[2]]
  <2>1. r[1] \in Pages /\ r[2] \in Slots
    BY DEF RIDs
  <2>2. CASE r[1] < header'.pageNum
    BY <1>1, <2>2 DEF GetRec
  <2>3. CASE ~(r[1] < header'.pageNum)
    <3>1. r[1] >= header'.pageNum
      BY <2>1, <2>3, MaxPagesAssumption DEF IInv, TypeOK, Header, Pages
    <3>2. page'[r[1]] = InitPage(r[1])
      BY <2>1, <3>1 DEF IInv, PagesPastEndBlank
    <3>3. page'[r[1]].rec[r[2]] = NoRecord
      BY <2>1, <3>2 DEF InitPage
    <3>4. QED
      BY <1>1, <2>3, <3>3 DEF GetRec
  <2>4. QED
    BY <2>2, <2>3
<1>3. QED
  BY <1>2 DEF Records

(* What a step does to the pages is what it does to the abstract map.      *)
LEMMA SameRecords ==
  ASSUME IInv, IInv', \A x \in Pages : page'[x].rec = page[x].rec
  PROVE  Records' = Records
BY RecordsAre, RecordsAreNext DEF RIDs

LEMMA OneRecordChanged ==
  ASSUME IInv, IInv', NEW p \in Pages, NEW s \in Slots, NEW d,
         RecordSet(page, page', p, s, d)
  PROVE  /\ <<p, s>> \in RIDs
         /\ Records[<<p, s>>] = page[p].rec[s]
         /\ Records' = [Records EXCEPT ![<<p, s>>] = d]
<1>1. <<p, s>> \in RIDs
  BY DEF RIDs
<1>2. page[p].rec \in [Slots -> Data \cup {NoRecord}]
  BY DEF IInv, TypeOK, Page
<1>3. ASSUME NEW r \in RIDs
      PROVE  page'[r[1]].rec[r[2]]
               = IF r = <<p, s>> THEN d ELSE page[r[1]].rec[r[2]]
  <2>1. PICK x \in Pages, t \in Slots : r = <<x, t>>
    BY DEF RIDs
  <2>2. QED
    BY <1>2, <2>1 DEF RecordSet
<1>4. QED
  BY <1>1, <1>3, RecordsAre, RecordsAreNext

LEMMA InsertStep ==
  ASSUME IInv, NEW d \in Data, InsertRec(d)
  PROVE  /\ IInv'
         /\ \/ status' = "aborted" /\ Records' = Records
            \/ \E r \in RIDs : Store!Insert(r, d)
<1> DEFINE n == header.pageNum
<1>1. /\ HeaderOK
      /\ Sound(page, n)
      /\ n \in 1 .. MaxPages + 1
      /\ header.next \in 1 .. MaxPages + 1
      /\ header.next <= n
      /\ header \in [pageNum : 1 .. MaxPages + 1, next : 1 .. MaxPages + 1]
  BY IInvElim DEF HeaderOK, Header
<1>2. CASE InsertIntoNewPage(d)
  <2>1. n \in 1 .. MaxPages /\ header.next = n
    BY <1>1, <1>2 DEF InsertIntoNewPage
  <2>2. Sound(page', n + 1) /\ RecordSet(page, page', n, 0, d)
    BY <1>1, <1>2, <2>1, AppendSound DEF InsertIntoNewPage
  <2>3. header'.pageNum = n + 1 /\ header'.next = header.next
    BY <1>1, <1>2 DEF InsertIntoNewPage
  <2>4. HeaderOK'
    BY <1>1, <1>2, <2>1, <2>3, MaxPagesAssumption
       DEF InsertIntoNewPage, HeaderOK, Header, ClosedSaved
  <2>5. IInv'
    BY <2>2, <2>3, <2>4, IInvIntro
  <2>6. n \in Pages /\ 0 \in Slots
    BY <2>1, RecordNumAssumption DEF Pages, Slots
  <2>7. page[n].rec[0] = NoRecord
    BY <1>1, <2>6 DEF Sound, InitPage
  <2>8. Store!Insert(<<n, 0>>, d) /\ <<n, 0>> \in RIDs
    BY <2>2, <2>5, <2>6, <2>7, OneRecordChanged DEF Store!Insert
  <2>9. QED
    BY <2>5, <2>8
<1>3. CASE InsertAndKeepPage(d)
  <2> DEFINE p == header.next
  <2>1. p < n /\ p \in Pages
    BY <1>1, <1>3, MaxPagesAssumption DEF InsertAndKeepPage, Pages
  <2>2. PICK s \in Slots : /\ s \notin Used(page[p])
                           /\ page' = [page EXCEPT ![p] = Put(page[p], s, d)]
    BY <1>3 DEF InsertAndKeepPage, IsFirstFree
  <2>3. GoodPage(page[p]) /\ page[p].count < RecordNum
    BY <1>1, <1>3, <2>1, RecordNumAssumption
       DEF Sound, GoodPage, Page, InsertAndKeepPage
  <2>4. Sound(page', n) /\ RecordSet(page, page', p, s, d)
    BY <1>1, <2>1, <2>2, <2>3, PutSound
  <2>5. HeaderOK' /\ header' = header
    BY <1>1, <1>3 DEF InsertAndKeepPage, HeaderOK, ClosedSaved
  <2>6. IInv'
    BY <2>4, <2>5, IInvIntro
  <2>7. page[p].rec[s] = NoRecord
    BY <2>2 DEF Used
  <2>8. Store!Insert(<<p, s>>, d) /\ <<p, s>> \in RIDs
    BY <2>1, <2>4, <2>6, <2>7, OneRecordChanged DEF Store!Insert
  <2>9. QED
    BY <2>6, <2>8
<1>4. CASE InsertAndUnlinkPage(d)
  <2> DEFINE p == header.next
             next == page[p].next
  <2>1. p < n /\ p \in Pages
    BY <1>1, <1>4, MaxPagesAssumption DEF InsertAndUnlinkPage, Pages
  <2>2. PICK s \in Slots :
          /\ s \notin Used(page[p])
          /\ page' = IF next < n
                     THEN SetPrev([page EXCEPT ![p] = Put(page[p], s, d)], next, 0)
                     ELSE [page EXCEPT ![p] = Put(page[p], s, d)]
    BY <1>4 DEF InsertAndUnlinkPage, IsFirstFree
  <2> DEFINE f == [page EXCEPT ![p] = Put(page[p], s, d)]
  <2>3. GoodPage(page[p]) /\ page[p].count < RecordNum
    BY <1>1, <1>4, <2>1, RecordNumAssumption
       DEF Sound, GoodPage, Page, InsertAndUnlinkPage
  <2>4. Sound(f, n) /\ RecordSet(page, f, p, s, d)
    BY <1>1, <2>1, <2>2, <2>3, PutSound
  <2>5. next \in 1 .. MaxPages + 1 /\ next <= n
    BY <1>1, <2>1 DEF Sound, Page
  <2> HIDE DEF f
  <2>6. Sound(page', n) /\ RecordSet(page, page', p, s, d)
    <3>1. CASE next < n
      <4>1. next \in Pages /\ 0 \in 0 .. MaxPages /\ 0 < n
        BY <1>1, <2>5, <3>1, MaxPagesAssumption DEF Pages
      <4>2. page' = SetPrev(f, next, 0)
        BY <2>2, <3>1 DEF f
      <4>3. /\ Sound(SetPrev(f, next, 0), n)
            /\ \A x \in Pages : SetPrev(f, next, 0)[x].rec = f[x].rec
        BY <1>1, <2>4, <3>1, <4>1, SetPrevSound
      <4>4. QED
        BY <2>4, <4>2, <4>3 DEF RecordSet
    <3>2. CASE ~(next < n)
      BY <2>2, <2>4, <3>2 DEF f
    <3>3. QED
      BY <3>1, <3>2
  <2>7. /\ header' = [header EXCEPT !.next = next]
        /\ status' = "open"
        /\ saved' = saved
    BY <1>4, <2>5 DEF InsertAndUnlinkPage
  <2>8. HeaderOK' /\ header'.pageNum = n
    BY <1>1, <2>5, <2>7 DEF HeaderOK, Header, ClosedSaved
  <2>9. IInv'
    BY <2>6, <2>8, IInvIntro
  <2>10. page[p].rec[s] = NoRecord
    BY <2>2 DEF Used
  <2> HIDE DEF p, next
  <2>11. Store!Insert(<<p, s>>, d) /\ <<p, s>> \in RIDs
    BY <2>1, <2>6, <2>9, <2>10, OneRecordChanged DEF Store!Insert
  <2>12. QED
    BY <2>9, <2>11
<1>5. CASE InsertAborts
  <2>1. HeaderOK' /\ header' = header /\ page' = page
    BY <1>1, <1>5 DEF InsertAborts, HeaderOK, ClosedSaved
  <2>2. IInv'
    BY <1>1, <2>1, IInvIntro
  <2>3. QED
    BY <1>5, <2>1, <2>2, SameRecords DEF InsertAborts
<1>6. QED
  BY <1>2, <1>3, <1>4, <1>5 DEF InsertRec

(* The loop of deleteRec stays among the pages up to p.                    *)
LEMMA WalkStaysBefore ==
  ASSUME IInv, NEW p \in Pages, header.next < p
  PROVE  \A q \in Walk(p) : q \in Pages /\ q <= p
<1> DEFINE S == {x \in Pages : x <= p}
<1>1. header.next \in S
  BY MaxPagesAssumption DEF IInv, TypeOK, Header, Pages
<1>2. \A q \in S : page[q].next <= p => page[q].next \in S
  BY MaxPagesAssumption DEF IInv, TypeOK, Page, Pages
<1>3. S \in SUBSET Pages /\ IsWalk(S, p)
  BY <1>1, <1>2 DEF IsWalk
<1>4. QED
  BY <1>3 DEF Walk

LEMMA DeleteStep ==
  ASSUME IInv, NEW p \in Pages, NEW s \in Slots, DeleteRec(p, s)
  PROVE  IInv' /\ Store!Delete(<<p, s>>) /\ <<p, s>> \in RIDs
<1> DEFINE n == header.pageNum
           f == Taken(p, s)
<1>1. /\ HeaderOK
      /\ Sound(page, n)
      /\ n \in 1 .. MaxPages + 1
      /\ header.next \in 1 .. MaxPages + 1
      /\ header.next <= n
      /\ header \in [pageNum : 1 .. MaxPages + 1, next : 1 .. MaxPages + 1]
  BY IInvElim DEF HeaderOK, Header
<1>2. /\ p < n
      /\ s \in Used(page[p])
      /\ saved' = saved
      /\ status = "open"
      /\ p \in 1 .. MaxPages + 1
      /\ 0 \in 0 .. MaxPages /\ 0 < n
  BY <1>1, MaxPagesAssumption DEF DeleteRec, Pages
<1>3. Sound(f, n) /\ RecordSet(page, f, p, s, NoRecord)
  BY <1>1, <1>2, TakeSound DEF Taken
<1> HIDE DEF f
<1>4. SUFFICES /\ Sound(page', n)
               /\ \A x \in Pages : page'[x].rec = f[x].rec
               /\ header' = header \/ header' = [header EXCEPT !.next = p]
               /\ status' \in {"open", "aborted", "hung"}
  <2>1. /\ header' \in Header
        /\ header'.pageNum = n
        /\ header'.next <= header'.pageNum
    <3>1. CASE header' = header
      BY <1>1, <3>1 DEF Header
    <3>2. CASE header' = [header EXCEPT !.next = p]
      BY <1>1, <1>2, <3>2 DEF Header
    <3>3. QED
      BY <1>4, <3>1, <3>2
  <2>2. IInv'
    <3>1. HeaderOK'
      BY <1>1, <1>2, <1>4, <2>1 DEF HeaderOK, ClosedSaved
    <3>2. QED
      BY <1>4, <2>1, <3>1, IInvIntro
  <2>3. RecordSet(page, page', p, s, NoRecord)
    BY <1>3, <1>4 DEF RecordSet
  <2>4. page[p].rec[s] # NoRecord
    BY <1>2 DEF Used
  <2>5. QED
    BY <2>2, <2>3, <2>4, OneRecordChanged DEF Store!Delete
<1>5. CASE DeleteFromFreePage(p, s)
  BY <1>1, <1>2, <1>3, <1>5 DEF DeleteFromFreePage, f
<1>6. CASE DeleteAborts(p, s)
  BY <1>1, <1>2, <1>3, <1>6 DEF DeleteAborts, f
<1>7. CASE DeleteHangs(p, s)
  BY <1>1, <1>2, <1>3, <1>7 DEF DeleteHangs, f
<1>8. CASE DeleteAndLinkFirst(p, s)
  <2> DEFINE old == header.next
             g   == SetPrev(f, p, 0)
             h   == SetNext(g, p, old)
  <2>1. /\ page' = IF old # n THEN SetPrev(h, old, p) ELSE g
        /\ header' = [header EXCEPT !.next = p]
        /\ status' = status
        /\ old > p
    BY <1>8 DEF DeleteAndLinkFirst, f
  <2>2. Sound(g, n) /\ \A x \in Pages : g[x].rec = f[x].rec
    BY <1>1, <1>2, <1>3, SetPrevSound
  <2> HIDE DEF g
  <2>3. CASE old = n
    BY <1>2, <2>1, <2>2, <2>3
  <2>4. CASE old # n
    <3>1. Sound(h, n) /\ \A x \in Pages : h[x].rec = g[x].rec
      BY <1>1, <1>2, <2>2, SetNextSound
    <3> HIDE DEF h
    <3>2. old \in Pages /\ old < n /\ p \in 0 .. MaxPages
      BY <1>1, <1>2, <2>4, MaxPagesAssumption DEF Pages
    <3> DEFINE k == SetPrev(h, old, p)
    <3>3. Sound(k, n) /\ \A x \in Pages : k[x].rec = h[x].rec
      BY <1>1, <1>2, <3>1, <3>2, SetPrevSound
    <3>4. page' = k
      BY <2>1, <2>4
    <3> HIDE DEF k
    <3>5. QED
      BY <1>2, <2>1, <2>2, <3>1, <3>3, <3>4
  <2>5. QED
    BY <2>3, <2>4
<1>9. ASSUME NEW q \in Pages, DeleteAndLinkBehind(p, s, q)
      PROVE  /\ Sound(page', n)
             /\ \A x \in Pages : page'[x].rec = f[x].rec
             /\ header' = header /\ status' = status
  <2> DEFINE next == page[q].next
             g == SetNext(f, q, p)
             h == SetPrev(g, p, q)
             j == SetNext(h, p, next)
             k == SetPrev(j, q, p)
  <2>1. /\ page' = IF next # n THEN k ELSE h
        /\ header' = header
        /\ status' = status
        /\ header.next < p
        /\ q \in Walk(p)
    BY <1>9 DEF DeleteAndLinkBehind, WalkEnds, f
  <2>2. /\ q <= p /\ q < n
        /\ q \in 0 .. MaxPages /\ p \in 0 .. MaxPages
        /\ p \in 1 .. MaxPages + 1
    BY <1>1, <1>2, <2>1, WalkStaysBefore, MaxPagesAssumption DEF Pages
  <2>3. next \in 1 .. MaxPages + 1 /\ next <= n
    BY <1>1, <2>2 DEF Sound, Page
  <2> HIDE DEF next
  <2>4. Sound(g, n) /\ \A x \in Pages : g[x].rec = f[x].rec
    BY <1>1, <1>2, <1>3, <2>2, SetNextSound
  <2> HIDE DEF g
  <2>5. Sound(h, n) /\ \A x \in Pages : h[x].rec = g[x].rec
    BY <1>1, <1>2, <2>2, <2>4, SetPrevSound
  <2> HIDE DEF h
  <2>6. Sound(j, n) /\ \A x \in Pages : j[x].rec = h[x].rec
    BY <1>1, <1>2, <2>3, <2>5, SetNextSound
  <2> HIDE DEF j
  <2>7. Sound(k, n) /\ \A x \in Pages : k[x].rec = j[x].rec
    BY <1>1, <1>2, <2>2, <2>6, SetPrevSound
  <2> HIDE DEF k
  <2>8. QED
    BY <2>1, <2>4, <2>5, <2>6, <2>7
<1>10. QED
  BY <1>2, <1>5, <1>6, <1>7, <1>8, <1>9 DEF DeleteRec

LEMMA UpdateStep ==
  ASSUME IInv, NEW p \in Pages, NEW s \in Slots, NEW d \in Data,
         UpdateRec(p, s, d)
  PROVE  IInv' /\ Store!Update(<<p, s>>, d) /\ <<p, s>> \in RIDs
<1> DEFINE n == header.pageNum
<1>1. HeaderOK /\ Sound(page, n) /\ n \in 1 .. MaxPages + 1
  BY IInvElim DEF HeaderOK, Header
<1>2. /\ p < n
      /\ s \in Used(page[p])
      /\ page' = [page EXCEPT ![p] = Overwrite(page[p], s, d)]
  BY DEF UpdateRec
<1>3. Sound(page', n) /\ RecordSet(page, page', p, s, d)
  BY <1>1, <1>2, OverwriteSound
<1>4. HeaderOK' /\ header' = header
  BY <1>1 DEF UpdateRec, HeaderOK, ClosedSaved
<1>5. IInv'
  BY <1>3, <1>4, IInvIntro
<1>6. page[p].rec[s] # NoRecord
  BY <1>2 DEF Used
<1>7. QED
  BY <1>3, <1>5, <1>6, OneRecordChanged DEF Store!Update

(* Saving, closing and opening move the header only.                       *)
LEMMA HeaderStep ==
  ASSUME IInv, ForceDisk \/ CloseFile \/ OpenFile \/ UNCHANGED vars
  PROVE  IInv' /\ Records' = Records
<1>1. HeaderOK /\ Sound(page, header.pageNum)
  BY IInvElim
<1>2. HeaderOK' /\ header' = header /\ page' = page
  BY <1>1 DEF ForceDisk, CloseFile, OpenFile, vars, HeaderOK, ClosedSaved
<1>3. IInv'
  BY <1>1, <1>2, IInvIntro
<1>4. QED
  BY <1>2, <1>3, SameRecords

-----------------------------------------------------------------------------
(* The theorems                                                            *)

LEMMA InitInv == Init => IInv /\ Store!Init
<1> SUFFICES ASSUME Init PROVE IInv /\ Store!Init
  OBVIOUS
<1>1. Sound(page, 1)
  BY InitPageGood, MaxPagesAssumption DEF Init, Sound, GoodPage, Pages
<1>2. header = InitHeader /\ saved = InitHeader /\ status = "open"
  BY DEF Init
<1>3. TypeOK
  BY <1>1, <1>2, MaxPagesAssumption DEF Sound, TypeOK, Header, InitHeader
<1>4. IInv
  BY <1>1, <1>2, <1>3, MaxPagesAssumption
     DEF Sound, GoodPage, IInv, CountMatchesBitmap, LinksInsideFile,
         PagesPastEndBlank, ClosedSaved, InitHeader
<1>5. \A r \in RIDs : page[r[1]].rec[r[2]] = NoRecord
  BY DEF Init, InitPage, RIDs
<1>6. Store!Init
  BY <1>4, <1>5, RecordsAre DEF Store!Init
<1>7. QED
  BY <1>4, <1>6

LEMMA NextInv ==
  ASSUME IInv, [Next]_vars
  PROVE  IInv' /\ [Store!Next]_Records
<1>1. ASSUME NEW d \in Data, InsertRec(d)
      PROVE  IInv' /\ [Store!Next]_Records
  BY <1>1, InsertStep DEF Store!Next
<1>2. ASSUME NEW p \in Pages, NEW s \in Slots, DeleteRec(p, s)
      PROVE  IInv' /\ [Store!Next]_Records
  BY <1>2, DeleteStep DEF Store!Next
<1>3. ASSUME NEW p \in Pages, NEW s \in Slots, NEW d \in Data, UpdateRec(p, s, d)
      PROVE  IInv' /\ [Store!Next]_Records
  BY <1>3, UpdateStep DEF Store!Next
<1>4. CASE ForceDisk \/ CloseFile \/ OpenFile \/ UNCHANGED vars
  BY <1>4, HeaderStep
<1>5. QED
  BY <1>1, <1>2, <1>3, <1>4 DEF Next

(* The inductive invariant holds in every reachable state of a record file *)
(* of any page size, size and contents.                                    *)
THEOREM RecordFileInvariant == Spec => []IInv
<1>1. Init => IInv
  BY InitInv
<1>2. IInv /\ [Next]_vars => IInv'
  BY NextInv
<1>3. QED
  BY <1>1, <1>2, PTL DEF Spec

(* The header, its copy in the file and every page stay within their       *)
(* ranges.                                                                 *)
THEOREM RecordFileTypeOK == Spec => []TypeOK
<1>1. IInv => TypeOK
  BY DEF IInv
<1>2. QED
  BY <1>1, RecordFileInvariant, PTL

(* In every page of every record file the count is the number of bits set  *)
(* in the bitmap.                                                          *)
THEOREM RecordFileCount == Spec => []CountMatchesBitmap
<1>1. IInv => CountMatchesBitmap
  BY DEF IInv
<1>2. QED
  BY <1>1, RecordFileInvariant, PTL

(* In every record file the links of the free list stay inside the file.   *)
THEOREM RecordFileLinks == Spec => []LinksInsideFile
<1>1. IInv => LinksInsideFile
  BY DEF IInv
<1>2. QED
  BY <1>1, RecordFileInvariant, PTL

(* Every record file implements the abstract map of records.               *)
THEOREM RecordFileRefinement == Spec => ImplementsRecordStore
<1>1. Init => Store!Init
  BY InitInv
<1>2. IInv /\ [Next]_vars => [Store!Next]_Records
  BY NextInv
<1>3. QED
  BY <1>1, <1>2, RecordFileInvariant, PTL
     DEF Spec, ImplementsRecordStore, Store!Spec

(* In every record file each call does to the records what its name says:  *)
(* an insertion never lands on a live record.                              *)
THEOREM RecordFileCalls == Spec => CallsMatchStore
<1> DEFINE A ==
      /\ \A d \in Data :
           InsertRec(d) => status' = "aborted" \/ \E r \in RIDs : Store!Insert(r, d)
      /\ \A p \in Pages, s \in Slots :
           /\ DeleteRec(p, s) => Store!Delete(<<p, s>>)
           /\ \A d \in Data : UpdateRec(p, s, d) => Store!Update(<<p, s>>, d)
<1>1. IInv => A
  BY InsertStep, DeleteStep, UpdateStep
<1>2. IInv /\ [Next]_vars => [A]_vars
  BY <1>1
<1>3. QED
  BY <1>2, RecordFileInvariant, PTL DEF Spec, CallsMatchStore

-----------------------------------------------------------------------------
(***************************************************************************)
(* The scans                                                               *)
(***************************************************************************)

(* The matching records behind a cursor, as the pages hold them: what      *)
(* Ahead reads through getRec while the file is open.                      *)
Behind(c) ==
  {r \in RIDs : /\ r[1] < c.pageNum
                /\ page[r[1]].rec[r[2]] \in c.wanted
                /\ Precedes(<<c.page, c.slot>>, r)}

AtOrBefore(r, c) == r = <<c.page, c.slot>> \/ Precedes(r, <<c.page, c.slot>>)

(* A scan's pages are pages of the file, which never shrinks; what it owes *)
(* lies behind its cursor, and what it has passed does not.                *)
CursorSplits ==
  scan.open =>
    /\ status # "closed"
    /\ scan.pageNum <= header.pageNum
    /\ owed \subseteq Behind(scan)
    /\ \A i \in DOMAIN passed :
         passed[i][1] < scan.pageNum /\ AtOrBefore(passed[i], scan)

(* The inductive invariant.                                                *)
ScanInv ==
  /\ IInv
  /\ ScanTypeOK
  /\ CursorSplits
  /\ ReturnsInOrder

-----------------------------------------------------------------------------
(* Identifiers are in lexical order.                                       *)
LEMMA PrecedesTransitive ==
  ASSUME NEW a \in Int \X Int, NEW b \in Int \X Int, NEW c \in Int \X Int,
         Precedes(a, b), Precedes(b, c)
  PROVE  Precedes(a, c)
BY DEF Precedes

LEMMA RIDsArePairs == RIDs \subseteq Int \X Int
BY MaxPagesAssumption, RecordNumAssumption DEF RIDs, Pages, Slots

(* While a scan is open, getRec reads what the pages hold.                 *)
LEMMA AheadIsBehind ==
  ASSUME ScanInv, scan.open
  PROVE  Ahead = Behind(scan)
<1>1. /\ CurrentHeader = header
      /\ scan.pageNum <= header.pageNum
  BY DEF ScanInv, CursorSplits, CurrentHeader
<1>2. /\ header.pageNum \in Int
      /\ scan.pageNum \in Int
  BY MaxPagesAssumption DEF ScanInv, ScanTypeOK, TypeOK, Header
<1>3. ASSUME NEW r \in RIDs, r[1] < scan.pageNum
      PROVE  GetRec(r) = page[r[1]].rec[r[2]]
  <2>1. r[1] \in Int
    BY RIDsArePairs
  <2>2. r[1] < header.pageNum
    BY <1>1, <1>2, <1>3, <2>1
  <2>3. QED
    BY <1>1, <2>2 DEF GetRec
<1>4. QED
  BY <1>3 DEF Ahead, Behind, Matching

(* Every record that matches lies behind a cursor at the start.            *)
LEMMA StartsBefore ==
  ASSUME NEW r \in RIDs
  PROVE  Precedes(<<-1, -1>>, r)
BY MaxPagesAssumption DEF RIDs, Pages, Precedes

(* A call on the file keeps its pages and does not close it.               *)
LEMMA FileGrows ==
  ASSUME IInv,
         \/ \E d \in Data : InsertRec(d)
         \/ \E p \in Pages, s \in Slots :
              DeleteRec(p, s) \/ \E d \in Data : UpdateRec(p, s, d)
  PROVE  /\ IInv'
         /\ header.pageNum <= header'.pageNum
         /\ status' # "closed"
<1>1. IInv'
  BY NextInv DEF Next
<1>2. header \in Header /\ header.pageNum \in Int
  BY MaxPagesAssumption DEF IInv, TypeOK, Header
<1>3. ASSUME NEW d \in Data, InsertRec(d)
      PROVE  header.pageNum <= header'.pageNum /\ status' # "closed"
  <2>1. CASE InsertIntoNewPage(d)
    BY <1>2, <2>1 DEF InsertIntoNewPage, Header
  <2>2. CASE InsertAndKeepPage(d)
    BY <1>2, <2>2 DEF InsertAndKeepPage
  <2>3. CASE InsertAndUnlinkPage(d)
    <3>1. /\ \/ header' = header
             \/ header' = [header EXCEPT !.next = page[header.next].next]
          /\ status' \in {"open", "aborted"}
      BY <2>3 DEF InsertAndUnlinkPage
    <3>2. QED
      BY <1>2, <3>1 DEF Header
  <2>4. CASE InsertAborts
    BY <1>2, <2>4 DEF InsertAborts
  <2>5. QED
    BY <1>3, <2>1, <2>2, <2>3, <2>4 DEF InsertRec
<1>4. ASSUME NEW p \in Pages, NEW s \in Slots, DeleteRec(p, s)
      PROVE  header.pageNum <= header'.pageNum /\ status' # "closed"
  <2>1. status = "open"
    BY <1>4 DEF DeleteRec
  <2>2. CASE DeleteFromFreePage(p, s) \/ DeleteAborts(p, s) \/ DeleteHangs(p, s)
    BY <1>2, <2>1, <2>2 DEF DeleteFromFreePage, DeleteAborts, DeleteHangs
  <2>3. CASE DeleteAndLinkFirst(p, s)
    BY <1>2, <2>1, <2>3 DEF DeleteAndLinkFirst, Header
  <2>4. CASE \E q \in Pages : DeleteAndLinkBehind(p, s, q)
    BY <1>2, <2>1, <2>4 DEF DeleteAndLinkBehind
  <2>5. QED
    BY <1>4, <2>2, <2>3, <2>4 DEF DeleteRec
<1>5. ASSUME NEW p \in Pages, NEW s \in Slots, NEW d \in Data, UpdateRec(p, s, d)
      PROVE  header.pageNum <= header'.pageNum /\ status' # "closed"
  BY <1>2, <1>5 DEF UpdateRec
<1>6. QED
  BY <1>1, <1>3, <1>4, <1>5

-----------------------------------------------------------------------------
(* The steps                                                               *)

(* Opening a scan and starting it again owe the same: what matches.        *)
LEMMA StartStep ==
  ASSUME ScanInv,
         status = "open",
         NEW n \in 1 .. MaxPages + 1, n <= header.pageNum,
         NEW wanted \in SUBSET Data,
         scan' = [open |-> TRUE, page |-> -1, slot |-> -1,
                  pageNum |-> n, wanted |-> wanted],
         owed' = Matching(wanted, n),
         passed' = <<>>,
         UNCHANGED vars
  PROVE  ScanInv'
<1>1. IInv' /\ TypeOK'
  <2>1. [Next]_vars
    OBVIOUS
  <2>2. IInv'
    BY <2>1, NextInv DEF ScanInv
  <2>3. QED
    BY <2>2 DEF IInv
<1>2. ScanTypeOK'
  <2>1. owed' \subseteq RIDs
    BY DEF Matching
  <2>2. scan' \in [open : BOOLEAN, page : -1 .. MaxPages + 1, slot : {-1} \cup Slots,
                   pageNum : 1 .. MaxPages + 1, wanted : SUBSET Data]
    BY MaxPagesAssumption
  <2>3. QED
    BY <1>1, <2>1, <2>2 DEF ScanTypeOK
<1>3. owed' \subseteq Behind(scan)'
  <2>1. header.pageNum \in Int /\ CurrentHeader = header
    BY MaxPagesAssumption DEF ScanInv, ScanTypeOK, TypeOK, Header, CurrentHeader
  <2>2. ASSUME NEW r \in RIDs, r[1] < n, GetRec(r) \in wanted
        PROVE  page[r[1]].rec[r[2]] \in wanted /\ Precedes(<<-1, -1>>, r)
    <3>1. r[1] < header.pageNum
      BY <2>1, <2>2, RIDsArePairs
    <3>2. QED
      BY <2>1, <2>2, <3>1, StartsBefore DEF GetRec
  <2>3. page' = page
    BY DEF vars
  <2>4. QED
    BY <2>2, <2>3 DEF Matching, Behind
<1>4. CursorSplits'
  <2>1. header' = header /\ status' = status
    BY DEF vars
  <2>2. scan'.pageNum <= header'.pageNum /\ status' # "closed"
    BY <2>1
  <2>3. DOMAIN passed' = {}
    OBVIOUS
  <2>4. QED
    BY <1>3, <2>2, <2>3 DEF CursorSplits
<1>5. ReturnsInOrder'
  BY DEF ReturnsInOrder
<1>6. QED
  BY <1>1, <1>2, <1>4, <1>5 DEF ScanInv

LEMMA CloseStep ==
  ASSUME ScanInv, CloseScan
  PROVE  ScanInv'
<1>1. IInv' /\ TypeOK'
  <2>1. [Next]_vars
    BY DEF CloseScan
  <2>2. IInv'
    BY <2>1, NextInv DEF ScanInv
  <2>3. QED
    BY <2>2 DEF IInv
<1>2. scan' = NoScan /\ owed' = {} /\ passed' = <<>>
  BY DEF CloseScan
<1>3. ScanTypeOK'
  BY <1>1, <1>2, MaxPagesAssumption DEF ScanTypeOK, NoScan
<1>4. CursorSplits' /\ ReturnsInOrder'
  BY <1>2 DEF CursorSplits, ReturnsInOrder, NoScan
<1>5. QED
  BY <1>1, <1>3, <1>4 DEF ScanInv

(* The record returned is the least behind the cursor: the others owed     *)
(* stay behind it, and all that was passed comes before it.                *)
LEMMA ReturnStep ==
  ASSUME ScanInv, NEW r \in RIDs, GetNextRec(r)
  PROVE  ScanInv'
<1>1. IInv' /\ TypeOK'
  <2>1. [Next]_vars
    BY DEF GetNextRec
  <2>2. IInv'
    BY <2>1, NextInv DEF ScanInv
  <2>3. QED
    BY <2>2 DEF IInv
<1>2. /\ scan.open
      /\ r \in Behind(scan)
      /\ \A other \in Behind(scan) \ {r} : Precedes(r, other)
      /\ scan' = [scan EXCEPT !.page = r[1], !.slot = r[2]]
      /\ owed' = owed \ {r}
      /\ passed' = Append(passed, r)
      /\ UNCHANGED vars
  BY AheadIsBehind DEF GetNextRec
<1>3. PICK p \in Pages, s \in Slots : r = <<p, s>>
  BY DEF RIDs
<1>4. /\ scan \in [open : BOOLEAN, page : -1 .. MaxPages + 1, slot : {-1} \cup Slots,
                   pageNum : 1 .. MaxPages + 1, wanted : SUBSET Data]
      /\ owed \subseteq RIDs
      /\ passed \in Seq(RIDs)
  BY DEF ScanInv, ScanTypeOK
<1>5. /\ <<scan'.page, scan'.slot>> = r
      /\ scan'.open = scan.open
      /\ scan'.pageNum = scan.pageNum
      /\ scan'.wanted = scan.wanted
  BY <1>2, <1>3, <1>4
<1>6. ScanTypeOK'
  <2>1. p \in -1 .. MaxPages + 1
    BY MaxPagesAssumption DEF Pages
  <2>2. scan' \in [open : BOOLEAN, page : -1 .. MaxPages + 1, slot : {-1} \cup Slots,
                   pageNum : 1 .. MaxPages + 1, wanted : SUBSET Data]
    BY <1>2, <1>3, <1>4, <2>1
  <2>3. passed' \in Seq(RIDs) /\ owed' \subseteq RIDs
    BY <1>2, <1>4
  <2>4. QED
    BY <1>1, <2>2, <2>3 DEF ScanTypeOK
<1>7. ASSUME NEW i \in DOMAIN passed
      PROVE  Precedes(passed[i], r)
  <2>1. AtOrBefore(passed[i], scan)
    BY <1>2 DEF ScanInv, CursorSplits
  <2>2. Precedes(<<scan.page, scan.slot>>, r)
    BY <1>2 DEF Behind
  <2>3. /\ passed[i] \in Int \X Int
        /\ r \in Int \X Int
        /\ <<scan.page, scan.slot>> \in Int \X Int
    <3>1. passed[i] \in RIDs
      BY <1>4
    <3>2. scan.page \in Int /\ scan.slot \in Int
      BY <1>4, MaxPagesAssumption, RecordNumAssumption DEF Slots
    <3>3. QED
      BY <3>1, <3>2, RIDsArePairs
  <2>4. QED
    BY <2>1, <2>2, <2>3, PrecedesTransitive DEF AtOrBefore
<1>8. ReturnsInOrder'
  <2>1. /\ DOMAIN passed' = 1 .. Len(passed) + 1
        /\ DOMAIN passed = 1 .. Len(passed)
        /\ Len(passed) \in Nat
        /\ passed'[Len(passed) + 1] = r
        /\ \A i \in 1 .. Len(passed) : passed'[i] = passed[i]
    BY <1>2, <1>4
  <2>2. ASSUME NEW i \in 1 .. Len(passed) + 1, NEW j \in 1 .. Len(passed) + 1, i < j
        PROVE  Precedes(passed'[i], passed'[j])
    <3>1. i \in DOMAIN passed
      BY <2>1, <2>2
    <3>2. CASE j \in DOMAIN passed
      BY <2>1, <2>2, <3>1, <3>2 DEF ScanInv, ReturnsInOrder
    <3>3. CASE j = Len(passed) + 1
      BY <1>7, <2>1, <3>1, <3>3
    <3>4. QED
      BY <2>1, <3>2, <3>3
  <2>3. QED
    BY <2>1, <2>2 DEF ReturnsInOrder
<1>9. CursorSplits'
  <2>1. owed' \subseteq Behind(scan)'
    <3>1. owed' \subseteq Behind(scan) \ {r}
      BY <1>2 DEF ScanInv, CursorSplits
    <3>2. page' = page
      BY <1>2 DEF vars
    <3>3. QED
      BY <1>2, <1>5, <3>1, <3>2 DEF Behind
  <2>2. ASSUME NEW i \in DOMAIN passed'
        PROVE  passed'[i][1] < scan'.pageNum /\ AtOrBefore(passed'[i], scan')
    <3>1. r[1] < scan.pageNum /\ \A k \in DOMAIN passed : passed[k][1] < scan.pageNum
      BY <1>2 DEF ScanInv, CursorSplits, Behind
    <3>2. passed'[i] = r \/ (i \in DOMAIN passed /\ passed'[i] = passed[i])
      BY <1>2, <1>4
    <3>3. QED
      BY <1>5, <1>7, <3>1, <3>2 DEF AtOrBefore
  <2>3. status' # "closed" /\ scan'.pageNum <= header'.pageNum
    BY <1>2, <1>5 DEF ScanInv, CursorSplits, vars
  <2>4. QED
    BY <2>1, <2>2, <2>3 DEF CursorSplits
<1>10. QED
  BY <1>1, <1>6, <1>8, <1>9 DEF ScanInv

(* A scan that ends owes nothing and is past everything it has returned.   *)
LEMMA EndStep ==
  ASSUME ScanInv, GetNextRecEnds
  PROVE  ScanInv'
<1>1. IInv' /\ TypeOK'
  <2>1. [Next]_vars
    BY DEF GetNextRecEnds
  <2>2. IInv'
    BY <2>1, NextInv DEF ScanInv
  <2>3. QED
    BY <2>2 DEF IInv
<1>2. /\ scan.open
      /\ Behind(scan) = {}
      /\ owed' = owed /\ passed' = passed
      /\ UNCHANGED vars
  BY AheadIsBehind DEF GetNextRecEnds
<1>3. owed = {}
  BY <1>2 DEF ScanInv, CursorSplits
<1>4. /\ scan \in [open : BOOLEAN, page : -1 .. MaxPages + 1, slot : {-1} \cup Slots,
                   pageNum : 1 .. MaxPages + 1, wanted : SUBSET Data]
      /\ passed \in Seq(RIDs)
  BY DEF ScanInv, ScanTypeOK
<1>5. ReturnsInOrder'
  BY <1>2 DEF ScanInv, ReturnsInOrder
<1>6. CASE scan' = scan
  BY <1>1, <1>2, <1>3, <1>5, <1>6
     DEF ScanInv, ScanTypeOK, CursorSplits, Behind, vars, AtOrBefore, Precedes
<1>7. CASE scan' = [scan EXCEPT !.page = scan.pageNum, !.slot = -1]
  <2>1. /\ scan'.page = scan.pageNum
        /\ scan'.slot = -1
        /\ scan'.open = scan.open
        /\ scan'.pageNum = scan.pageNum
        /\ scan'.wanted = scan.wanted
    BY <1>4, <1>7
  <2>2. ScanTypeOK'
    <3>1. scan.pageNum \in -1 .. MaxPages + 1
      BY <1>4, MaxPagesAssumption
    <3>2. QED
      BY <1>1, <1>2, <1>3, <1>4, <1>7, <3>1 DEF ScanTypeOK
  <2>3. ASSUME NEW i \in DOMAIN passed
        PROVE  AtOrBefore(passed[i], scan')
    <3>1. passed[i][1] < scan.pageNum
      BY <1>2 DEF ScanInv, CursorSplits
    <3>2. QED
      BY <2>1, <3>1 DEF AtOrBefore, Precedes
  <2>4. CursorSplits'
    BY <1>2, <1>3, <2>1, <2>3 DEF ScanInv, CursorSplits, vars
  <2>5. QED
    BY <1>1, <1>5, <2>2, <2>4 DEF ScanInv
<1>8. QED
  BY <1>6, <1>7 DEF GetNextRecEnds

(* Calls on the file change no identifier, and a record that stops         *)
(* matching is owed no longer.                                             *)
LEMMA FileStep ==
  ASSUME ScanInv, FileCall
  PROVE  ScanInv'
<1>1. /\ IInv'
      /\ header.pageNum <= header'.pageNum
      /\ status' # "closed"
  BY FileGrows DEF ScanInv, FileCall
<1>2. /\ scan' = scan /\ passed' = passed
      /\ owed' = {r \in owed : page'[r[1]].rec[r[2]] \in scan.wanted}
  BY DEF FileCall
<1>3. ScanTypeOK'
  BY <1>1, <1>2 DEF ScanInv, ScanTypeOK, IInv
<1>4. ReturnsInOrder'
  BY <1>2 DEF ScanInv, ReturnsInOrder
<1>5. ASSUME scan.open
      PROVE  owed' \subseteq Behind(scan)' /\ scan.pageNum <= header'.pageNum
  <2>1. owed \subseteq Behind(scan) /\ scan.pageNum <= header.pageNum
    BY <1>5 DEF ScanInv, CursorSplits
  <2>2. /\ scan.pageNum \in Int
        /\ header.pageNum \in Int
        /\ header'.pageNum \in Int
    BY <1>1, MaxPagesAssumption DEF IInv, TypeOK, Header, ScanInv, ScanTypeOK
  <2>3. QED
    BY <1>1, <1>2, <2>1, <2>2 DEF Behind
<1>6. CursorSplits'
  BY <1>1, <1>2, <1>5 DEF ScanInv, CursorSplits, AtOrBefore, Precedes
<1>7. QED
  BY <1>1, <1>3, <1>4, <1>6 DEF ScanInv

LEMMA HandleStep ==
  ASSUME ScanInv, HandleCall
  PROVE  ScanInv'
<1>1. IInv' /\ TypeOK'
  <2>1. [Next]_vars
    BY DEF HandleCall, Next
  <2>2. IInv'
    BY <2>1, NextInv DEF ScanInv
  <2>3. QED
    BY <2>2 DEF IInv
<1>2. ~scan.open /\ UNCHANGED scanVars
  BY DEF HandleCall
<1>3. ScanTypeOK' /\ CursorSplits' /\ ReturnsInOrder'
  BY <1>1, <1>2 DEF ScanInv, ScanTypeOK, CursorSplits, ReturnsInOrder, scanVars
<1>4. QED
  BY <1>1, <1>3 DEF ScanInv

LEMMA ScanInitInv == ScanInit => ScanInv
<1> SUFFICES ASSUME ScanInit PROVE ScanInv
  OBVIOUS
<1>1. IInv /\ TypeOK
  BY InitInv DEF ScanInit, IInv
<1>2. ScanTypeOK /\ CursorSplits /\ ReturnsInOrder
  BY <1>1, MaxPagesAssumption
     DEF ScanInit, NoScan, ScanTypeOK, CursorSplits, ReturnsInOrder
<1>3. QED
  BY <1>1, <1>2 DEF ScanInv

LEMMA ScanNextInv ==
  ASSUME ScanInv, [ScanNext]_allVars
  PROVE  ScanInv'
<1>1. ASSUME NEW wanted \in SUBSET Data, OpenScan(wanted)
      PROVE  ScanInv'
  <2>1. header.pageNum \in 1 .. MaxPages + 1 /\ header.pageNum <= header.pageNum
    BY MaxPagesAssumption DEF ScanInv, IInv, TypeOK, Header
  <2>2. QED
    BY <1>1, <2>1, StartStep DEF OpenScan
<1>2. CASE ResetScan
  <2>1. /\ scan \in [open : BOOLEAN, page : -1 .. MaxPages + 1, slot : {-1} \cup Slots,
                     pageNum : 1 .. MaxPages + 1, wanted : SUBSET Data]
        /\ scan.pageNum <= header.pageNum
    BY <1>2 DEF ResetScan, ScanInv, ScanTypeOK, CursorSplits
  <2>2. scan' = [open |-> TRUE, page |-> -1, slot |-> -1,
                 pageNum |-> scan.pageNum, wanted |-> scan.wanted]
    BY <1>2, <2>1 DEF ResetScan
  <2>3. QED
    BY <1>2, <2>1, <2>2, StartStep DEF ResetScan
<1>3. CASE CloseScan
  BY <1>3, CloseStep
<1>4. ASSUME NEW r \in RIDs, GetNextRec(r)
      PROVE  ScanInv'
  BY <1>4, ReturnStep
<1>5. CASE GetNextRecEnds
  BY <1>5, EndStep
<1>6. CASE FileCall
  BY <1>6, FileStep
<1>7. CASE HandleCall
  BY <1>7, HandleStep
<1>8. CASE UNCHANGED allVars
  <2>1. UNCHANGED <<header, saved, page, status, scan, owed, passed>>
    BY <1>8 DEF allVars
  <2>2. IInv' /\ TypeOK'
    <3>1. [Next]_vars
      BY <2>1 DEF vars
    <3>2. QED
      BY <3>1, NextInv DEF ScanInv, IInv
  <2>3. ScanTypeOK' /\ CursorSplits' /\ ReturnsInOrder'
    BY <2>1, <2>2
       DEF ScanInv, ScanTypeOK, CursorSplits, ReturnsInOrder, Behind, AtOrBefore, Precedes
  <2>4. QED
    BY <2>2, <2>3 DEF ScanInv
<1>9. QED
  BY <1>1, <1>2, <1>3, <1>4, <1>5, <1>6, <1>7, <1>8 DEF ScanNext

-----------------------------------------------------------------------------
(* The theorems                                                            *)

(* The inductive invariant holds throughout every scan of every file.      *)
THEOREM ScanInvariant == ScanSpec => []ScanInv
<1>1. ScanInit => ScanInv
  BY ScanInitInv
<1>2. ScanInv /\ [ScanNext]_allVars => ScanInv'
  BY ScanNextInv
<1>3. QED
  BY <1>1, <1>2, PTL DEF ScanSpec

(* The cursor stays within the file's pages and slots, and what a scan     *)
(* owes and returns are record identifiers of the file.                    *)
THEOREM ScanTypes == ScanSpec => []ScanTypeOK
<1>1. ScanInv => ScanTypeOK
  BY DEF ScanInv
<1>2. QED
  BY <1>1, ScanInvariant, PTL

(* Every scan returns its records in order, so none twice, whatever its    *)
(* caller does to the file between the calls.                              *)
THEOREM ScansReturnInOrder == ScanSpec => []ReturnsInOrder
<1>1. ScanInv => ReturnsInOrder
  BY DEF ScanInv
<1>2. QED
  BY <1>1, ScanInvariant, PTL

(* Every scan that has ended has returned each record that matched when it *)
(* started and went on matching.                                           *)
THEOREM ScansComplete == ScanSpec => []ScanComplete
<1>1. ScanInv => ScanComplete
  <2> SUFFICES ASSUME ScanInv, scan.open, scan.page = scan.pageNum
               PROVE  owed = {}
    BY DEF ScanComplete
  <2>1. owed \subseteq Behind(scan)
    BY DEF ScanInv, CursorSplits
  <2>2. scan.pageNum \in Int
    BY MaxPagesAssumption DEF ScanInv, ScanTypeOK
  <2>3. ASSUME NEW r \in Behind(scan)
        PROVE  FALSE
    <3>1. r \in RIDs /\ r[1] < scan.pageNum /\ Precedes(<<scan.pageNum, scan.slot>>, r)
      BY <2>3 DEF Behind
    <3>2. r[1] \in Int
      BY <3>1, RIDsArePairs
    <3>3. QED
      BY <2>2, <3>1, <3>2 DEF Precedes
  <2>4. QED
    BY <2>1, <2>3
<1>2. QED
  BY <1>1, ScanInvariant, PTL
=============================================================================
