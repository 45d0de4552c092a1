------------------------------- MODULE BitMap --------------------------------
(***************************************************************************)
(* MyBitMap (filesystem/utils/MyBitMap.h): a set of numbers, kept as words *)
(* of bits, and above them a word with a bit for each word below that is   *)
(* not 0, so that the least number is found by looking at two words.       *)
(*                                                                         *)
(* init builds more levels only if there are more words than bits in a     *)
(* word.  The program's map of file ids has 4 words of 32 bits.            *)
(***************************************************************************)
EXTENDS Integers, FiniteSetsExt

CONSTANTS
  NumWords,  \* size: the words of the map
  WordBits   \* LEAF_BIT

ASSUME WordsAssumption ==
  /\ WordBits \in Nat \ {0}
  /\ NumWords \in 1 .. WordBits

Words == 0 .. NumWords - 1
Bits  == 0 .. WordBits - 1
Numbers == 0 .. NumWords * WordBits - 1

(* A word is the set of its bits that are 1.                               *)
BitMaps == [data : [Words -> SUBSET Bits], inner : SUBSET Words]

(* getPos.                                                                 *)
Pos(number) == number \div WordBits
Bit(number) == number % WordBits

(* The constructor with k = 1, and init.                                   *)
AllOnes == [data |-> [w \in Words |-> Bits], inner |-> Words]

(* What the map holds.                                                     *)
Elements(map) == {number \in Numbers : Bit(number) \in map.data[Pos(number)]}

(* h[_hash(lowbit(word))]: the place of the lowest bit.  The powers of two *)
(* below 2^32 differ modulo 61 and none is 0, so that h[0] is 0: this is   *)
(* the answer for a word without bits.                                     *)
LowBit(word) == IF word = {} THEN 0 ELSE Min(word)

(* setLeafBit.                                                             *)
SetLeafBit(data, number, k) ==
  [data EXCEPT ![Pos(number)] = IF k = 1 THEN @ \cup {Bit(number)} ELSE @ \ {Bit(number)}]

(* A mutant: the bit of a word that becomes 0 stays.                       *)
UpdateInnerKeepsBit(inner, data, w) ==
  IF data[w] = {} THEN inner ELSE inner \cup {w}

(* updateInner at the root: the bit of a word is whether it is not 0.      *)
UpdateInner(inner, data, w) ==
  IF data[w] = {} THEN inner \ {w} ELSE inner \cup {w}

SetBit(map, number, k) ==
  LET data == SetLeafBit(map.data, number, k) IN
  [data |-> data, inner |-> UpdateInner(map.inner, data, Pos(number))]

FindLeftOne(map) ==
  LET w == LowBit(map.inner) IN w * WordBits + LowBit(map.data[w])

(* What init builds and setBit keeps: the inner word tells which words     *)
(* hold a number.                                                          *)
InnerMatches(map) == map.inner = {w \in Words : map.data[w] # {}}

=============================================================================
