---------------------------- MODULE LayoutProofs ----------------------------
(***************************************************************************)
(* What the other proofs rest on: division and remainder by an arbitrary   *)
(* unit, the operators of ErofsGeometry, what the map of an inode hands    *)
(* out, and the blocks of a directory, for every block size and every      *)
(* inode of an image the library supports.                                 *)
(***************************************************************************)
EXTENDS Directory, TLAPS, WellFoundedInduction

(* Quotient and remainder put a number together again: the nr, base and    *)
(* off of an Accessor.                                                     *)
LEMMA DivMod ==
  ASSUME NEW a \in Nat, NEW b \in Nat \ {0}
  PROVE  /\ a = (b * (a \div b)) + (a % b)
         /\ a % b \in 0 .. b - 1
         /\ a \div b \in Nat
OBVIOUS

(* A larger multiple of a unit is larger by at least one unit.             *)
LEMMA NextMultiple ==
  ASSUME NEW p \in Int, NEW q \in Int, NEW b \in Nat \ {0}, p < q
  PROVE  (b * p) + b <= b * q
<1>1. b * (p + 1) <= b * q
  OBVIOUS
<1>2. b * (p + 1) = (b * p) + b
  OBVIOUS
<1> QED BY <1>1, <1>2

(* There is one way to write a number as a multiple of a unit and an       *)
(* offset below the unit: an address has one block and one offset in it.   *)
LEMMA DivModUnique ==
  ASSUME NEW a \in Nat, NEW b \in Nat \ {0},
         NEW q \in Int, NEW r \in 0 .. b - 1, a = (b * q) + r
  PROVE  q = a \div b /\ r = a % b
<1> DEFINE p == a \div b
           s == a % b
<1>1. a = (b * p) + s /\ s \in 0 .. b - 1 /\ p \in Nat
  BY DivMod
<1> HIDE DEF p, s
<1>2. ~ (p < q)
  <2> SUFFICES ASSUME p < q PROVE FALSE
    OBVIOUS
  <2>1. (b * p) + b <= b * q
    BY <1>1, NextMultiple
  <2> QED BY <1>1, <2>1
<1>3. ~ (q < p)
  <2> SUFFICES ASSUME q < p PROVE FALSE
    OBVIOUS
  <2>1. (b * q) + b <= b * p
    BY <1>1, NextMultiple
  <2> QED BY <1>1, <2>1
<1>4. p = q
  BY <1>1, <1>2, <1>3
<1>5. s = r
  BY <1>1, <1>4
<1> QED BY <1>4, <1>5 DEF p, s

(* Moving on inside a unit keeps the quotient and moves the remainder.     *)
LEMMA MoveInUnit ==
  ASSUME NEW a \in Nat, NEW b \in Nat \ {0}, NEW j \in Nat, j < b - (a % b)
  PROVE  /\ (a + j) \div b = a \div b
         /\ (a + j) % b = (a % b) + j
<1> DEFINE q == a \div b
           r == (a % b) + j
<1>1. a = (b * q) + (a % b) /\ a % b \in 0 .. b - 1 /\ q \in Nat
  BY DivMod
<1>2. r \in 0 .. b - 1 /\ a + j = (b * q) + r
  BY <1>1
<1>3. a + j \in Nat /\ q \in Int
  BY <1>1
<1> HIDE DEF q, r
<1>4. q = (a + j) \div b /\ r = (a + j) % b
  BY <1>2, <1>3, DivModUnique
<1> QED BY <1>4 DEF q, r

(* Rounding a positive length up to blocks: one more than the block of its *)
(* last byte, and never shorter than the length.                           *)
LEMMA RoundUpBlocks ==
  ASSUME NEW n \in Nat \ {0}, NEW b \in Nat \ {0}
  PROVE  /\ (n + b - 1) \div b = ((n - 1) \div b) + 1
         /\ n <= ((n + b - 1) \div b) * b
<1> DEFINE q == (n - 1) \div b
           r == (n - 1) % b
<1>0. n - 1 \in Nat
  OBVIOUS
<1>1. n - 1 = (b * q) + r /\ r \in 0 .. b - 1 /\ q \in Nat
  BY <1>0, DivMod
<1> HIDE DEF q, r
<1>2. n + b - 1 = (b * (q + 1)) + r
  BY <1>1
<1>3. n + b - 1 \in Nat /\ q + 1 \in Int
  BY <1>1
<1>4. q + 1 = (n + b - 1) \div b
  BY <1>1, <1>2, <1>3, DivModUnique
<1>5. n <= (q + 1) * b
  BY <1>1, <1>2
<1> QED BY <1>4, <1>5 DEF q

(* A remainder by a multiple of a unit keeps the unit. *)
LEMMA UnitRemainder ==
  ASSUME NEW u \in Nat \ {0}, NEW b \in Nat \ {0}, NEW m \in Nat
  PROVE  (u * m) % (u * b) = u * (m % b)
<1> DEFINE q == m \div b
           r == m % b
<1>1. m = (b * q) + r /\ r \in 0 .. b - 1 /\ q \in Nat
  BY DivMod
<1> HIDE DEF q, r
<1>2. u * m = ((u * b) * q) + (u * r)
  BY <1>1
<1>3. u * r \in Nat /\ (u * r) + u <= u * b
  <2>1. r < b
    BY <1>1
  <2>2. (u * r) + u <= u * b
    BY <1>1, <2>1, NextMultiple
  <2> QED BY <1>1, <2>2
<1>4. u * b \in Nat \ {0} /\ u * r \in 0 .. (u * b) - 1 /\ u * m \in Nat
  BY <1>3
<1>5. u * r = (u * m) % (u * b)
  <2> DEFINE a == u * m
             w == u * b
             s == u * r
  <2>1. a \in Nat /\ w \in Nat \ {0} /\ s \in 0 .. w - 1 /\ a = (w * q) + s
    BY <1>2, <1>4
  <2> HIDE DEF a, w, s
  <2>2. s = a % w
    BY <2>1, <1>1, DivModUnique
  <2> QED BY <2>2 DEF a, w, s
<1> QED BY <1>5 DEF r

(* A number of whole units. *)
Whole(n, u) == \E m \in Nat : n = u * m

(* What is left of the last unit before the end of a whole number of them. *)
LEMMA WholeRemainder ==
  ASSUME NEW u \in Nat \ {0}, NEW w \in Nat \ {0}, NEW n \in Nat,
         Whole(w, u), Whole(n, u)
  PROVE  n % w \in Nat /\ Whole(n % w, u) /\ (n % w) + u <= w
<1>1. PICK b \in Nat : w = u * b
  BY DEF Whole
<1>2. PICK m \in Nat : n = u * m
  BY DEF Whole
<1>3. b # 0
  BY <1>1
<1>4. n % w = u * (m % b)
  BY <1>1, <1>2, <1>3, UnitRemainder
<1>5. m % b \in 0 .. b - 1
  BY <1>3, DivMod
<1> DEFINE k == m % b
<1> HIDE DEF k
<1>6. k \in Nat /\ b \in Nat /\ k < b
  BY <1>5 DEF k
<1>7. (u * k) + u <= u * b /\ u * k \in Nat
  BY <1>6, NextMultiple
<1> QED BY <1>1, <1>4, <1>6, <1>7 DEF k, Whole

-----------------------------------------------------------------------------
(* Induction, in the form the provers can use: about a set of numbers. *)

LEMMA NatWellFounded == IsWellFoundedOn({p \in Nat \X Nat : p[1] < p[2]}, Nat)
<1>1. OpToRel(<, Nat) = {p \in Nat \X Nat : p[1] < p[2]}
  BY DEF OpToRel
<1> QED BY <1>1, NatLessThanWellFounded

LEMMA LeastNat ==
  ASSUME NEW S, S \subseteq Nat, S # {}
  PROVE  \E m \in S : \A n \in S : m <= n
<1> DEFINE R == {p \in Nat \X Nat : p[1] < p[2]}
<1>1. IsWellFoundedOn(R, Nat)
  BY NatWellFounded
<1> HIDE DEF R
<1>2. PICK m \in S : \A n \in S : ~(<<n, m>> \in R)
  BY <1>1, WFMin
<1> USE DEF R
<1>3. \A n \in S : ~(n < m)
  BY <1>2
<1> QED BY <1>3

LEMMA SetInduction ==
  ASSUME NEW S, 0 \in S, \A n \in Nat : n \in S => n + 1 \in S
  PROVE  Nat \subseteq S
<1> SUFFICES ASSUME Nat \ S # {} PROVE FALSE
  OBVIOUS
<1>1. PICK m \in Nat \ S : \A n \in Nat \ S : m <= n
  BY LeastNat
<1>2. m # 0 /\ m - 1 \in Nat
  BY <1>1
<1>3. m - 1 \in S
  BY <1>1, <1>2
<1> QED BY <1>1, <1>2, <1>3

-----------------------------------------------------------------------------
(* The map of an inode. *)

(* Addresses are numbers. *)
LEMMA AddressTypes ==
  ASSUME NEW i, IsInode(i)
  PROVE  /\ BlkSz \in Nat \ {0}
         /\ ChunkSz(i) \in Nat \ {0}
         /\ InodeSize(i) \in Nat /\ XattrSize(i) \in Nat /\ DiskXattrSize(i) \in Nat
         /\ Iloc(i.nid) \in Nat /\ MetaEnd(i) \in Nat /\ DiskMetaEnd(i) \in Nat
         /\ BlkPos(i.blkaddr) \in Nat
         /\ i.size \in Nat
<1>1. BlkSz \in Nat \ {0} /\ MetaBlkAddr \in Nat
  BY GeometryAssumption
<1>2. i.icount \in Nat /\ i.nid \in Nat /\ i.size \in Nat /\ i.blkaddr \in Nat
        /\ i.chunkblks \in Nat \ {0}
  BY DEF IsInode
<1>3. ChunkSz(i) \in Nat \ {0}
  BY <1>1, <1>2 DEF ChunkSz
<1>4. InodeSize(i) \in Nat
  BY DEF InodeSize
<1>5. XattrSize(i) \in Nat /\ DiskXattrSize(i) \in Nat
  BY <1>2 DEF XattrSize, DiskXattrSize
<1>6. Iloc(i.nid) \in Nat /\ BlkPos(i.blkaddr) \in Nat
  BY <1>1, <1>2 DEF Iloc, BlkPos
<1> QED BY <1>1, <1>2, <1>3, <1>4, <1>5, <1>6 DEF MetaEnd, DiskMetaEnd

(* The code and the format agree on where the metadata of a supported      *)
(* inode ends.                                                             *)
LEMMA SameMetaEnd ==
  ASSUME NEW i, IsInode(i), Supported(i)
  PROVE  MetaEnd(i) = DiskMetaEnd(i)
BY DEF IsInode, Supported, MetaEnd, DiskMetaEnd, XattrSize, DiskXattrSize

(* chunk_map finds the entry of the chunk it looks for: rounding the       *)
(* address of an entry up is the same as rounding that of the table up.    *)
LEMMA ChunkEntryAt ==
  ASSUME NEW i, IsInode(i), MetaEnd(i) = DiskMetaEnd(i), i.layout \in ChunkLayouts,
         NEW offset \in Nat
  PROVE  ChunkAddr(i, offset) = i.table[offset \div ChunkSz(i)]
<1> DEFINE M == MetaEnd(i)
           nr == offset \div ChunkSz(i)
<1>1. M \in Nat /\ ChunkSz(i) \in Nat \ {0}
  BY AddressTypes
<1>2. nr \in Nat
  BY <1>1, DivMod
<1>3. ChunkAddr(i, offset)
        = i.table[(RoundUp(M + ChunkUnit(i) * nr, ChunkUnit(i))
                    - RoundUp(M, ChunkUnit(i))) \div ChunkUnit(i)]
  BY DEF ChunkAddr, ChunkEntryPos, ChunkAccess, Accessor, TableStart
<1> HIDE DEF M, nr
<1>4. CASE ChunkUnit(i) = 4
  <2>1. RoundUp(M + 4 * nr, 4) = RoundUp(M, 4) + 4 * nr
    BY <1>1, <1>2 DEF RoundUp
  <2>2. RoundUp(M, 4) \in Nat
    BY <1>1 DEF RoundUp
  <2>3. (RoundUp(M + 4 * nr, 4) - RoundUp(M, 4)) \div 4 = nr
    BY <1>2, <2>1, <2>2
  <2> QED BY <1>3, <1>4, <2>3 DEF nr
<1>5. CASE ChunkUnit(i) = 8
  <2>1. RoundUp(M + 8 * nr, 8) = RoundUp(M, 8) + 8 * nr
    BY <1>1, <1>2 DEF RoundUp
  <2>2. RoundUp(M, 8) \in Nat
    BY <1>1 DEF RoundUp
  <2>3. (RoundUp(M + 8 * nr, 8) - RoundUp(M, 8)) \div 8 = nr
    BY <1>2, <2>1, <2>2
  <2> QED BY <1>3, <1>5, <2>3 DEF nr
<1> QED BY <1>4, <1>5 DEF ChunkUnit

LEMMA ChunkEntry ==
  ASSUME NEW i, IsInode(i), Supported(i), i.layout \in ChunkLayouts,
         NEW offset \in Nat
  PROVE  ChunkAddr(i, offset) = i.table[offset \div ChunkSz(i)]
BY SameMetaEnd, ChunkEntryAt

-----------------------------------------------------------------------------
(* An extent of the map at an offset is a piece of the file at its place   *)
(* in the image, starting at that offset.                                  *)

Located(i, offset, e) ==
  /\ e.start \in Nat /\ e.len \in Nat \ {0}
  /\ offset + e.len <= i.size
  /\ \A j \in 0 .. e.len - 1 :
       ~Unmapped(i, offset + j) /\ Home(i, offset + j) = e.start + j

(* What flatmap hands out are located bytes, whichever side of the inline  *)
(* tail the offset is on.                                                  *)
LEMMA FlatLocated ==
  ASSUME NEW i, IsInode(i), Supported(i), i.layout \in FlatLayouts,
         NEW offset \in Nat, offset < i.size, ~FlatRefused(i, offset)
  PROVE  Located(i, offset, FlatExtent(i, offset))
<1> DEFINE last == LastBlk(i)
           e == FlatExtent(i, offset)
<1>1. /\ BlkSz \in Nat \ {0} /\ i.size \in Nat \ {0}
      /\ MetaEnd(i) \in Nat /\ BlkPos(i.blkaddr) \in Nat
  BY AddressTypes
<1>2. \A k \in Nat : ~Unmapped(i, k)
  BY DEF FlatRefused, Unmapped, FlatLayouts, ChunkLayouts
<1>3. /\ BlkRoundUp(i.size) = ((i.size - 1) \div BlkSz) + 1
      /\ i.size <= BlkPos(BlkRoundUp(i.size))
  BY <1>1, RoundUpBlocks DEF BlkRoundUp, BlkPos
<1>4. (i.size - 1) \div BlkSz \in Nat
  BY <1>1, DivMod
<1>5. i.layout = "FlatInline" => BlkPos(last) = TailStart(i)
  BY <1>1, <1>3, <1>4 DEF LastBlk, TailStart, BlkPos
<1>6. BlkPos(last) \in Nat
  BY <1>1, <1>3, <1>4 DEF LastBlk, BlkPos
<1>7. CASE InBlocks(i, offset)
  <2>1. /\ e.start = BlkPos(i.blkaddr) + offset
        /\ e.len = Lesser(i.size, BlkPos(last)) - offset
    BY <1>7 DEF FlatExtent
  <2>2. offset < BlkPos(last)
    BY <1>7 DEF InBlocks
  <2>3. e.len \in Nat \ {0} /\ offset + e.len <= i.size /\ offset + e.len <= BlkPos(last)
    BY <1>1, <1>6, <2>1, <2>2 DEF Lesser
  <2>4. ASSUME NEW j \in 0 .. e.len - 1
        PROVE  Home(i, offset + j) = e.start + j
    <3>1. offset + j < BlkPos(last)
      BY <1>6, <2>3
    <3>2. ~(i.layout = "FlatInline" /\ offset + j >= TailStart(i))
      BY <1>5, <1>6, <2>3, <3>1
    <3> QED BY <1>1, <2>1, <3>2 DEF Home, FlatLayouts, ChunkLayouts
  <2> QED BY <1>1, <1>2, <2>1, <2>3, <2>4 DEF Located
<1>8. CASE ~InBlocks(i, offset)
  <2>1. i.layout = "FlatInline" /\ TailStart(i) <= offset
    BY <1>5, <1>6, <1>8 DEF FlatRefused, InBlocks
  <2>2. /\ e.start = DiskMetaEnd(i) + (offset % BlkSz)
        /\ e.len = i.size - offset
    BY <1>8, SameMetaEnd DEF FlatExtent, BlkAccess, Accessor
  <2>3. offset % BlkSz = offset - TailStart(i)
    <3> DEFINE q == (i.size - 1) \div BlkSz
               r == offset - TailStart(i)
    <3>1. TailStart(i) = BlkSz * q /\ q \in Nat
      BY <1>1, <1>4 DEF TailStart, BlkPos
    <3>2. i.size - 1 = (BlkSz * q) + ((i.size - 1) % BlkSz)
            /\ (i.size - 1) % BlkSz \in 0 .. BlkSz - 1
      <4>1. i.size - 1 \in Nat
        BY <1>1
      <4> QED BY <1>1, <4>1, DivMod
    <3> HIDE DEF q
    <3>3. r \in 0 .. BlkSz - 1 /\ offset = (BlkSz * q) + r
      BY <1>1, <2>1, <3>1, <3>2
    <3>4. q \in Int
      BY <3>1
    <3> HIDE DEF r
    <3>5. r = offset % BlkSz
      BY <1>1, <3>3, <3>4, DivModUnique
    <3> QED BY <3>5 DEF r
  <2>4. DiskMetaEnd(i) \in Nat /\ offset % BlkSz \in Nat /\ TailStart(i) \in Nat
    BY <1>1, <1>5, <1>6, <2>1, SameMetaEnd, DivMod
  <2>5. e.start \in Nat /\ e.len \in Nat \ {0} /\ offset + e.len <= i.size
    BY <1>1, <2>2, <2>4
  <2>6. ASSUME NEW j \in 0 .. e.len - 1
        PROVE  Home(i, offset + j) = e.start + j
    <3>1. Home(i, offset + j) = DiskMetaEnd(i) + ((offset + j) - TailStart(i))
      BY <2>1, <2>4, <2>5 DEF Home, ChunkLayouts
    <3> QED BY <2>2, <2>3, <2>4, <3>1
  <2> QED BY <1>2, <2>5, <2>6 DEF Located
<1> QED BY <1>7, <1>8

(* What chunk_map hands out are located bytes: the address comes from the  *)
(* entry of the right chunk, and the length stops at the chunk's end.      *)
LEMMA ChunkLocated ==
  ASSUME NEW i, IsInode(i), Supported(i), i.layout \in ChunkLayouts,
         NEW offset \in Nat, offset < i.size, ~ChunkRefused(i, offset)
  PROVE  Located(i, offset, ChunkExtent(i, offset))
<1> DEFINE C == ChunkSz(i)
           nr == offset \div C
           e == ChunkExtent(i, offset)
<1>1. C \in Nat \ {0} /\ i.size \in Nat /\ BlkSz \in Nat \ {0}
  BY AddressTypes
<1>2. offset = (C * nr) + (offset % C) /\ offset % C \in 0 .. C - 1 /\ nr \in Nat
  BY <1>1, DivMod
<1>3. ChunkAddr(i, offset) = i.table[nr]
  BY ChunkEntry
<1>4. i.table[nr] \in Nat
  <2>1. i.size \in Nat \ {0}
    BY <1>1
  <2>2. Chunks(i) = ((i.size - 1) \div C) + 1 /\ i.size <= Chunks(i) * C
    BY <1>1, <2>1, RoundUpBlocks DEF Chunks
  <2>3. Chunks(i) \in Nat
    <3>1. i.size - 1 \in Nat
      BY <2>1
    <3>2. (i.size - 1) \div C \in Nat
      BY <1>1, <3>1, DivMod
    <3> QED BY <2>2, <3>2
  <2>4. nr < Chunks(i)
    <3> SUFFICES ASSUME Chunks(i) <= nr PROVE FALSE
      BY <1>2, <2>3
    <3> DEFINE n == Chunks(i)
    <3>1. n \in Nat /\ i.size <= n * C /\ n <= nr
      BY <2>2, <2>3
    <3> HIDE DEF n, C, nr
    <3>2. C * n <= C * nr
      <4>1. CASE n = nr
        BY <1>1, <1>2, <4>1
      <4>2. CASE n < nr
        <5>1. (C * n) + C <= C * nr
          BY <1>1, <1>2, <3>1, <4>2, NextMultiple
        <5> QED BY <1>1, <1>2, <3>1, <5>1
      <4> QED BY <1>2, <3>1, <4>1, <4>2
    <3> QED BY <1>1, <1>2, <3>1, <3>2
  <2> QED BY <1>2, <2>3, <2>4 DEF IsInode
<1>5. /\ e.start = BlkPos(i.table[nr]) + (offset % C)
      /\ e.len = IF i.layout = "ChunkIndex"
                   THEN C - (offset % C)
                   ELSE Lesser(C - (offset % C), i.size - offset)
  BY <1>3 DEF ChunkExtent, ChunkAccess, Accessor
<1>6. BlkPos(i.table[nr]) \in Nat
  BY <1>1, <1>4 DEF BlkPos
<1>7. HasSpec(i) /\ i.table[nr] # NullAddr
  BY <1>3 DEF ChunkRefused
<1> HIDE DEF e
<1>8. e.start \in Nat /\ e.len \in Nat \ {0} /\ e.len <= C - (offset % C)
  <2>1. offset % C \in Nat /\ C - (offset % C) \in Nat \ {0}
    BY <1>1, <1>2
  <2>2. i.size - offset \in Nat \ {0}
    BY <1>1
  <2> HIDE DEF C, nr
  <2>3. e.start \in Nat
    BY <1>5, <1>6, <2>1
  <2> QED BY <1>5, <2>1, <2>2, <2>3 DEF Lesser
<1>9. offset + e.len <= i.size
  <2>1. CASE i.layout # "ChunkIndex"
    <3>1. offset % C \in Nat /\ C - (offset % C) \in Nat /\ i.size - offset \in Nat
      BY <1>1, <1>2
    <3>2. e.len <= i.size - offset
      BY <1>5, <2>1, <3>1 DEF Lesser
    <3> QED BY <1>1, <1>8, <3>2
  <2>2. CASE i.layout = "ChunkIndex"
    <3> DEFINE q == i.size \div C
    <3>1. i.size = C * q /\ q \in Nat
      <4>1. i.size = (C * q) + (i.size % C) /\ q \in Nat
        BY <1>1, DivMod
      <4>2. i.size % C = 0
        BY <2>2 DEF Supported
      <4> HIDE DEF q, C
      <4> QED BY <1>1, <4>1, <4>2
    <3>2. offset + e.len = (C * nr) + C
      <4>1. e.len = C - (offset % C)
        BY <1>5, <2>2
      <4> HIDE DEF C, nr
      <4> QED BY <1>1, <1>2, <4>1
    <3> HIDE DEF q, C, nr
    <3>3. nr < q
      <4> SUFFICES ASSUME q <= nr PROVE FALSE
        BY <1>2, <3>1
      <4>1. C * q <= C * nr
        <5>1. CASE q = nr
          BY <1>1, <1>2, <5>1
        <5>2. CASE q < nr
          <6>1. (C * q) + C <= C * nr
            BY <1>1, <1>2, <3>1, <5>2, NextMultiple
          <6> QED BY <1>1, <1>2, <3>1, <6>1
        <5> QED BY <1>2, <3>1, <5>1, <5>2
      <4> QED BY <1>1, <1>2, <3>1, <4>1
    <3>4. (C * nr) + C <= C * q
      BY <1>1, <1>2, <3>1, <3>3, NextMultiple
    <3> QED BY <3>1, <3>2, <3>4
  <2> QED BY <2>1, <2>2
<1>10. ASSUME NEW j \in 0 .. e.len - 1
       PROVE  ~Unmapped(i, offset + j) /\ Home(i, offset + j) = e.start + j
  <2>1. j \in Nat /\ j < C - (offset % C)
    <3>1. C - (offset % C) \in Nat /\ e.len \in Nat /\ e.len <= C - (offset % C)
      BY <1>1, <1>2, <1>8
    <3> HIDE DEF C, nr
    <3> QED BY <3>1
  <2>2. (offset + j) \div C = nr /\ (offset + j) % C = (offset % C) + j
    BY <1>1, <2>1, MoveInUnit
  <2>3. Home(i, offset + j) = BlkPos(i.table[nr]) + ((offset % C) + j)
    BY <2>2 DEF Home
  <2>4. Home(i, offset + j) = e.start + j
    BY <1>2, <1>5, <1>6, <2>1, <2>3
  <2> QED BY <1>7, <2>2, <2>4 DEF Unmapped
<1>11. Located(i, offset, e)
  BY <1>8, <1>9, <1>10 DEF Located
<1> QED BY <1>11 DEF e

(* map refuses the offsets of a file that have no place in the image, and  *)
(* only those: EUCLEAN has a reason.                                       *)
LEMMA RefusedIffUnmapped ==
  ASSUME NEW i, IsInode(i), i.layout \in ChunkLayouts => MetaEnd(i) = DiskMetaEnd(i),
         ~MapTodo(i), NEW offset \in Nat, offset < i.size
  PROVE  MapRefused(i, offset) <=> Unmapped(i, offset)
<1>1. CASE i.layout \in FlatLayouts
  <2>1. /\ BlkSz \in Nat \ {0} /\ i.size \in Nat \ {0}
    BY AddressTypes
  <2>2. i.size <= BlkPos(BlkRoundUp(i.size))
    BY <2>1, RoundUpBlocks DEF BlkRoundUp, BlkPos
  <2>3. BlkPos(BlkRoundUp(i.size)) \in Int
    <3>1. i.size - 1 \in Nat
      BY <2>1
    <3>2. (i.size - 1) \div BlkSz \in Nat
      BY <2>1, <3>1, DivMod
    <3>3. BlkRoundUp(i.size) = ((i.size - 1) \div BlkSz) + 1
      BY <2>1, RoundUpBlocks DEF BlkRoundUp
    <3> QED BY <2>1, <3>2, <3>3 DEF BlkPos
  <2>4. i.layout # "FlatInline" => InBlocks(i, offset)
    BY <2>1, <2>2, <2>3 DEF InBlocks, LastBlk
  <2>5. i.layout \notin ChunkLayouts
    BY <1>1 DEF FlatLayouts, ChunkLayouts
  <2> QED BY <1>1, <2>4, <2>5 DEF MapRefused, FlatRefused, Unmapped
<1>2. CASE i.layout \in ChunkLayouts
  <2>1. i.layout \notin FlatLayouts
    BY <1>2 DEF FlatLayouts, ChunkLayouts
  <2>2. ChunkAddr(i, offset) = i.table[offset \div ChunkSz(i)]
    BY <1>2, ChunkEntryAt
  <2> QED BY <1>2, <2>1, <2>2 DEF MapRefused, ChunkRefused, Unmapped
<1> QED BY <1>1, <1>2 DEF IsInode, MapTodo

LEMMA RefusedUnmapped ==
  ASSUME NEW i, IsInode(i), Supported(i),
         NEW offset \in Nat, offset < i.size, MapRefused(i, offset)
  PROVE  Unmapped(i, offset)
<1>1. ~MapTodo(i)
  BY DEF MapRefused, MapTodo, FlatLayouts, ChunkLayouts, OtherLayouts
<1> QED BY <1>1, SameMetaEnd, RefusedIffUnmapped

(* One turn of the loop over a mapped offset: both iterators move by the   *)
(* same positive length, stay in the file, and yield the file's bytes.     *)
LEMMA YieldExact ==
  ASSUME NEW i, IsInode(i), Supported(i),
         NEW offset \in Nat, offset < i.size,
         ~MapTodo(i), ~MapRefused(i, offset)
  PROVE  LET e == Extent(i, offset)
         IN  /\ e.start \in Nat
             /\ YieldLen(e) = Advance(e)
             /\ Advance(e) \in Nat \ {0}
             /\ offset + Advance(e) <= i.size
             /\ \A j \in 0 .. Advance(e) - 1 :
                  /\ ~Unmapped(i, offset + j)
                  /\ ByteAt(e.start + j) = Home(i, offset + j)
<1> DEFINE e == Extent(i, offset)
<1>1. i.layout \in FlatLayouts \cup ChunkLayouts
  BY DEF MapTodo, IsInode
<1>2. Located(i, offset, e)
  <2>1. CASE i.layout \in FlatLayouts
    BY <2>1, FlatLocated DEF Extent, MapRefused
  <2>2. CASE i.layout \in ChunkLayouts
    <3>1. i.layout \notin FlatLayouts
      BY <2>2 DEF FlatLayouts, ChunkLayouts
    <3> QED BY <2>2, <3>1, ChunkLocated DEF Extent, MapRefused
  <2> QED BY <1>1, <2>1, <2>2
<1> HIDE DEF e
<1>3. BlkSz \in Nat \ {0} /\ i.size \in Nat
  BY AddressTypes
<1>4. e.start \in Nat /\ e.len \in Nat \ {0} /\ offset + e.len <= i.size
  BY <1>2 DEF Located
<1>5. BlkAccess(e.start).len \in Nat \ {0}
  <2>1. e.start % BlkSz \in 0 .. BlkSz - 1
    BY <1>3, <1>4, DivMod
  <2> QED BY <1>3, <2>1 DEF BlkAccess, Accessor
<1>6. Advance(e) \in Nat \ {0} /\ Advance(e) <= e.len /\ YieldLen(e) = Advance(e)
  BY <1>4, <1>5 DEF Advance, YieldLen, Lesser
<1>7. ASSUME NEW j \in 0 .. Advance(e) - 1
      PROVE  ~Unmapped(i, offset + j) /\ ByteAt(e.start + j) = Home(i, offset + j)
  <2>1. j \in 0 .. e.len - 1 /\ offset + j \in 0 .. i.size - 1
    BY <1>3, <1>4, <1>6
  <2>2. ~Unmapped(i, offset + j) /\ Home(i, offset + j) = e.start + j
    BY <1>2, <2>1 DEF Located
  <2>3. Home(i, offset + j) < ImgLen
    BY <2>1, <2>2 DEF Supported
  <2> QED BY <2>2, <2>3 DEF ByteAt
<1>8. offset + Advance(e) <= i.size
  BY <1>3, <1>4, <1>6
<1> QED BY <1>4, <1>6, <1>7, <1>8 DEF e

-----------------------------------------------------------------------------
(* Whole numbers of units. *)

LEMMA WholeExact ==
  ASSUME NEW n \in Nat, NEW u \in Nat \ {0}
  PROVE  n % u = 0 <=> Whole(n, u)
<1>1. ASSUME n % u = 0 PROVE Whole(n, u)
  <2> DEFINE q == n \div u
  <2>1. n = (u * q) + (n % u) /\ q \in Nat
    BY DivMod
  <2> HIDE DEF q
  <2>2. n = u * q
    BY <1>1, <2>1
  <2> QED BY <2>1, <2>2 DEF Whole
<1>2. ASSUME Whole(n, u) PROVE n % u = 0
  <2>1. PICK m \in Nat : n = u * m
    BY <1>2 DEF Whole
  <2>2. n = (u * m) + 0 /\ 0 \in 0 .. u - 1 /\ m \in Int
    BY <2>1
  <2>3. 0 = n % u
    BY <2>2, DivModUnique
  <2> QED BY <2>3
<1> QED BY <1>1, <1>2

LEMMA WholeSum ==
  ASSUME NEW n \in Nat, NEW p \in Nat, NEW u \in Nat \ {0}, Whole(n, u), Whole(p, u)
  PROVE  Whole(n + p, u)
<1>1. PICK a \in Nat : n = u * a
  BY DEF Whole
<1>2. PICK b \in Nat : p = u * b
  BY DEF Whole
<1>3. n + p = u * (a + b) /\ a + b \in Nat
  BY <1>1, <1>2
<1> QED BY <1>3 DEF Whole

LEMMA WholeGap ==
  ASSUME NEW n \in Nat, NEW p \in Nat, NEW u \in Nat \ {0},
         Whole(n, u), Whole(p, u), n < p
  PROVE  n + u <= p
<1>1. PICK a \in Nat : n = u * a
  BY DEF Whole
<1>2. PICK b \in Nat : p = u * b
  BY DEF Whole
<1>3. a < b
  <2> SUFFICES ASSUME b <= a PROVE FALSE
    BY <1>1, <1>2
  <2>1. CASE a = b
    BY <1>1, <1>2, <2>1
  <2>2. CASE b < a
    <3>1. (u * b) + u <= u * a
      BY <1>1, <1>2, <2>2, NextMultiple
    <3> QED BY <1>1, <1>2, <3>1
  <2> QED BY <1>1, <1>2, <2>1, <2>2
<1>4. (u * a) + u <= u * b
  BY <1>1, <1>2, <1>3, NextMultiple
<1> QED BY <1>1, <1>2, <1>4

LEMMA WholeBlock ==
  ASSUME NEW k \in Nat
  PROVE  BlkPos(k) \in Nat /\ Whole(BlkPos(k), BlkSz)
<1>1. BlkSz \in Nat \ {0}
  BY GeometryAssumption
<1>2. BlkPos(k) = BlkSz * k /\ BlkSz * k \in Nat
  BY <1>1 DEF BlkPos
<1> QED BY <1>2 DEF Whole

(* A smaller number has no larger quotient. *)
LEMMA DivMonotone ==
  ASSUME NEW n \in Nat, NEW p \in Nat, NEW u \in Nat \ {0}, n <= p
  PROVE  n \div u <= p \div u
<1> DEFINE a == n \div u
           b == p \div u
<1>1. n = (u * a) + (n % u) /\ n % u \in 0 .. u - 1 /\ a \in Nat
  BY DivMod
<1>2. p = (u * b) + (p % u) /\ p % u \in 0 .. u - 1 /\ b \in Nat
  BY DivMod
<1> SUFFICES ASSUME b < a PROVE FALSE
  BY <1>1, <1>2
<1> HIDE DEF a, b
<1>3. (u * b) + u <= u * a
  BY <1>1, <1>2, NextMultiple
<1> QED BY <1>1, <1>2, <1>3

-----------------------------------------------------------------------------
(* What the iterator over the map yields from the start of a block of a    *)
(* directory: that block.                                                  *)

BlockOf(i, o) == o + Advance(Extent(i, o)) = Lesser(o + BlkSz, i.size)

(* A flat directory: every extent starts at a block's start, but the       *)
(* inline tail, which the format keeps inside a block.                     *)
LEMMA FlatBlock ==
  ASSUME NEW i, IsInode(i), Supported(i), TailInBlock(i), i.layout \in FlatLayouts,
         NEW o \in Nat, o < i.size, Whole(o, BlkSz), ~FlatRefused(i, o)
  PROVE  BlockOf(i, o)
<1> DEFINE e == FlatExtent(i, o)
           last == LastBlk(i)
           n == (i.size - 1) \div BlkSz
<1>1. /\ BlkSz \in Nat \ {0} /\ i.size \in Nat \ {0} /\ i.blkaddr \in Nat
      /\ MetaEnd(i) \in Nat /\ MetaEnd(i) = DiskMetaEnd(i)
  BY AddressTypes, SameMetaEnd DEF IsInode
<1>2. Extent(i, o) = e
  BY DEF Extent
<1>3. n \in Nat /\ i.size - 1 = (BlkSz * n) + ((i.size - 1) % BlkSz)
        /\ (i.size - 1) % BlkSz \in 0 .. BlkSz - 1
  <2>1. i.size - 1 \in Nat
    BY <1>1
  <2> QED BY <1>1, <2>1, DivMod
<1>4. BlkRoundUp(i.size) = n + 1 /\ i.size <= BlkPos(n + 1)
  BY <1>1, RoundUpBlocks DEF BlkRoundUp, BlkPos
<1>5. TailStart(i) = BlkPos(n)
  BY DEF TailStart
<1> HIDE DEF n
<1>6. BlkPos(n) \in Nat /\ Whole(BlkPos(n), BlkSz) /\ BlkPos(n) = BlkSz * n
        /\ BlkPos(n + 1) \in Nat
  <2>1. n + 1 \in Nat
    BY <1>3
  <2> QED BY <1>1, <1>3, <2>1, WholeBlock DEF BlkPos
<1>7. BlkPos(n) < i.size
  BY <1>1, <1>3, <1>6
<1>8. CASE InBlocks(i, o)
  <2>1. e.start = BlkPos(i.blkaddr) + o /\ e.len = Lesser(i.size, BlkPos(last)) - o
    BY <1>8 DEF FlatExtent
  <2>2. e.start \in Nat /\ e.start % BlkSz = 0
    <3>1. BlkPos(i.blkaddr) \in Nat /\ Whole(BlkPos(i.blkaddr), BlkSz)
      BY <1>1, WholeBlock
    <3>2. Whole(BlkPos(i.blkaddr) + o, BlkSz)
      BY <1>1, <3>1, WholeSum
    <3> QED BY <1>1, <2>1, <3>1, <3>2, WholeExact
  <2>3. Advance(e) = Lesser(e.len, BlkSz)
    BY <1>1, <2>2 DEF Advance, BlkAccess, Accessor
  <2>4. CASE i.layout = "FlatInline"
    <3>1. BlkPos(last) = BlkPos(n) /\ o < BlkPos(n)
      BY <1>3, <1>4, <1>8, <2>4 DEF LastBlk, InBlocks
    <3>2. e.len = BlkPos(n) - o
      BY <1>1, <1>6, <1>7, <2>1, <3>1 DEF Lesser
    <3>3. o + BlkSz <= BlkPos(n)
      BY <1>1, <1>6, <3>1, WholeGap
    <3> HIDE DEF e
    <3> QED BY <1>1, <1>2, <1>6, <1>7, <2>3, <3>2, <3>3 DEF BlockOf, Lesser
  <2>5. CASE i.layout # "FlatInline"
    <3>1. BlkPos(last) = BlkPos(n + 1)
      BY <1>4, <2>5 DEF LastBlk
    <3>2. e.len = i.size - o
      BY <1>1, <1>4, <1>6, <2>1, <3>1 DEF Lesser
    <3> HIDE DEF e
    <3> QED BY <1>1, <1>2, <2>3, <3>2 DEF BlockOf, Lesser
  <2> QED BY <2>4, <2>5
<1>9. CASE ~InBlocks(i, o)
  <2>1. i.layout = "FlatInline"
    BY <1>9 DEF FlatRefused
  <2>2. BlkPos(n) <= o
    <3>1. last = n
      BY <1>3, <1>4, <2>1 DEF LastBlk
    <3> QED BY <1>6, <1>9, <3>1 DEF InBlocks
  <2>3. o = BlkPos(n)
    <3> SUFFICES ASSUME BlkPos(n) < o PROVE FALSE
      BY <1>6, <2>2
    <3>1. BlkPos(n) + BlkSz <= o
      BY <1>1, <1>6, WholeGap
    <3>2. i.size <= BlkPos(n) + BlkSz
      BY <1>1, <1>3, <1>6
    <3> QED BY <1>1, <1>6, <3>1, <3>2
  <2>4. o % BlkSz = 0
    BY <1>1, WholeExact
  <2>5. e.start = MetaEnd(i) /\ e.len = i.size - o
    BY <1>1, <1>9, <2>4 DEF FlatExtent, BlkAccess, Accessor
  <2>6. (MetaEnd(i) % BlkSz) + (i.size - o) <= BlkSz
    BY <1>1, <1>5, <2>1, <2>3 DEF TailInBlock, BlkAccess, Accessor
  <2>7. MetaEnd(i) % BlkSz \in 0 .. BlkSz - 1
    BY <1>1, DivMod
  <2>8. e.len <= BlkAccess(e.start).len /\ e.len <= BlkSz
    BY <1>1, <2>5, <2>6, <2>7 DEF BlkAccess, Accessor
  <2>9. Advance(e) = i.size - o
    BY <2>5, <2>8 DEF Advance, Lesser
  <2> HIDE DEF e
  <2> QED BY <1>1, <1>2, <2>5, <2>8, <2>9 DEF BlockOf, Lesser
<1> QED BY <1>8, <1>9

(* A chunked directory: chunks are whole blocks of the image.              *)
LEMMA ChunkBlock ==
  ASSUME NEW i, IsInode(i), Supported(i), i.layout \in ChunkLayouts,
         NEW o \in Nat, o < i.size, Whole(o, BlkSz), ~ChunkRefused(i, o)
  PROVE  BlockOf(i, o)
<1> DEFINE e == ChunkExtent(i, o)
           C == ChunkSz(i)
           r == o % C
           addr == ChunkAddr(i, o)
<1>1. BlkSz \in Nat \ {0} /\ C \in Nat \ {0} /\ i.size \in Nat /\ i.chunkblks \in Nat
  BY AddressTypes DEF IsInode
<1>2. Extent(i, o) = e
  BY DEF Extent, FlatLayouts, ChunkLayouts
<1>3. Whole(C, BlkSz)
  BY <1>1 DEF Whole, ChunkSz
<1>4. r \in Nat /\ Whole(r, BlkSz) /\ r + BlkSz <= C
  BY <1>1, <1>3, WholeRemainder
<1>5. e.start = BlkPos(addr) + r
        /\ e.len = IF i.layout = "ChunkIndex" THEN C - r ELSE Lesser(C - r, i.size - o)
  BY DEF ChunkExtent, ChunkAccess, Accessor
<1>6. addr \in Nat
  <2>1. Located(i, o, e)
    BY ChunkLocated
  <2>2. ChunkAddr(i, o) = i.table[o \div C]
    BY ChunkEntry
  <2>3. o \div C <= (i.size - 1) \div C /\ o \div C \in Nat /\ (i.size - 1) \div C \in Nat
    <3>1. o <= i.size - 1 /\ i.size - 1 \in Nat
      BY <1>1
    <3> QED BY <1>1, <3>1, DivMonotone, DivMod
  <2>4. Chunks(i) = ((i.size - 1) \div C) + 1
    <3>1. i.size \in Nat \ {0}
      BY <1>1
    <3> QED BY <1>1, <3>1, RoundUpBlocks DEF Chunks
  <2> HIDE DEF C
  <2>5. o \div C \in 0 .. Chunks(i) - 1
    BY <2>3, <2>4
  <2> QED BY <2>2, <2>5 DEF IsInode
<1>7. e.start \in Nat /\ e.start % BlkSz = 0
  <2>1. BlkPos(addr) \in Nat /\ Whole(BlkPos(addr), BlkSz)
    BY <1>6, WholeBlock
  <2>2. Whole(BlkPos(addr) + r, BlkSz)
    BY <1>1, <1>4, <2>1, WholeSum
  <2> QED BY <1>1, <1>4, <1>5, <2>1, <2>2, WholeExact
<1>8. Advance(e) = Lesser(e.len, BlkSz)
  BY <1>1, <1>7 DEF Advance, BlkAccess, Accessor
<1>9. CASE i.layout = "ChunkIndex"
  <2>1. Whole(i.size, BlkSz)
    <3>1. i.size % C = 0
      BY <1>9 DEF Supported
    <3>2. PICK q \in Nat : i.size = C * q
      BY <1>1, <3>1, WholeExact DEF Whole
    <3>3. PICK b \in Nat : C = BlkSz * b
      BY <1>3 DEF Whole
    <3> HIDE DEF C
    <3>4. i.size = BlkSz * (b * q) /\ b * q \in Nat
      BY <1>1, <3>2, <3>3
    <3> QED BY <3>4 DEF Whole
  <2>2. o + BlkSz <= i.size
    BY <1>1, <2>1, WholeGap
  <2>3. e.len = C - r
    BY <1>5, <1>9
  <2> HIDE DEF e, C, r
  <2> QED BY <1>1, <1>2, <1>4, <1>8, <2>2, <2>3 DEF BlockOf, Lesser
<1>10. CASE i.layout # "ChunkIndex"
  <2>1. e.len = Lesser(C - r, i.size - o)
    BY <1>5, <1>10
  <2> HIDE DEF e, C, r
  <2> QED BY <1>1, <1>2, <1>4, <1>8, <2>1 DEF BlockOf, Lesser
<1> QED BY <1>9, <1>10

(* A directory of any layout. *)
LEMMA BlockStep ==
  ASSUME NEW d, WellStored(d), NEW o \in Nat, o < d.inode.size, Whole(o, BlkSz),
         ~MapRefused(d.inode, o)
  PROVE  BlockOf(d.inode, o)
<1>1. IsDirectory(d) /\ TailInBlock(d.inode) /\ Supported(d.inode)
  BY DEF WellStored
<1>2. IsInode(d.inode) /\ d.inode.layout \in FlatLayouts \cup ChunkLayouts
  BY <1>1 DEF IsDirectory
<1> QED BY <1>1, <1>2, FlatBlock, ChunkBlock DEF MapRefused

(* The block a buffer starts is one of the directory's. *)
LEMMA BlockTypes ==
  ASSUME NEW d, WellStored(d)
  PROVE  /\ BlkSz \in Nat \ {0} /\ d.inode.size \in Nat \ {0}
         /\ \A o \in 0 .. d.inode.size - 1 :
              /\ o \div BlkSz \in 0 .. Len(d.blocks) - 1
              /\ Total(d, o \div BlkSz) \in Nat
<1>1. IsDirectory(d)
  BY DEF WellStored
<1>2. BlkSz \in Nat \ {0} /\ d.inode.size \in Nat \ {0}
  BY <1>1, GeometryAssumption DEF IsDirectory, IsInode
<1>3. d.blocks \in Seq([ents : Seq(STRING), pad : BOOLEAN])
        /\ Len(d.blocks) = BlkRoundUp(d.inode.size)
  BY <1>1 DEF IsDirectory
<1>4. Len(d.blocks) = ((d.inode.size - 1) \div BlkSz) + 1
  BY <1>2, <1>3, RoundUpBlocks DEF BlkRoundUp
<1>5. ASSUME NEW o \in 0 .. d.inode.size - 1
      PROVE  /\ o \div BlkSz \in 0 .. Len(d.blocks) - 1
             /\ Total(d, o \div BlkSz) \in Nat
  <2>1. o \in Nat /\ d.inode.size - 1 \in Nat /\ o <= d.inode.size - 1
    BY <1>2
  <2>2. o \div BlkSz <= (d.inode.size - 1) \div BlkSz
          /\ o \div BlkSz \in Nat /\ (d.inode.size - 1) \div BlkSz \in Nat
    BY <1>2, <2>1, DivMonotone, DivMod
  <2> DEFINE b == o \div BlkSz
  <2> HIDE DEF b
  <2>3. b \in 0 .. Len(d.blocks) - 1
    BY <1>4, <2>2 DEF b
  <2>4. b + 1 \in 1 .. Len(d.blocks)
    BY <1>3, <2>3
  <2>5. d.blocks[b + 1].ents \in Seq(STRING)
    <3> DEFINE s == d.blocks
               k == b + 1
               R == [ents : Seq(STRING), pad : BOOLEAN]
    <3>1. s \in Seq(R) /\ k \in 1 .. Len(s)
      BY <1>3, <2>4
    <3> HIDE DEF s, k, R
    <3>2. s[k] \in R
      BY <3>1
    <3> QED BY <3>2 DEF s, k, R
  <2>6. Total(d, b) \in Nat
    BY <2>5 DEF Total
  <2> QED BY <2>3, <2>6 DEF b
<1> QED BY <1>2, <1>5

(* The block that reaches the end of the data is the last. *)
LEMMA EndBlock ==
  ASSUME NEW d, WellStored(d), NEW b \in Nat, BlkSz * b < d.inode.size,
         d.inode.size <= (BlkSz * b) + BlkSz
  PROVE  b + 1 = Len(d.blocks)
<1> DEFINE r == d.inode.size - 1 - (BlkSz * b)
<1>1. IsDirectory(d) /\ BlkSz \in Nat \ {0} /\ d.inode.size \in Nat \ {0}
  BY BlockTypes DEF WellStored
<1>2. Len(d.blocks) = ((d.inode.size - 1) \div BlkSz) + 1
  BY <1>1, RoundUpBlocks DEF IsDirectory, BlkRoundUp
<1>3. BlkSz * b \in Nat
  BY <1>1
<1>4. r \in 0 .. BlkSz - 1 /\ d.inode.size - 1 = (BlkSz * b) + r /\ d.inode.size - 1 \in Nat
  BY <1>1, <1>3
<1> HIDE DEF r
<1>5. b \in Int
  OBVIOUS
<1>6. b = (d.inode.size - 1) \div BlkSz
  BY <1>1, <1>4, <1>5, DivModUnique
<1> QED BY <1>2, <1>6

(* A block of a directory holds an entry, and room for its descriptors.    *)
LEMMA BlockShape ==
  ASSUME NEW d, WellStored(d), NEW b \in 0 .. Len(d.blocks) - 1
  PROVE  /\ Len(d.blocks) \in Nat
         /\ Total(d, b) \in Nat \ {0}
         /\ DescSize * Total(d, b) < BlkSz
         /\ \A k \in 0 .. Total(d, b) - 1 : Entry(d, b, k) \in STRING
<1> DEFINE R == [ents : Seq(STRING), pad : BOOLEAN]
           s == d.blocks
           room == Lesser(BlkSz, d.inode.size - BlkPos(b))
<1>1. IsDirectory(d) /\ BlkSz \in Nat \ {0}
  BY GeometryAssumption DEF WellStored
<1>2. s \in Seq(R) /\ d.inode.size \in Nat
  BY <1>1 DEF IsDirectory, IsInode
<1>3. b + 1 \in 1 .. Len(s) /\ (b + 1) - 1 = b /\ b \in Nat
  BY <1>2
<1>4. Len(s[b + 1].ents) > 0 /\ DescSize * Len(s[b + 1].ents) < room
  BY <1>1, <1>3 DEF IsDirectory
<1>5. room <= BlkSz
  <2>1. BlkPos(b) \in Nat
    BY <1>3, WholeBlock
  <2> QED BY <1>1, <1>2, <2>1 DEF Lesser
<1>6. s[b + 1].ents \in Seq(STRING)
  <2> HIDE DEF R, s
  <2>1. s[b + 1] \in R
    BY <1>2, <1>3
  <2> QED BY <2>1 DEF R
<1>7. Total(d, b) \in Nat \ {0} /\ DescSize * Total(d, b) < BlkSz
  <2> DEFINE n == Len(s[b + 1].ents)
  <2>1. n \in Nat /\ n > 0 /\ DescSize * n < room /\ room \in Int
    <3>1. BlkPos(b) \in Nat
      BY <1>3, WholeBlock
    <3>2. room \in Int
      BY <1>1, <1>2, <3>1 DEF Lesser
    <3>3. n \in Nat
      <4> HIDE DEF s, R
      <4> QED BY <1>6
    <3>4. n > 0 /\ DescSize * n < room
      <4> HIDE DEF room
      <4> QED BY <1>4
    <3> HIDE DEF n, room
    <3> QED BY <3>2, <3>3, <3>4
  <2> HIDE DEF n, room
  <2>2. n \in Nat \ {0} /\ DescSize * n < BlkSz
    BY <1>1, <1>5, <2>1 DEF DescSize
  <2> QED BY <2>2 DEF n, Total
<1>8. ASSUME NEW k \in 0 .. Total(d, b) - 1 PROVE Entry(d, b, k) \in STRING
  <2> DEFINE e == s[b + 1].ents
  <2>1. e \in Seq(STRING) /\ k \in 0 .. Len(e) - 1
    BY <1>6 DEF Total
  <2> HIDE DEF e
  <2>2. e[k + 1] \in STRING
    BY <2>1
  <2> QED BY <2>2 DEF e, Entry
<1> QED BY <1>2, <1>7, <1>8
=============================================================================
