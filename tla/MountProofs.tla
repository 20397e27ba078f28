---------------------------- MODULE MountProofs ----------------------------
(***************************************************************************)
(* Proofs about Mount, for every block size that is a multiple of a slot,  *)
(* every image and both kinds of buffers.                                  *)
(***************************************************************************)
EXTENDS Mount, LayoutProofs

(* Where the table of devices starts, and its length, as the code has them *)
(* before the products.                                                    *)
FirstSlot == AsOff(Sb.devt_slotoff)
Slots == AsOff(Sb.extra_devices)

LEMMA OffSizes ==
  /\ OffSize \in Nat /\ OffSize >= 16777216 /\ OffSize % 4 = 0
  /\ Half \in Nat /\ Half >= 8388608 /\ Half + Half <= OffSize
<1>1. OffSize \in Nat /\ OffSize >= 16777216 /\ OffSize % 4 = 0
  BY MountAssumption
<1>2. Half \in Nat /\ Half >= 8388608 /\ Half + Half <= OffSize
  BY <1>1 DEF Half
<1> QED BY <1>1, <1>2

Byte == 0 .. 255
Short == Signed(16)
Wide == -Half .. Half - 1

LEMMA Sixteen ==
  /\ 0 \in Short
  /\ \A x \in Short : x \in Int /\ -32768 <= x /\ x <= 32767
<1> DEFINE w == 2 ^ (16 - 1)
<1>1. w = 32768
  OBVIOUS
<1>2. Short = -w .. w - 1
  BY DEF Short, Signed
<1> HIDE DEF w
<1>3. 0 \in -w .. w - 1 /\ \A x \in -w .. w - 1 : x \in Int /\ -32768 <= x /\ x <= 32767
  BY <1>1
<1> QED BY <1>2, <1>3

LEMMA WideFacts ==
  /\ 0 \in Wide
  /\ \A x \in Short : x \in Wide
BY Sixteen, OffSizes DEF Wide

(* A field that was made an Off: where it is negative it is in the half    *)
(* that no file and no memory reaches.                                     *)
LEMMA AsOffFacts ==
  ASSUME NEW x \in Wide
  PROVE  /\ AsOff(x) \in 0 .. OffSize - 1
         /\ x >= 0 => AsOff(x) = x
         /\ x < 0 => AsOff(x) >= Half
BY OffSizes DEF AsOff, Wide

(* The fields, within the ranges of their types. *)
InRange(sb) ==
  /\ sb.xattr_prefix_start \in Wide
  /\ sb.xattr_prefix_count \in Byte
  /\ sb.devt_slotoff \in Short /\ sb.extra_devices \in Short

LEMMA FieldsInRange ==
  ASSUME image \in Images
  PROVE  InRange(Sb) /\ image.len \in 0 .. Half /\ image.len % 4 = 0
<1>1. IsImage(image)
  BY MountAssumption
<1>2. InRange(image) /\ image.len \in 0 .. Half /\ image.len % 4 = 0
  BY <1>1 DEF IsImage, InRange, Wide, Short, Byte
<1>3. InRange(Zeros)
  BY Sixteen, WideFacts DEF InRange, Zeros, Byte
<1>4. Sb = image \/ Sb = Zeros
  BY DEF Sb
<1> QED BY <1>2, <1>3, <1>4, Zenon

(* The superblock that was read holds numbers, and so do the offsets made  *)
(* of them.                                                                *)
LEMMA SbTypes ==
  ASSUME image \in Images
  PROVE  /\ PrefixStart \in Nat /\ Sb.xattr_prefix_count \in Nat
         /\ FirstSlot \in Nat /\ Slots \in Nat
         /\ image.len \in Nat /\ image.len % 4 = 0
<1>1. \A x \in Short : x \in Wide
  BY WideFacts
<1>2. \A x \in Wide : AsOff(x) \in Nat
  BY AsOffFacts, OffSizes
<1>3. InRange(Sb) /\ image.len \in 0 .. Half /\ image.len % 4 = 0
  BY FieldsInRange
<1>4. FirstSlot \in Nat /\ Slots \in Nat /\ PrefixStart \in Nat
  BY <1>1, <1>2, <1>3 DEF InRange, PrefixStart, FirstSlot, Slots
<1>5. Sb.xattr_prefix_count \in Nat /\ image.len \in Nat
  BY <1>3, OffSizes DEF InRange, Byte
<1> QED BY <1>3, <1>4, <1>5

LEMMA SizeTypes ==
  ASSUME image \in Images, NEW a \in Nat
  PROVE  SizeAt(a) \in Nat
<1>1. \A c \in DOMAIN image.sizes : image.sizes[c] \in Nat
  BY MountAssumption DEF IsImage
<1> QED BY <1>1 DEF SizeAt

(* A piece of the range is neither empty nor more than the range, and is   *)
(* made of whole units where the range and the blocks are.                 *)
LEMMA PieceFacts ==
  ASSUME it \in Nat, left \in Nat, left > 0
  PROVE  /\ Piece \in Nat /\ Piece > 0 /\ Piece <= left /\ Piece <= BlkSz
         /\ \A u \in Nat \ {0} :
              Whole(BlkSz, u) /\ Whole(it, u) /\ Whole(left, u) => Whole(Piece, u)
<1> DEFINE rest == BlkSz - (it % BlkSz)
<1>1. BlkSz \in Nat \ {0}
  BY GeometryAssumption
<1>2. it % BlkSz \in 0 .. BlkSz - 1
  BY <1>1, DivMod
<1>3. rest \in Nat /\ rest > 0 /\ rest <= BlkSz
  BY <1>1, <1>2
<1>4. Piece = IF rest <= left THEN rest ELSE left
  BY DEF Piece, BlkAccess, Accessor, Lesser
<1>5. ASSUME NEW u \in Nat \ {0}, Whole(BlkSz, u), Whole(it, u)
      PROVE  Whole(rest, u)
  <2>1. PICK b \in Nat : BlkSz = u * b
    BY <1>5 DEF Whole
  <2>2. PICK m \in Nat : it = u * m
    BY <1>5 DEF Whole
  <2>3. b # 0
    BY <2>1, <1>1
  <2>4. it % BlkSz = u * (m % b)
    BY <2>1, <2>2, <2>3, UnitRemainder
  <2>5. m % b \in 0 .. b - 1
    BY <2>3, DivMod
  <2> DEFINE k == m % b
  <2> HIDE DEF k
  <2>6. (u * b) - (u * k) = u * (b - k)
    BY <2>5 DEF k
  <2>7. b - k \in Nat
    BY <2>5 DEF k
  <2> QED BY <2>1, <2>4, <2>6, <2>7 DEF k, Whole
<1> HIDE DEF rest
<1>6. ASSUME NEW u \in Nat \ {0}, Whole(BlkSz, u), Whole(it, u), Whole(left, u)
      PROVE  Whole(Piece, u)
  BY <1>4, <1>5, <1>6
<1>7. Piece \in Nat /\ Piece > 0 /\ Piece <= left /\ Piece <= BlkSz
  BY <1>1, <1>3, <1>4
<1> QED BY <1>6, <1>7

LEMMA WholeFour ==
  ASSUME NEW n \in Nat
  PROVE  Whole(n, 4) <=> n % 4 = 0
<1>1. ASSUME n % 4 = 0 PROVE Whole(n, 4)
  <2>1. n = 4 * (n \div 4) /\ n \div 4 \in Nat
    BY <1>1
  <2> QED BY <2>1 DEF Whole
<1>2. ASSUME Whole(n, 4) PROVE n % 4 = 0
  BY <1>2 DEF Whole
<1> QED BY <1>1, <1>2

LEMMA BlockUnits == Whole(BlkSz, 4) /\ Whole(BlkSz, 128)
<1>1. BlkSz \in Nat /\ BlkSz % 128 = 0
  BY GeometryAssumption, MountAssumption DEF SlotSize
<1>2. BlkSz = 128 * (BlkSz \div 128) /\ BlkSz \div 128 \in Nat
  BY <1>1
<1> DEFINE k == BlkSz \div 128
<1> HIDE DEF k
<1>3. k \in Nat /\ 32 * k \in Nat /\ BlkSz = 128 * k /\ BlkSz = 4 * (32 * k)
  BY <1>2 DEF k
<1> QED BY <1>3 DEF Whole

-----------------------------------------------------------------------------
(* The inductive invariant. *)

Types ==
  /\ image \in Images /\ mapped \in BOOLEAN
  /\ phase \in Ends \cup {"superblock", "prefixes", "infix", "devices", "slot"}
  /\ it \in Nat /\ it < OffSize /\ left \in Nat
  /\ at \in Nat /\ len \in Nat /\ cur \in Nat
  /\ infixes \in Seq([at: Nat, len: Nat])
  /\ specs \in Seq(Nat)

Before == {"superblock", "prefixes", "infix"}

(* The loop over the prefixes covers the table and nothing else. *)
TableRange ==
  /\ phase \in Before => specs = <<>>
  /\ phase = "superblock" => infixes = <<>>
  /\ phase \in {"prefixes", "infix"} =>
       it + left = PrefixStart + PrefixLen /\ PrefixStart <= it
  /\ phase = "infix" => Sb.xattr_prefix_count > 0 /\ at + len <= it

(* An aligned table is left neither by the loop over a buffer nor,         *)
(* therefore, by the one over the buffers.                                 *)
Caught ==
  PrefixStart % 4 = 0 =>
    /\ phase = "prefixes" => it = PrefixStart /\ left = PrefixLen
    /\ phase = "infix" => len % 4 = 0 /\ cur % 4 = 0 /\ cur <= len
    /\ phase \in {"devices", "slot", "mounted"} => Sb.xattr_prefix_count = 0

(* Where the last prefix ends. *)
LastEnd ==
  IF infixes = <<>> THEN PrefixStart
  ELSE infixes[Len(infixes)].at + infixes[Len(infixes)].len

Behind ==
  /\ InfixesInTable
  /\ phase = "prefixes" => LastEnd <= it
  /\ phase = "infix" => LastEnd <= at + cur /\ LastEnd <= it

(* The first slot that is not in specs is the one the loop is at, or one   *)
(* the image ends before.                                                  *)
NextSlot == SlotAt(Len(specs) + 1)

SlotRange ==
  /\ phase \in {"devices", "slot", "mounted"} => ~Overflows
  /\ \A k \in 1 .. Len(specs) : specs[k] = SlotAt(k)
  /\ phase \in {"devices", "slot", "mounted"} =>
       it + left = DevicesAt + DevicesLen /\ Whole(it, 128) /\ NextSlot <= it
  /\ phase \in {"devices", "mounted"} =>
       it = NextSlot \/ (mapped /\ image.len < NextSlot + 128)
  /\ phase = "slot" =>
       /\ at + cur = NextSlot /\ at <= it
       /\ len = it - at \/ (mapped /\ len = image.len - at)
       /\ len <= it - at
  /\ phase = "mounted" => left = 0

Inv == Types /\ TableRange /\ Caught /\ Behind /\ SlotRange /\ PanicCauses

(* The image is one for the whole mount, and so is all it decides. *)
LEMMA SameTable ==
  ASSUME image' = image
  PROVE  Sb' = Sb /\ PrefixLen' = PrefixLen /\ PrefixStart' = PrefixStart
BY DEF Sb, PrefixLen, PrefixStart

LEMMA SameSlots ==
  ASSUME image' = image
  PROVE  /\ DevicesAt' = DevicesAt /\ DevicesLen' = DevicesLen /\ Overflows' = Overflows
         /\ Sb' = Sb
         /\ \A k : SlotAt(k)' = SlotAt(k)
BY DEF Sb, DevicesAt, DevicesLen, SlotAt, Overflows

LEMMA TableNumbers ==
  ASSUME image \in Images
  PROVE  /\ PrefixStart \in Nat /\ Sb.xattr_prefix_count \in Nat
         /\ PrefixLen \in Nat /\ PrefixLen = 4 * Sb.xattr_prefix_count
BY SbTypes DEF PrefixLen

LEMMA SlotNumbers ==
  ASSUME image \in Images
  PROVE  /\ DevicesAt = 128 * FirstSlot /\ DevicesAt \in Nat
         /\ DevicesLen = 128 * Slots /\ DevicesLen \in Nat
         /\ \A k \in Nat : SlotAt(k + 1) = 128 * (FirstSlot + k)
BY SbTypes DEF DevicesAt, DevicesLen, SlotAt, SlotSize, FirstSlot, Slots

(* The products overflow where a field is negative, and only there; where  *)
(* they do not, the whole table has addresses.                             *)
LEMMA OverflowsIff ==
  ASSUME image \in Images
  PROVE  /\ Overflows <=> Sb.devt_slotoff < 0 \/ Sb.extra_devices < 0
         /\ ~Overflows => /\ Slots = Sb.extra_devices /\ Slots < 32768
                          /\ DevicesAt + DevicesLen < OffSize
<1>1. ASSUME NEW x \in Short
      PROVE  /\ AsOff(x) * 128 >= OffSize <=> x < 0
             /\ x >= 0 => AsOff(x) = x
  <2>1. x \in Int /\ -32768 <= x /\ x <= 32767
    BY <1>1, Sixteen
  <2>2. CASE x < 0
    <3>1. AsOff(x) = x + OffSize
      BY <2>2 DEF AsOff
    <3>2. (x + OffSize) * 128 >= OffSize
      BY <2>1, OffSizes
    <3> QED BY <2>1, <2>2, <3>1, <3>2
  <2>3. CASE ~(x < 0)
    <3>1. AsOff(x) = x
      BY <2>3 DEF AsOff
    <3>2. ~(x * 128 >= OffSize)
      BY <2>1, <2>3, OffSizes
    <3> QED BY <2>3, <3>1, <3>2
  <2> QED BY <2>2, <2>3
<1>2. /\ DevicesAt = AsOff(Sb.devt_slotoff) * 128
      /\ DevicesLen = AsOff(Sb.extra_devices) * 128
  BY DEF DevicesAt, DevicesLen, SlotSize
<1>5. Sb.devt_slotoff \in Short /\ Sb.extra_devices \in Short
  BY FieldsInRange DEF InRange
<1>3. Overflows <=> Sb.devt_slotoff < 0 \/ Sb.extra_devices < 0
  <2>1. DevicesAt >= OffSize <=> Sb.devt_slotoff < 0
    BY <1>1, <1>2, <1>5
  <2>2. DevicesLen >= OffSize <=> Sb.extra_devices < 0
    BY <1>1, <1>2, <1>5
  <2> QED BY <2>1, <2>2 DEF Overflows
<1>4. ASSUME ~Overflows
      PROVE  /\ Slots = Sb.extra_devices /\ Slots < 32768
             /\ DevicesAt + DevicesLen < OffSize
  <2>0. Sb.devt_slotoff >= 0 /\ Sb.extra_devices >= 0
    BY <1>3, <1>4, <1>5, Sixteen
  <2>1. ASSUME NEW x \in Short, NEW y \in Short, x >= 0, y >= 0
        PROVE  /\ AsOff(x) = x /\ AsOff(y) = y /\ y < 32768
               /\ (AsOff(x) * 128) + (AsOff(y) * 128) < OffSize
    <3>1. x \in Int /\ x <= 32767 /\ y \in Int /\ y <= 32767
      BY Sixteen
    <3>2. AsOff(x) = x /\ AsOff(y) = y
      BY <1>1, <2>1
    <3>3. (x * 128) + (y * 128) < OffSize /\ y < 32768
      BY <2>1, <3>1, OffSizes
    <3> QED BY <3>2, <3>3
  <2> QED BY <1>2, <1>5, <2>0, <2>1 DEF Slots
<1> QED BY <1>3, <1>4

LEMMA InvInit == Init => Inv
<1> SUFFICES ASSUME Init PROVE Inv
  OBVIOUS
<1>1. Types
  BY OffSizes DEF Init, Types
<1>2. TableRange /\ Caught /\ SlotRange /\ PanicCauses
  BY DEF Init, TableRange, Caught, SlotRange, PanicCauses
<1>3. Behind
  BY DEF Init, Behind, InfixesInTable
<1> QED BY <1>1, <1>2, <1>3 DEF Inv

LEMMA ElementType ==
  ASSUME NEW S, NEW s \in Seq(S), NEW k \in 1 .. Len(s)
  PROVE  s[k] \in S
OBVIOUS

LEMMA LastEndType ==
  ASSUME image \in Images, infixes \in Seq([at: Nat, len: Nat])
  PROVE  LastEnd \in Nat
<1>1. CASE infixes = <<>>
  BY <1>1, SbTypes DEF LastEnd
<1>2. CASE infixes # <<>>
  <2>1. Len(infixes) \in 1 .. Len(infixes)
    BY <1>2
  <2>2. infixes[Len(infixes)] \in [at: Nat, len: Nat]
    BY <2>1, ElementType
  <2> QED BY <1>2, <2>2 DEF LastEnd
<1> QED BY <1>1, <1>2

LEMMA ReadSuperblockInv == Inv /\ ReadSuperblock => Inv'
<1> SUFFICES ASSUME Inv, ReadSuperblock PROVE Inv'
  OBVIOUS
<1>1. /\ image' = image /\ image \in Images /\ specs = <<>> /\ infixes = <<>>
      /\ UNCHANGED <<infixes, specs, at, len, cur, mapped>>
  BY DEF Inv, Types, TableRange, Before, ReadSuperblock, chosen, buffer
<1>2. \/ phase' = "panicked" /\ UNCHANGED <<it, left>> /\ Outside(1024)
      \/ phase' = "prefixes" /\ it' = PrefixStart /\ left' = PrefixLen
  BY DEF ReadSuperblock, SuperOffset
<1>3. Types'
  <2>1. PrefixStart < OffSize
    <3>1. Sb.xattr_prefix_start \in Wide
      BY <1>1, FieldsInRange DEF InRange
    <3> QED BY <3>1, AsOffFacts, OffSizes DEF PrefixStart
  <2> QED BY <1>1, <1>2, <2>1, TableNumbers DEF Inv, Types, Ends
<1>4. TableRange' /\ Caught'
  BY <1>1, <1>2, TableNumbers, SameTable DEF TableRange, Caught, Before
<1>5. Behind'
  BY <1>1, <1>2, SbTypes, SameTable DEF Behind, LastEnd, InfixesInTable
<1>6. SlotRange'
  BY <1>1, <1>2 DEF SlotRange
<1>7. PanicCauses'
  BY <1>1, <1>2, SbTypes DEF PanicCauses, Outside, SuperOffset
<1> QED BY <1>3, <1>4, <1>5, <1>6, <1>7 DEF Inv

(* The backend has no buffer at all where the iterator is. *)
Stopped ==
  /\ \/ phase' = "panicked" /\ mapped /\ image.len < it
     \/ phase' = "failed"
  /\ UNCHANGED <<it, left, buffer>>

(* What both loops know of the next buffer. *)
LEMMA BufferFacts ==
  ASSUME image \in Images, mapped \in BOOLEAN, it \in Nat, left \in Nat,
         NEW from, NEW to, NextBuffer(from, to)
  PROVE  \/ Stopped
         \/ /\ phase' = to /\ at' = it /\ cur' = 0 /\ it <= Half
            /\ it' = it + Piece /\ left' = left - Piece
            /\ Piece \in Nat /\ Piece > 0 /\ Piece <= left
            /\ len' \in Nat /\ len' <= Piece
            /\ len' = Piece \/ (mapped /\ len' = image.len - it)
<1>1. image.len \in Nat /\ image.len <= Half /\ Half \in Nat
  BY FieldsInRange, OffSizes
<1>2. Piece \in Nat /\ Piece > 0 /\ Piece <= left
  BY PieceFacts DEF NextBuffer
<1>3. CASE Outside(it) \/ Refuses(it)
  BY <1>1, <1>3 DEF NextBuffer, Outside, Refuses, Stopped
<1>4. CASE ~(Outside(it) \/ Refuses(it))
  <2>1. /\ phase' = to /\ at' = it /\ cur' = 0
        /\ it' = it + Piece /\ left' = left - Piece
        /\ len' = IF mapped THEN Lesser(Piece, image.len - it) ELSE Piece
    BY <1>4 DEF NextBuffer
  <2>2. (mapped => it <= image.len) /\ it <= Half
    BY <1>1, <1>4 DEF Outside, Refuses
  <2>3. len' \in Nat /\ len' <= Piece /\ (len' = Piece \/ (mapped /\ len' = image.len - it))
    BY <1>1, <1>2, <2>1, <2>2 DEF Lesser
  <2> QED BY <1>2, <2>1, <2>2, <2>3
<1> QED BY <1>3, <1>4

(* A piece taken off the front of a range leaves the end where it was.     *)
LEMMA Consume ==
  ASSUME NEW i \in Nat, NEW l \in Nat, NEW n \in Nat, NEW q \in Nat, n <= q
  PROVE  i + n <= i + q /\ (i + q) + (l - q) = i + l /\ i <= i + q
OBVIOUS

LEMMA NextPrefixesInv == Inv /\ NextPrefixes => Inv'
<1> SUFFICES ASSUME Inv, NextPrefixes PROVE Inv'
  OBVIOUS
<1>1. /\ Types /\ phase = "prefixes" /\ left > 0
      /\ image' = image /\ infixes' = infixes /\ specs' = specs
  BY DEF Inv, NextPrefixes, NextBuffer, chosen
<1>6. mapped \in BOOLEAN /\ mapped' = mapped
  BY DEF Inv, Types, NextPrefixes, NextBuffer, chosen
<1>2. /\ it \in Nat /\ left \in Nat /\ image \in Images
      /\ infixes \in Seq([at: Nat, len: Nat])
      /\ specs = <<>> /\ it + left = PrefixStart + PrefixLen
      /\ PrefixStart <= it /\ LastEnd <= it
  BY <1>1 DEF Inv, Types, TableRange, Before, Behind
<1>7. it \in Nat /\ left \in Nat
  BY <1>2
<1>5. Sb.xattr_prefix_count > 0
  BY <1>1, <1>2, TableNumbers
<1>3. CASE Stopped
  <2>1. Types'
    BY <1>1, <1>3, <1>6 DEF Types, Ends, buffer, Stopped
  <2>2. PanicCauses'
    BY <1>1, <1>2, <1>3, <1>5, <1>6, SameTable DEF PanicCauses, Stopped
  <2>3. TableRange' /\ Caught' /\ SlotRange' /\ Behind'
    BY <1>1, <1>2, <1>3, SameTable, SameSlots
    DEF Stopped, TableRange, Caught, SlotRange, Behind, LastEnd, InfixesInTable, Before, Inv
  <2> QED BY <2>1, <2>2, <2>3 DEF Inv
<1>4. CASE ~Stopped
  <2>1. /\ phase' = "infix" /\ at' = it /\ cur' = 0 /\ it <= Half
        /\ it' = it + Piece /\ left' = left - Piece
        /\ Piece \in Nat /\ Piece > 0 /\ Piece <= left
        /\ len' \in Nat /\ len' <= Piece
        /\ len' = Piece \/ (mapped /\ len' = image.len - it)
    BY <1>2, <1>4, <1>6, BufferFacts DEF Inv, NextPrefixes
  <2>2. Types'
    <3>1. left <= 1020
      <4>1. \A c \in Byte : 4 * c \in Nat /\ 4 * c <= 1020
        BY DEF Byte
      <4>2. PrefixLen \in Nat /\ PrefixLen <= 1020 /\ PrefixStart \in Nat
        BY <1>2, <4>1, FieldsInRange, TableNumbers DEF InRange
      <4> QED BY <1>2, <4>2
    <3>2. it' \in Nat /\ it' < OffSize /\ left' \in Nat
      BY <1>2, <2>1, <3>1, OffSizes
    <3> QED BY <1>1, <1>2, <1>6, <2>1, <3>2 DEF Types
  <2> DEFINE p == Piece
  <2>7. /\ p \in Nat /\ p <= left /\ len' \in Nat /\ len' <= p
        /\ phase' = "infix" /\ at' = it /\ cur' = 0 /\ it' = it + p /\ left' = left - p
    BY <2>1
  <2>8. len' = p \/ len' = image.len - it
    BY <2>1
  <2> HIDE DEF p
  <2>3. TableRange'
    <3>1. at' + len' <= it' /\ it' + left' = it + left /\ it <= it'
      <4>1. len' \in Nat /\ p \in Nat /\ len' <= p
        BY <2>7
      <4>2. it + len' <= it + p /\ (it + p) + (left - p) = it + left /\ it <= it + p
        BY <1>7, <4>1, Consume
      <4>3. at' = it /\ it' = it + p /\ left' = left - p
        BY <2>7
      <4> QED BY <4>2, <4>3, Zenon
    <3>2. Sb' = Sb /\ PrefixLen' = PrefixLen /\ PrefixStart' = PrefixStart
      BY <1>1, SameTable
    <3>3. PrefixStart <= it'
      BY <1>2, <2>7, TableNumbers
    <3> QED BY <1>1, <1>2, <1>5, <2>7, <3>1, <3>2, <3>3 DEF TableRange, Before
  <2>4. Caught'
    <3>0. len' \in Nat /\ cur' % 4 = 0 /\ cur' <= len'
      BY <2>7
    <3>1. SUFFICES ASSUME PrefixStart % 4 = 0
                   PROVE  len' % 4 = 0
      BY <1>1, <2>7, <3>0, SameTable DEF Caught
    <3>2. it = PrefixStart /\ left = 4 * Sb.xattr_prefix_count
      BY <1>1, <1>2, <3>1, TableNumbers DEF Inv, Caught
    <3>3. Whole(it, 4) /\ Whole(left, 4)
      BY <1>2, <3>1, <3>2, SbTypes, WholeFour DEF Whole
    <3>4. Whole(p, 4)
      BY <1>1, <1>2, <3>3, BlockUnits, PieceFacts DEF p
    <3>5. p % 4 = 0 /\ it % 4 = 0 /\ image.len % 4 = 0 /\ image.len \in Nat
      BY <1>2, <2>7, <3>1, <3>2, <3>4, SbTypes, WholeFour
    <3>6. CASE len' = image.len - it
      <4>1. \A m, n \in Nat : m % 4 = 0 /\ n % 4 = 0 /\ m - n \in Nat => (m - n) % 4 = 0
        OBVIOUS
      <4> QED BY <4>1, <3>5, <3>6, <1>2, <2>7
    <3> QED BY <2>8, <3>5, <3>6
  <2>5. Behind'
    <3>1. LastEnd' = LastEnd /\ (InfixesInTable => InfixesInTable')
      BY <1>1, SameTable DEF LastEnd, InfixesInTable
    <3>2. LastEnd \in Nat
      BY <1>1, <1>2, LastEndType
    <3>3. LastEnd <= it' /\ at' + cur' = it
      BY <1>2, <2>7, <3>2
    <3> QED BY <1>2, <2>7, <3>1, <3>3 DEF Inv, Behind
  <2>6. SlotRange' /\ PanicCauses'
    BY <1>1, <1>2, <2>1 DEF SlotRange, PanicCauses
  <2> QED BY <2>2, <2>3, <2>4, <2>5, <2>6 DEF Inv
<1> QED BY <1>3, <1>4

LEMMA RoundUpFour ==
  ASSUME NEW x \in Nat
  PROVE  /\ RoundUp(x, 4) \in Nat /\ x <= RoundUp(x, 4) /\ RoundUp(x, 4) % 4 = 0
         /\ \A y \in Nat : y % 4 = 0 /\ x <= y => RoundUp(x, 4) <= y
<1>1. RoundUp(x, 4) = ((x + 4 - 1) \div 4) * 4
  BY DEF RoundUp
<1> QED BY <1>1

LEMMA AppendFacts ==
  ASSUME NEW S, NEW s \in Seq(S), NEW e \in S
  PROVE  /\ Append(s, e) \in Seq(S) /\ Len(Append(s, e)) = Len(s) + 1 /\ Len(s) \in Nat
         /\ Append(s, e)[Len(s) + 1] = e
         /\ \A k \in 1 .. Len(s) : Append(s, e)[k] = s[k]
         /\ Append(s, e) # <<>>
OBVIOUS

LEMMA ParseInfixInv == Inv /\ ParseInfix => Inv'
<1> SUFFICES ASSUME Inv, ParseInfix PROVE Inv'
  OBVIOUS
<1> DEFINE n == SizeAt(at + cur)
           e == [at |-> at + cur + 2, len |-> n]
<1>1. /\ phase = "infix" /\ phase' = phase /\ image' = image /\ mapped' = mapped
      /\ UNCHANGED <<it, left, at, len, specs>>
      /\ infixes' = Append(infixes, e) /\ cur' = RoundUp(cur + 2 + n, 4)
      /\ cur + 2 + n <= len
  BY DEF ParseInfix, InBuffer, Infix, AfterEntry, chosen
<1>2. /\ image \in Images /\ it \in Nat /\ left \in Nat /\ at \in Nat /\ len \in Nat /\ cur \in Nat
  BY DEF Inv, Types
<1>3. infixes \in Seq([at: Nat, len: Nat])
  BY DEF Inv, Types
<1>4. n \in Nat
  BY <1>2, SizeTypes
<1> HIDE DEF n
<1>5. e \in [at: Nat, len: Nat] /\ e.at = at + cur + 2 /\ e.len = n
  BY <1>2, <1>4
<1> HIDE DEF e
<1>6. /\ infixes' \in Seq([at: Nat, len: Nat]) /\ infixes' # <<>>
      /\ Len(infixes') = Len(infixes) + 1 /\ Len(infixes) \in Nat
      /\ infixes'[Len(infixes) + 1] = e
      /\ \A k \in 1 .. Len(infixes) : infixes'[k] = infixes[k]
  BY <1>1, <1>3, <1>5, AppendFacts
<1>7. /\ cur' \in Nat /\ cur + 2 + n <= cur' /\ cur' % 4 = 0
      /\ (len % 4 = 0 => cur' <= len)
  BY <1>1, <1>2, <1>4, RoundUpFour
<1>8. Types'
  BY <1>1, <1>6, <1>7 DEF Inv, Types
<1>9. /\ LastEnd <= at + cur /\ LastEnd \in Nat /\ at + len <= it
      /\ it + left = PrefixStart + PrefixLen
  BY <1>1, <1>2, <1>3, LastEndType DEF Inv, Behind, TableRange
<1>10. TableRange'
  BY <1>1, <1>2, SameTable DEF Inv, TableRange, Before
<1>11. Caught'
  BY <1>1, <1>2, <1>7, SameTable DEF Inv, Caught
<1>12. Behind'
  <2>1. LastEnd' = e.at + e.len
    BY <1>6 DEF LastEnd
  <2>2. LastEnd' <= at + cur' /\ LastEnd' <= it /\ LastEnd + 2 <= e.at
        /\ e.at + e.len <= PrefixStart + PrefixLen
    <3>1. LastEnd' = at + (cur + 2 + n)
      BY <2>1, <1>5, <1>2, <1>4
    <3>2. at + (cur + 2 + n) <= at + cur' /\ at + (cur + 2 + n) <= at + len
      BY <1>1, <1>2, <1>4, <1>7
    <3>3. it <= PrefixStart + PrefixLen
      BY <1>2, <1>9, TableNumbers
    <3>4. e.at + e.len = at + (cur + 2 + n) /\ e.at = (at + cur) + 2
      BY <1>2, <1>4, <1>5
    <3>5. PrefixLen \in Nat /\ PrefixStart \in Nat
      BY <1>2, TableNumbers
    <3> DEFINE x == at + (cur + 2 + n)
    <3>6. x \in Nat /\ x <= it
      BY <1>2, <1>4, <1>9, <3>2
    <3> HIDE DEF x
    <3>7. x <= PrefixStart + PrefixLen
      BY <1>2, <3>3, <3>5, <3>6
    <3>8. LastEnd + 2 <= e.at
      BY <1>2, <1>9, <3>4
    <3> QED BY <3>1, <3>2, <3>4, <3>6, <3>7, <3>8 DEF x
  <2>3. InfixesInTable'
    <3> SUFFICES ASSUME NEW k \in 1 .. Len(infixes')
                 PROVE  LET first == IF k = 1 THEN PrefixStart
                                     ELSE infixes'[k - 1].at + infixes'[k - 1].len
                        IN  /\ first + 2 <= infixes'[k].at
                            /\ infixes'[k].at + infixes'[k].len
                                 <= PrefixStart + PrefixLen
      BY <1>1, SameTable DEF InfixesInTable
    <3>1. CASE k \in 1 .. Len(infixes)
      <4>0. k # 1 => k - 1 \in 1 .. Len(infixes)
        BY <1>6, <3>1
      <4>1. infixes'[k] = infixes[k] /\ (k # 1 => infixes'[k - 1] = infixes[k - 1])
        BY <1>6, <3>1, <4>0
      <4> QED BY <4>1, <3>1 DEF Inv, Behind, InfixesInTable
    <3>2. CASE k = Len(infixes) + 1
      <4>1. infixes'[k] = e
        BY <3>2, <1>6
      <4>2. k = 1 => LastEnd = PrefixStart
        BY <3>2, <1>3 DEF LastEnd
      <4>3. ASSUME k # 1
            PROVE  infixes'[k - 1] = infixes[Len(infixes)] /\ infixes # <<>>
        <5>1. k - 1 = Len(infixes) /\ Len(infixes) \in 1 .. Len(infixes)
          BY <1>6, <3>2, <4>3
        <5>2. infixes'[Len(infixes)] = infixes[Len(infixes)]
          BY <1>6, <5>1
        <5>3. infixes # <<>>
          BY <5>1
        <5> QED BY <5>1, <5>2, <5>3
      <4> QED BY <2>2, <4>1, <4>2, <4>3 DEF LastEnd
    <3> QED BY <3>1, <3>2, <1>6
  <2> QED BY <1>1, <2>2, <2>3 DEF Behind
<1>13. SlotRange' /\ PanicCauses'
  BY <1>1, SameSlots DEF Inv, SlotRange, PanicCauses
<1> QED BY <1>8, <1>10, <1>11, <1>12, <1>13 DEF Inv

LEMMA ParsePanicsInv == Inv /\ ParsePanics => Inv'
<1> SUFFICES ASSUME Inv, ParsePanics PROVE Inv'
  OBVIOUS
<1>1. /\ phase = "infix" /\ phase' = "panicked" /\ image' = image
      /\ UNCHANGED <<it, left, at, len, cur, infixes, specs>>
  BY DEF ParsePanics, chosen, buffer
<1>2. mapped' = mapped
  BY DEF ParsePanics, chosen
<1>3. Types'
  BY <1>1, <1>2 DEF Inv, Types, Ends
<1>4. TableRange' /\ Caught' /\ Behind'
  BY <1>1, SameTable DEF Inv, TableRange, Caught, Behind, InfixesInTable, Before
<1>5. SlotRange'
  BY <1>1, SameSlots DEF Inv, SlotRange
<1>6. PanicCauses'
  BY <1>1, SameTable DEF Inv, TableRange, Before, PanicCauses
<1> QED BY <1>3, <1>4, <1>5, <1>6 DEF Inv

LEMMA EndInfixesInv == Inv /\ EndInfixes => Inv'
<1> SUFFICES ASSUME Inv, EndInfixes PROVE Inv'
  OBVIOUS
<1>1. /\ phase = "infix" /\ phase' = "prefixes" /\ image' = image /\ cur > len
      /\ UNCHANGED <<it, left, at, len, cur, infixes, specs>>
  BY DEF EndInfixes, chosen, buffer
<1>2. mapped' = mapped
  BY DEF EndInfixes, chosen
<1>3. len \in Nat /\ cur \in Nat
  BY DEF Inv, Types
<1>4. Types'
  BY <1>1, <1>2 DEF Inv, Types
<1>5. TableRange'
  BY <1>1, SameTable DEF Inv, TableRange, Before
<1>6. Caught'
  <2>1. ~(PrefixStart % 4 = 0)
    BY <1>1, <1>3 DEF Inv, Caught
  <2> QED BY <2>1, <1>1, SameTable DEF Caught
<1>7. Behind'
  BY <1>1, SameTable DEF Inv, Behind, LastEnd, InfixesInTable
<1>8. SlotRange' /\ PanicCauses'
  BY <1>1, SameSlots DEF Inv, SlotRange, PanicCauses
<1> QED BY <1>4, <1>5, <1>6, <1>7, <1>8 DEF Inv

LEMMA EndPrefixesInv == Inv /\ EndPrefixes => Inv'
<1> SUFFICES ASSUME Inv, EndPrefixes PROVE Inv'
  OBVIOUS
<1>1. /\ phase = "prefixes" /\ image' = image /\ left = 0
      /\ UNCHANGED <<at, len, cur, infixes, specs>>
  BY DEF EndPrefixes, chosen, buffer
<1>2. mapped' = mapped
  BY DEF EndPrefixes, chosen
<1>3. image \in Images /\ specs = <<>>
  BY <1>1 DEF Inv, Types, TableRange, Before
<1>4. Sb.xattr_prefix_count = 0 \/ ~(PrefixStart % 4 = 0)
  BY <1>1, <1>3, TableNumbers DEF Inv, Caught
<1>5. CASE Overflows
  <2>1. phase' = "panicked" /\ it' = it /\ left' = left
    BY <1>5 DEF EndPrefixes
  <2>2. Types'
    BY <1>1, <1>2, <2>1 DEF Inv, Types, Ends
  <2>3. TableRange' /\ Behind' /\ Caught' /\ SlotRange'
    BY <1>1, <2>1, SameTable, SameSlots
    DEF Inv, TableRange, Behind, InfixesInTable, Before, Caught, SlotRange
  <2>4. PanicCauses'
    BY <1>1, <1>3, <1>5, OverflowsIff, SameTable DEF PanicCauses
  <2> QED BY <2>2, <2>3, <2>4 DEF Inv
<1>6. CASE ~Overflows
  <2>1. phase' = "devices" /\ it' = DevicesAt /\ left' = DevicesLen
    BY <1>6 DEF EndPrefixes
  <2>2. Types'
    <3>1. DevicesAt \in Nat /\ DevicesLen \in Nat /\ DevicesAt < OffSize
      BY <1>3, <1>6, SlotNumbers, OffSizes DEF Overflows
    <3> QED BY <1>1, <1>2, <2>1, <3>1 DEF Inv, Types
  <2>3. TableRange' /\ Behind'
    BY <1>1, <2>1, SameTable DEF Inv, TableRange, Behind, InfixesInTable, Before
  <2>4. Caught'
    BY <1>1, <1>4, <2>1, SameTable DEF Caught
  <2>5. SlotRange'
    <3>1. Len(specs') = 0
      BY <1>1, <1>3
    <3>2. DevicesAt \in Nat
      BY <1>3, SlotNumbers
    <3>3. SlotAt(1) = DevicesAt
      BY <3>2 DEF SlotAt, SlotSize
    <3>4. NextSlot' = DevicesAt
      BY <1>1, <3>1, <3>3, SameSlots DEF NextSlot
    <3>5. Whole(DevicesAt, 128)
      BY <1>3, SlotNumbers, SbTypes DEF Whole
    <3> QED BY <1>1, <1>6, <2>1, <3>1, <3>2, <3>4, <3>5, SameSlots DEF SlotRange
  <2>6. PanicCauses'
    BY <2>1 DEF PanicCauses
  <2> QED BY <2>2, <2>3, <2>4, <2>5, <2>6 DEF Inv
<1> QED BY <1>5, <1>6

-----------------------------------------------------------------------------
(* The loop over the devices. *)

(* The slot after k others, and the one after it. *)
LEMMA SlotFacts ==
  ASSUME image \in Images, NEW k \in Nat
  PROVE  /\ SlotAt(k + 1) \in Nat /\ SlotAt(k + 1 + 1) = SlotAt(k + 1) + 128
         /\ \A i \in Nat : Whole(i, 128) /\ SlotAt(k + 1) < i => SlotAt(k + 1) + 128 <= i
<1> DEFINE c == FirstSlot
<1>1. c \in Nat
  BY SbTypes
<1>2. SlotAt(k + 1) = 128 * (c + k) /\ SlotAt(k + 1 + 1) = 128 * (c + (k + 1))
  BY SlotNumbers
<1> HIDE DEF c
<1>3. ASSUME NEW i \in Nat, Whole(i, 128), SlotAt(k + 1) < i
      PROVE  SlotAt(k + 1) + 128 <= i
  <2>1. PICK m \in Nat : i = 128 * m
    BY <1>3 DEF Whole
  <2> QED BY <1>1, <1>2, <1>3, <2>1
<1>4. SlotAt(k + 1) \in Nat /\ SlotAt(k + 1 + 1) = SlotAt(k + 1) + 128
  BY <1>1, <1>2
<1> QED BY <1>3, <1>4

LEMMA NextDevicesInv == Inv /\ NextDevices => Inv'
<1> SUFFICES ASSUME Inv, NextDevices PROVE Inv'
  OBVIOUS
<1>1. /\ phase = "devices" /\ left > 0 /\ image' = image
      /\ infixes' = infixes /\ specs' = specs
  BY DEF NextDevices, NextBuffer, chosen
<1>2. mapped' = mapped /\ mapped \in BOOLEAN
  BY DEF Inv, Types, NextDevices, NextBuffer, chosen
<1>3. /\ it \in Nat /\ left \in Nat /\ image \in Images /\ Len(specs) \in Nat
      /\ image.len \in Nat
  BY SbTypes DEF Inv, Types
<1>4. /\ it + left = DevicesAt + DevicesLen /\ Whole(it, 128) /\ NextSlot <= it
      /\ \A k \in 1 .. Len(specs) : specs[k] = SlotAt(k)
  BY <1>1 DEF Inv, SlotRange
<1>5. it = NextSlot \/ (mapped /\ image.len < NextSlot + 128)
  BY <1>1 DEF Inv, SlotRange
<1>6. /\ NextSlot \in Nat /\ DevicesAt \in Nat /\ DevicesLen \in Nat
      /\ (NextSlot < it => NextSlot + 128 <= it)
  BY <1>3, <1>4, SlotFacts, SlotNumbers DEF NextSlot
<1>7. NextSlot' = NextSlot
  BY <1>1, SameSlots DEF NextSlot
<1>8. CASE Stopped
  <2>1. Types'
    BY <1>1, <1>2, <1>8 DEF Inv, Types, Ends, buffer, Stopped
  <2>2. phase' = "panicked" => mapped /\ image.len < DevicesAt + DevicesLen
    BY <1>3, <1>4, <1>6, <1>8 DEF Stopped
  <2>3. PanicCauses'
    BY <1>1, <1>2, <1>8, <2>2, SameSlots DEF PanicCauses
  <2>4. TableRange' /\ Caught' /\ SlotRange' /\ Behind'
    BY <1>1, <1>8, SameTable, SameSlots
    DEF Stopped, TableRange, Caught, SlotRange, Behind, InfixesInTable, Before, Inv
  <2> QED BY <2>1, <2>3, <2>4 DEF Inv
<1>9. CASE ~Stopped
  <2> DEFINE p == Piece
  <2>1. /\ phase' = "slot" /\ at' = it /\ cur' = 0 /\ it' = it + p /\ left' = left - p
        /\ p \in Nat /\ p <= left /\ len' \in Nat /\ len' <= p
    BY <1>2, <1>3, <1>9, BufferFacts DEF NextDevices
  <2>2. len' = p \/ (mapped /\ len' = image.len - it)
    BY <1>2, <1>3, <1>9, BufferFacts DEF NextDevices
  <2>3. Whole(p, 128)
    <3>1. Whole(left, 128)
      <4>1. PICK m \in Nat : it = 128 * m
        BY <1>4 DEF Whole
      <4> DEFINE w == FirstSlot + Slots
      <4>2. w \in Nat /\ it + left = 128 * w
        <5>1. \A c, x \in Nat : (128 * c) + (128 * x) = 128 * (c + x) /\ c + x \in Nat
          OBVIOUS
        <5>2. FirstSlot \in Nat /\ Slots \in Nat
          BY <1>3, SbTypes
        <5>3. DevicesAt = 128 * FirstSlot /\ DevicesLen = 128 * Slots
          BY <1>3, SlotNumbers
        <5>4. it + left = (128 * FirstSlot) + (128 * Slots)
          BY <1>4, <5>3
        <5> QED BY <5>1, <5>2, <5>4
      <4> HIDE DEF w
      <4>3. w - m \in Nat /\ left = 128 * (w - m)
        BY <1>3, <4>1, <4>2
      <4> QED BY <4>3 DEF Whole
    <3> QED BY <1>1, <1>3, <1>4, <3>1, BlockUnits, PieceFacts
  <2> HIDE DEF p
  <2>4. Whole(it + p, 128)
    <3>1. PICK m \in Nat : it = 128 * m
      BY <1>4 DEF Whole
    <3>2. PICK q \in Nat : p = 128 * q
      BY <2>3 DEF Whole
    <3>3. it + p = 128 * (m + q) /\ m + q \in Nat
      BY <3>1, <3>2
    <3> QED BY <3>3 DEF Whole
  <2>5. it = NextSlot
    <3> SUFFICES ASSUME it # NextSlot PROVE FALSE
      OBVIOUS
    <3>1. mapped /\ image.len < it
      <4>1. NextSlot + 128 <= it /\ image.len < NextSlot + 128
        BY <1>3, <1>4, <1>5, <1>6
      <4> QED BY <1>3, <1>5, <1>6, <4>1
    <3>2. Outside(it)
      BY <1>3, <3>1 DEF Outside
    <3> QED BY <1>9, <3>1, <3>2, <2>1 DEF NextDevices, NextBuffer
  <2>6. Types'
    <3>1. ~Overflows
      BY <1>1 DEF Inv, SlotRange
    <3>2. it + p < OffSize
      BY <1>3, <1>4, <1>6, <2>1, <3>1, OverflowsIff, OffSizes
    <3> QED BY <1>1, <1>2, <1>3, <2>1, <3>2 DEF Inv, Types
  <2>7. TableRange' /\ Caught' /\ Behind' /\ PanicCauses'
    BY <1>1, <2>1, SameTable
    DEF Inv, TableRange, Caught, Behind, InfixesInTable, Before, PanicCauses
  <2>8. SlotRange'
    <3>1. /\ it' + left' = DevicesAt + DevicesLen /\ NextSlot <= it'
          /\ at' + cur' = NextSlot /\ at' <= it' /\ it' - at' = p
      <4>1. \A i, l, q \in Nat : /\ (i + q) + (l - q) = i + l /\ i <= i + q
                                 /\ (i + q) - i = q /\ i + 0 = i
        OBVIOUS
      <4> QED BY <4>1, <1>3, <1>4, <2>1, <2>5
    <3>2. len' = it' - at' \/ (mapped' /\ len' = image.len - at')
      BY <1>2, <2>1, <2>2, <3>1
    <3>3. Whole(it', 128)
      BY <2>1, <2>4
    <3>4. /\ DevicesAt' = DevicesAt /\ DevicesLen' = DevicesLen
          /\ \A k \in 1 .. Len(specs') : specs'[k] = SlotAt(k)'
      BY <1>1, <1>4, SameSlots
    <3>5. len' <= it' - at'
      BY <2>1, <3>1
    <3>6. Overflows' = Overflows /\ ~Overflows
      BY <1>1, SameSlots DEF Inv, SlotRange
    <3> QED BY <1>1, <1>7, <2>1, <3>1, <3>2, <3>3, <3>4, <3>5, <3>6 DEF SlotRange
  <2> QED BY <2>6, <2>7, <2>8 DEF Inv
<1> QED BY <1>8, <1>9

LEMMA ReadSlotInv == Inv /\ ReadSlot => Inv'
<1> SUFFICES ASSUME Inv, ReadSlot PROVE Inv'
  OBVIOUS
<1>1. /\ phase = "slot" /\ image' = image /\ cur + 128 <= len
      /\ UNCHANGED <<it, left, at, len, infixes>>
  BY DEF ReadSlot, MoreSlots, SlotSize, chosen
<1>2. mapped' = mapped
  BY DEF ReadSlot, chosen
<1>3. /\ it \in Nat /\ at \in Nat /\ len \in Nat /\ cur \in Nat /\ image \in Images
      /\ specs \in Seq(Nat) /\ Len(specs) \in Nat
  BY DEF Inv, Types
<1>4. phase' = phase /\ specs' = Append(specs, at + cur) /\ cur' = cur + 128
  BY <1>1, <1>3 DEF ReadSlot, SlotSize
<1>5. at + cur \in Nat
  BY <1>3
<1>6. /\ specs' \in Seq(Nat) /\ Len(specs') = Len(specs) + 1
      /\ specs'[Len(specs) + 1] = at + cur
      /\ \A k \in 1 .. Len(specs) : specs'[k] = specs[k]
  BY <1>3, <1>4, <1>5, AppendFacts
<1>7. Types'
  BY <1>1, <1>2, <1>3, <1>4, <1>6 DEF Inv, Types
<1>8. TableRange' /\ Caught' /\ Behind' /\ PanicCauses'
  BY <1>1, <1>4, SameTable
  DEF Inv, TableRange, Caught, Behind, InfixesInTable, Before, PanicCauses
<1>9. SlotRange'
  <2>1. /\ at + cur = NextSlot /\ at <= it /\ len <= it - at
        /\ it + left = DevicesAt + DevicesLen /\ Whole(it, 128)
        /\ \A k \in 1 .. Len(specs) : specs[k] = SlotAt(k)
    BY <1>1 DEF Inv, SlotRange
  <2>2. len = it - at \/ (mapped /\ len = image.len - at)
    BY <1>1 DEF Inv, SlotRange
  <2>3. NextSlot' = NextSlot + 128
    BY <1>1, <1>3, <1>6, SameSlots, SlotFacts DEF NextSlot
  <2>4. at' + cur' = NextSlot' /\ NextSlot' <= it'
    <3>1. \A a, c, n, i \in Nat : c + 128 <= n /\ n <= i - a =>
            a + (c + 128) = (a + c) + 128 /\ (a + c) + 128 <= i
      OBVIOUS
    <3> QED BY <1>1, <1>3, <1>4, <2>1, <2>3, <3>1
  <2>5. \A k \in 1 .. Len(specs') : specs'[k] = SlotAt(k)'
    <3> SUFFICES ASSUME NEW k \in 1 .. Len(specs') PROVE specs'[k] = SlotAt(k)
      BY <1>1, SameSlots
    <3>1. CASE k \in 1 .. Len(specs)
      BY <3>1, <1>6, <2>1
    <3>2. CASE k = Len(specs) + 1
      BY <3>2, <1>6, <2>1 DEF NextSlot
    <3> QED BY <3>1, <3>2, <1>3, <1>6
  <2>6. Overflows' = Overflows /\ ~Overflows
    BY <1>1, SameSlots DEF Inv, SlotRange
  <2> QED BY <1>1, <1>2, <1>4, <2>1, <2>2, <2>4, <2>5, <2>6, SameSlots DEF SlotRange
<1> QED BY <1>7, <1>8, <1>9 DEF Inv

LEMMA EndSlotsInv == Inv /\ EndSlots => Inv'
<1> SUFFICES ASSUME Inv, EndSlots PROVE Inv'
  OBVIOUS
<1>1. /\ phase = "slot" /\ phase' = "devices" /\ image' = image /\ ~(cur + 128 <= len)
      /\ UNCHANGED <<it, left, at, len, cur, infixes, specs>>
  BY DEF EndSlots, MoreSlots, SlotSize, chosen, buffer
<1>2. mapped' = mapped
  BY DEF EndSlots, chosen
<1>3. /\ it \in Nat /\ at \in Nat /\ len \in Nat /\ cur \in Nat /\ image \in Images
      /\ Len(specs) \in Nat /\ image.len \in Nat
  BY SbTypes DEF Inv, Types
<1>4. Types'
  BY <1>1, <1>2 DEF Inv, Types
<1>5. TableRange' /\ Caught' /\ Behind' /\ PanicCauses'
  BY <1>1, SameTable
  DEF Inv, TableRange, Caught, Behind, InfixesInTable, Before, PanicCauses
<1>6. SlotRange'
  <2>1. /\ at + cur = NextSlot /\ at <= it /\ NextSlot <= it
        /\ it + left = DevicesAt + DevicesLen /\ Whole(it, 128)
        /\ \A k \in 1 .. Len(specs) : specs[k] = SlotAt(k)
    BY <1>1 DEF Inv, SlotRange
  <2>2. len = it - at \/ (mapped /\ len = image.len - at)
    BY <1>1 DEF Inv, SlotRange
  <2>3. NextSlot' = NextSlot
    BY <1>1, SameSlots DEF NextSlot
  <2>4. ASSUME len = it - at PROVE it = NextSlot
    <3>1. it < NextSlot + 128
      BY <1>1, <1>3, <2>1, <2>4
    <3>2. NextSlot < it => NextSlot + 128 <= it
      BY <1>3, <2>1, SlotFacts DEF NextSlot
    <3>3. NextSlot \in Nat
      BY <1>3, SlotFacts DEF NextSlot
    <3> QED BY <1>3, <2>1, <3>1, <3>2, <3>3
  <2>5. ASSUME len = image.len - at PROVE image.len < NextSlot + 128
    BY <1>1, <1>3, <2>1, <2>5
  <2>6. it' = NextSlot' \/ (mapped' /\ image'.len < NextSlot' + 128)
    BY <1>1, <1>2, <2>2, <2>3, <2>4, <2>5
  <2>7. Overflows' = Overflows /\ ~Overflows
    BY <1>1, SameSlots DEF Inv, SlotRange
  <2> QED BY <1>1, <2>1, <2>3, <2>6, <2>7, SameSlots DEF SlotRange
<1> QED BY <1>4, <1>5, <1>6 DEF Inv

LEMMA FinishInv == Inv /\ Finish => Inv'
<1> SUFFICES ASSUME Inv, Finish PROVE Inv'
  OBVIOUS
<1>1. /\ phase = "devices" /\ phase' = "mounted" /\ image' = image /\ left = 0
      /\ UNCHANGED <<it, left, at, len, cur, infixes, specs>>
  BY DEF Finish, chosen, buffer
<1>2. mapped' = mapped
  BY DEF Finish, chosen
<1>3. Types'
  BY <1>1, <1>2 DEF Inv, Types, Ends
<1>4. TableRange' /\ Caught' /\ Behind' /\ PanicCauses'
  BY <1>1, SameTable
  DEF Inv, TableRange, Caught, Behind, InfixesInTable, Before, PanicCauses
<1>5. SlotRange'
  BY <1>1, <1>2, SameSlots DEF Inv, SlotRange, NextSlot
<1> QED BY <1>3, <1>4, <1>5 DEF Inv

LEMMA BackendFailsInv == Inv /\ BackendFails => Inv'
<1> SUFFICES ASSUME Inv, BackendFails PROVE Inv'
  OBVIOUS
<1>1. /\ phase' = "failed" /\ image' = image
      /\ UNCHANGED <<it, left, at, len, cur, infixes, specs>>
  BY DEF BackendFails, chosen, buffer
<1>2. mapped' = mapped
  BY DEF BackendFails, chosen
<1>3. Types'
  BY <1>1, <1>2 DEF Inv, Types, Ends
<1>4. TableRange' /\ Caught' /\ Behind' /\ PanicCauses' /\ SlotRange'
  BY <1>1, SameTable, SameSlots
  DEF Inv, TableRange, Caught, Behind, InfixesInTable, Before, PanicCauses, SlotRange
<1> QED BY <1>3, <1>4 DEF Inv

LEMMA InvNext == Inv /\ [Next]_vars => Inv'
<1> SUFFICES ASSUME Inv, [Next]_vars PROVE Inv'
  OBVIOUS
<1>1. CASE UNCHANGED vars
  <2>1. image' = image /\ UNCHANGED <<phase, it, left, at, len, cur, infixes, specs>>
    BY <1>1 DEF vars, chosen, buffer
  <2>2. mapped' = mapped
    BY <1>1 DEF vars, chosen
  <2>3. Types'
    BY <2>1, <2>2 DEF Inv, Types
  <2>4. TableRange' /\ Caught' /\ Behind'
    BY <2>1, SameTable DEF Inv, TableRange, Caught, Behind, LastEnd, InfixesInTable
  <2>5. SlotRange' /\ PanicCauses'
    BY <2>1, <2>2, SameTable, SameSlots DEF Inv, SlotRange, NextSlot, PanicCauses
  <2> QED BY <2>3, <2>4, <2>5 DEF Inv
<1>2. CASE Next
  BY <1>2, ReadSuperblockInv, NextPrefixesInv, ParseInfixInv, ParsePanicsInv, EndInfixesInv,
     EndPrefixesInv, NextDevicesInv, ReadSlotInv, EndSlotsInv, FinishInv, BackendFailsInv
  DEF Next, Work
<1> QED BY <1>1, <1>2

-----------------------------------------------------------------------------
(* The length of a buffer and the mask, which the rest does not depend on: *)
(* a buffer is cut from one block, and the mask is computed once, from the *)
(* devices that were found.                                                *)
Sizes ==
  /\ len <= BlkSz
  /\ phase # "mounted" => mask = 0
  /\ phase = "mounted" => mask = MaskFor(Len(specs))

(* When the loop over the devices ends no more slots were read than there  *)
(* are.                                                                    *)
LEMMA SlotCount ==
  ASSUME Inv, phase \in {"devices", "mounted"}, left = 0
  PROVE  Len(specs) \in Nat /\ Len(specs) < 32768
<1>1. image \in Images /\ Len(specs) \in Nat
  BY DEF Inv, Types
<1>2. it \in Nat /\ it + left = DevicesAt + DevicesLen /\ NextSlot <= it
  BY DEF Inv, Types, SlotRange
<1>3. /\ DevicesAt = 128 * FirstSlot /\ DevicesLen = 128 * Slots
      /\ NextSlot = 128 * (FirstSlot + Len(specs))
  BY <1>1, SlotNumbers DEF NextSlot
<1>4. FirstSlot \in Nat /\ Slots \in Nat
  BY <1>1, SbTypes
<1>5. Slots < 32768
  BY <1>1, OverflowsIff DEF Inv, SlotRange
<1>6. \A c, x, n \in Nat : 128 * (c + n) <= (128 * c) + (128 * x) => n <= x
  OBVIOUS
<1>7. Len(specs) <= Slots
  <2> DEFINE c == FirstSlot
             x == Slots
             n == Len(specs)
  <2>1. c \in Nat /\ x \in Nat /\ n \in Nat
    BY <1>1, <1>4
  <2>2. it = DevicesAt + DevicesLen
    BY <1>2
  <2>3. DevicesAt = 128 * c /\ DevicesLen = 128 * x /\ NextSlot = 128 * (c + n)
    BY <1>3
  <2> HIDE DEF c, x, n
  <2>4. 128 * (c + n) <= (128 * c) + (128 * x)
    BY <1>2, <2>2, <2>3
  <2>5. n <= x
    BY <1>6, <2>1, <2>4
  <2> QED BY <2>5 DEF n, x
<1> QED BY <1>1, <1>4, <1>5, <1>7

(* n lies between the kth power of two and the next, which is twice as     *)
(* much.                                                                   *)
Between(n, k) == 2 ^ k <= n /\ n < 2 ^ (k + 1)
Width(a) == a \in Nat /\ a # 0 /\ (2 * a) - 1 <= MaskMax
Doubles(k, a) == Width(a) /\ 2 ^ k = a /\ 2 ^ (k + 1) = 2 * a

LEMMA Widths ==
  /\ MaskMax \in Nat
  /\ \A a \in Nat : a # 0 /\ a <= 32768 => Width(a)
BY SMT DEF MaskMax, Width

LEMMA Powers ==
  ASSUME NEW n \in Nat, n # 0, n < 32768
  PROVE  \E k \in 0 .. 15 : Between(n, k)
<1>1. /\ 2 ^ 0 = 1 /\ 2 ^ 1 = 2 /\ 2 ^ 2 = 4 /\ 2 ^ 3 = 8 /\ 2 ^ 4 = 16 /\ 2 ^ 5 = 32
      /\ 2 ^ 6 = 64 /\ 2 ^ 7 = 128 /\ 2 ^ 8 = 256 /\ 2 ^ 9 = 512 /\ 2 ^ 10 = 1024
      /\ 2 ^ 11 = 2048 /\ 2 ^ 12 = 4096 /\ 2 ^ 13 = 8192 /\ 2 ^ 14 = 16384 /\ 2 ^ 15 = 32768
  OBVIOUS
<1> QED BY <1>1 DEF Between

LEMMA PowerTable ==
  ASSUME NEW k \in 0 .. 15
  PROVE  \E a : Doubles(k, a)
<1>0. CASE k = 0
  BY <1>0, Widths DEF Doubles
<1>1. CASE k = 1
  BY <1>1, Widths DEF Doubles
<1>2. CASE k = 2
  BY <1>2, Widths DEF Doubles
<1>3. CASE k = 3
  BY <1>3, Widths DEF Doubles
<1>4. CASE k = 4
  BY <1>4, Widths DEF Doubles
<1>5. CASE k = 5
  BY <1>5, Widths DEF Doubles
<1>6. CASE k = 6
  BY <1>6, Widths DEF Doubles
<1>7. CASE k = 7
  BY <1>7, Widths DEF Doubles
<1>8. CASE k = 8
  BY <1>8, Widths DEF Doubles
<1>9. CASE k = 9
  BY <1>9, Widths DEF Doubles
<1>10. CASE k = 10
  BY <1>10, Widths DEF Doubles
<1>11. CASE k = 11
  BY <1>11, Widths DEF Doubles
<1>12. CASE k = 12
  BY <1>12, Widths DEF Doubles
<1>13. CASE k = 13
  BY <1>13, Widths DEF Doubles
<1>14. CASE k = 14
  BY <1>14, Widths DEF Doubles
<1>15. CASE k = 15
  BY <1>15, Widths DEF Doubles
<1>16. k \in {0, 1, 2, 3, 4, 5, 6, 7, 8, 9, 10, 11, 12, 13, 14, 15}
  OBVIOUS
<1> QED
  BY <1>0, <1>1, <1>2, <1>3, <1>4, <1>5, <1>6, <1>7, <1>8, <1>9, <1>10, <1>11, <1>12, <1>13, <1>14, <1>15, <1>16, Zenon

LEMMA Ilog2Between ==
  ASSUME NEW n, \E k \in 0 .. 15 : Between(n, k)
  PROVE  Ilog2(n) \in 0 .. 15 /\ Between(n, Ilog2(n))
BY Zenon DEF Ilog2, Between

(* A mask that lets n through and has no bit more than n needs.            *)
Fits(m, n) == m \in Nat /\ m <= MaskMax /\ n < m + 1 /\ (m + 1) \div 2 <= n

LEMMA MaskFacts ==
  ASSUME NEW n \in Nat, n # 0 => \E k \in 0 .. 15 : Between(n, k)
  PROVE  Fits(MaskFor(n), n)
<1>1. CASE n = 0
  <2>1. MaskFor(n) = 0
    BY <1>1 DEF MaskFor
  <2> QED BY <1>1, <2>1, Widths DEF Fits
<1>2. CASE n # 0
  <2> DEFINE k == Ilog2(n)
  <2>1. k \in 0 .. 15 /\ Between(n, k)
    BY <1>2, Ilog2Between
  <2>2. MaskFor(n) = 2 ^ (k + 1) - 1
    BY <1>2 DEF MaskFor
  <2> HIDE DEF k
  <2>3. PICK a : Doubles(k, a)
    BY <2>1, PowerTable
  <2>4. Width(a) /\ 2 ^ k = a /\ 2 ^ (k + 1) = 2 * a
    BY <2>3, Zenon DEF Doubles
  <2>5. a <= n /\ n < 2 * a /\ MaskFor(n) = (2 * a) - 1
    BY <2>1, <2>2, <2>4 DEF Between
  <2>6. \A m : m = (2 * a) - 1 => Fits(m, n)
    BY <2>4, <2>5 DEF Width, Fits
  <2> QED BY <2>5, <2>6
<1> QED BY <1>1, <1>2

LEMMA SizesInit == Init => Sizes
<1>1. BlkSz \in Nat
  BY GeometryAssumption
<1> QED BY <1>1 DEF Init, Sizes

LEMMA SizesNext == Inv /\ Sizes /\ [Next]_vars => Sizes'
<1> SUFFICES ASSUME Inv, Sizes, [Next]_vars PROVE Sizes'
  OBVIOUS
<1>1. ASSUME NEW from, NEW to, to # "mounted", from # "mounted", NextBuffer(from, to)
      PROVE  Sizes'
  <2>1. /\ image \in Images /\ mapped \in BOOLEAN /\ it \in Nat /\ left \in Nat /\ left > 0
        /\ specs' = specs /\ mask' = mask
    BY <1>1 DEF Inv, Types, NextBuffer
  <2>2. Piece \in Nat /\ Piece <= BlkSz /\ BlkSz \in Nat
    BY <2>1, PieceFacts, GeometryAssumption
  <2>3. len' <= BlkSz
    <3>1. len' = len \/ (len' \in Nat /\ len' <= Piece)
      BY <1>1, <2>1, BufferFacts DEF buffer, Stopped
    <3> QED BY <2>2, <3>1 DEF Sizes
  <2>4. phase # "mounted" /\ phase' # "mounted"
    BY <1>1 DEF NextBuffer
  <2> QED BY <2>1, <2>3, <2>4 DEF Sizes
<1>2. CASE NextPrefixes \/ NextDevices
  BY <1>1, <1>2 DEF NextPrefixes, NextDevices
<1>3. CASE Finish
  BY <1>3 DEF Finish, buffer, Sizes
<1>4. CASE UNCHANGED vars
  BY <1>4 DEF vars, buffer, Sizes
<1>5. CASE ReadSuperblock \/ EndPrefixes \/ BackendFails
  BY <1>5 DEF ReadSuperblock, EndPrefixes, BackendFails, buffer, Sizes
<1>6. CASE ParseInfix \/ ParsePanics \/ EndInfixes
  BY <1>6 DEF ParseInfix, ParsePanics, EndInfixes, buffer, Sizes
<1>7. CASE ReadSlot \/ EndSlots
  BY <1>7 DEF ReadSlot, EndSlots, buffer, Sizes
<1> QED BY <1>2, <1>3, <1>4, <1>5, <1>6, <1>7 DEF Next, Work

-----------------------------------------------------------------------------
(* Whatever image is mounted, and from whatever kind of backend, the      *)
(* invariant holds at every step of try_new.                              *)
THEOREM Invariance == Spec => []Inv
<1>1. Init => Inv
  BY InvInit
<1>2. Inv /\ [Next]_vars => Inv'
  BY InvNext
<1> QED BY <1>1, <1>2, PTL DEF Spec

(* However the slots lie over blocks, a mounted image has exactly the      *)
(* extra devices of its table (get_device_infos).                          *)
THEOREM DevicesCorrect == Spec => []DevicesExact
<1>1. Inv => DevicesExact
  <2> SUFFICES ASSUME Inv, phase = "mounted" PROVE DevicesExact
    BY DEF DevicesExact
  <2>1. /\ it \in Nat /\ image \in Images /\ Len(specs) \in Nat /\ image.len \in Nat
    BY SbTypes DEF Inv, Types
  <2>2. /\ \A k \in 1 .. Len(specs) : specs[k] = SlotAt(k)
        /\ it + left = DevicesAt + DevicesLen /\ left = 0 /\ NextSlot <= it
    BY DEF Inv, SlotRange
  <2>3. it = NextSlot \/ (mapped /\ image.len < NextSlot + 128)
    BY DEF Inv, SlotRange
  <2> DEFINE c == FirstSlot
             x == Slots
             n == Len(specs)
  <2>4. c \in Nat /\ x \in Nat /\ n \in Nat
    BY <2>1, SbTypes
  <2>5. /\ it = 128 * (c + x) /\ NextSlot = 128 * (c + n)
    <3>1. DevicesAt = 128 * c /\ DevicesLen = 128 * x
      BY <2>1, SlotNumbers
    <3>2. NextSlot = 128 * (c + n)
      BY <2>1, SlotNumbers DEF NextSlot
    <3>3. \A y, z \in Nat : (128 * y) + (128 * z) = 128 * (y + z)
      OBVIOUS
    <3> QED BY <2>1, <2>2, <2>4, <3>1, <3>2, <3>3
  <2> HIDE DEF c, x, n
  <2>6. n <= x
    BY <2>2, <2>4, <2>5
  <2>7. ASSUME NEW k \in 1 .. x, ~(mapped /\ SlotAt(k) + 128 > image.len)
        PROVE  k <= n
    <3> SUFFICES ASSUME k > n PROVE FALSE
      BY <2>4
    <3>1. k - 1 \in Nat /\ k = (k - 1) + 1
      BY <2>4
    <3>2. SlotAt(k) = 128 * (c + (k - 1))
      BY <2>1, <3>1, SlotNumbers DEF c
    <3>3. NextSlot <= SlotAt(k) /\ SlotAt(k) < it
      BY <2>4, <2>5, <3>1, <3>2
    <3>4. mapped /\ image.len < NextSlot + 128
      <4>1. it # NextSlot
        BY <2>4, <2>5, <3>2, <3>3
      <4> QED BY <2>3, <4>1
    <3>5. image.len < SlotAt(k) + 128
      BY <2>1, <2>4, <2>5, <3>1, <3>2, <3>3, <3>4
    <3> QED BY <2>1, <2>4, <2>7, <3>2, <3>4, <3>5
  <2>8. x = Sb.extra_devices
    BY <2>1, OverflowsIff DEF Inv, SlotRange, x
  <2> QED BY <2>2, <2>6, <2>7, <2>8 DEF DevicesExact, c, n, SlotSize
<1> QED BY <1>1, Invariance, PTL

(* The prefixes that were read lie in the table, one behind the other      *)
(* (get_xattr_infixes).                                                    *)
THEOREM InfixesCorrect == Spec => []InfixesInTable
<1>1. Inv => InfixesInTable
  BY DEF Inv, Behind
<1> QED BY <1>1, Invariance, PTL

(* A table of prefixes, a negative place or number of devices, whose       *)
(* product overflows, and memory that ends too early are all that panics   *)
(* (try_new, get_xattr_infixes, get_device_infos).                         *)
THEOREM PanicsCorrect == Spec => []PanicCauses
<1>1. Inv => PanicCauses
  BY DEF Inv
<1> QED BY <1>1, Invariance, PTL

(* No image with an aligned table of prefixes is ever mounted, whatever    *)
(* its entries and wherever its blocks end.                                *)
THEOREM AlignedTablesCaught == Spec => []AlignedTablesPanic
<1>1. Inv => AlignedTablesPanic
  BY DEF Inv, Caught, AlignedTablesPanic
<1> QED BY <1>1, Invariance, PTL

(* The sizes hold as well, on top of the invariant.                        *)
THEOREM SizesInvariant == Spec => [](Inv /\ Sizes)
<1>1. Init => Sizes
  BY SizesInit
<1>2. Inv /\ Sizes /\ [Next]_vars => Sizes'
  BY SizesNext
<1> QED BY <1>1, <1>2, Invariance, PTL DEF Spec

LEMMA MaskOfMounted ==
  ASSUME Inv, Sizes
  PROVE  TypeOK /\ MaskExact
<1>1. phase = "mounted" => Len(specs) \in Nat /\ Len(specs) < 32768
  BY SlotCount DEF Inv, SlotRange
<1>2. phase = "mounted" => Fits(mask, Len(specs))
  BY <1>1, Powers, MaskFacts DEF Sizes
<1>3. mask \in 0 .. MaskMax
  BY <1>2, Widths DEF Sizes, Fits
<1>4. TypeOK
  <2>1. len \in 0 .. BlkSz
    BY GeometryAssumption DEF Inv, Types, Sizes
  <2>2. Types
    BY DEF Inv
  <2>3. it \in 0 .. OffSize - 1
    BY <2>2, OffSizes DEF Types
  <2> QED BY <1>3, <2>1, <2>2, <2>3, Zenon DEF TypeOK, Types
<1>5. ASSUME phase = "mounted"
      PROVE  /\ \A id \in 0 .. Len(specs) : id % (mask + 1) = id
             /\ (mask + 1) \div 2 <= Len(specs)
  <2> DEFINE n == Len(specs)
  <2>1. n \in Nat /\ Fits(mask, n)
    BY <1>1, <1>2, <1>5
  <2> HIDE DEF n
  <2>2. \A id \in 0 .. n : id % (mask + 1) = id
    <3>1. mask + 1 \in Nat /\ n < mask + 1
      BY <2>1, Widths DEF Fits
    <3>2. ASSUME NEW x \in Nat, NEW y \in Nat \ {0}, x < y
          PROVE  x % y = x
      BY <3>2, DivModUnique
    <3> QED BY <2>1, <3>1, <3>2
  <2>3. (mask + 1) \div 2 <= n
    BY <2>1 DEF Fits
  <2> QED BY <2>2, <2>3 DEF n
<1> QED BY <1>4, <1>5 DEF MaskExact

(* A buffer never exceeds the block it is cut from, the iterator never     *)
(* runs below zero, and the mask fits its sixteen bits (try_new).          *)
THEOREM TypeCorrect == Spec => []TypeOK
<1>1. Inv /\ Sizes => TypeOK
  BY MaskOfMounted
<1> QED BY <1>1, SizesInvariant, PTL

(* The mask of a mounted image lets every device number through and has    *)
(* no bit more than the largest needs (get_device_infos).                  *)
THEOREM MaskCorrect == Spec => []MaskExact
<1>1. Inv /\ Sizes => MaskExact
  BY MaskOfMounted
<1> QED BY <1>1, SizesInvariant, PTL
=============================================================================
