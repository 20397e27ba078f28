-------------------------- MODULE FuseServerProofs --------------------------
(***************************************************************************)
(* Proofs about InodeLoad, for every block size that is a multiple of a    *)
(* slot, every inode table and every caller of the collection, and after   *)
(* them about FuseServer, for every image that ServerAssumption describes. *)
(* The server's steps are the collection's with what the handlers add, so  *)
(* its proofs rest on those of the collection.                             *)
(***************************************************************************)
EXTENDS FuseServer, LayoutProofs, FiniteSetTheorems

-----------------------------------------------------------------------------
(* The collection of inodes. *)

(* What the table stores are inodes, and an unused slot reads as one.      *)
LEMMA DiskStored ==
  ASSUME NEW n \in Nat
  PROVE  IsStored(DiskInode(n)) /\ (DiskInode(n) = Blank \/ DiskInode(n) \in { Inodes[m] : m \in DOMAIN Inodes })
<1>1. IsStored(Blank)
  <2> DEFINE i == AsInode(Blank, 0)
  <2>1. /\ i.layout = "FlatPlain" /\ i.mode = "Unknown" /\ i.version = "Compact" /\ i.icount = 0
        /\ i.nid = 0 /\ i.size = 0 /\ i.blkaddr = 0 /\ i.chunkblks = 1
        /\ i.table = [c \in {} |-> 0]
    BY DEF AsInode, Blank
  <2> HIDE DEF i
  <2>2. Chunks(i) = 0
    BY <2>1 DEF Chunks, ChunkLayouts
  <2>3. 0 .. 0 - 1 = {}
    OBVIOUS
  <2>4. i.table \in [0 .. Chunks(i) - 1 -> Nat]
    BY <2>1, <2>2, <2>3
  <2>5. IsInode(i)
    BY <2>1, <2>4 DEF IsInode, FlatLayouts, OtherModes
  <2>6. Blank.perm = 0 /\ Blank.shared = 0
    BY DEF Blank
  <2> QED BY <2>5, <2>6 DEF IsStored, i
<1>2. \A m : IsStored(Slot(m)) /\ (Slot(m) = Blank \/ Slot(m) \in { Inodes[k] : k \in DOMAIN Inodes })
  BY <1>1, InodeTableAssumption DEF Slot
<1> QED BY <1>1, <1>2 DEF DiskInode, InodeAt

(* It stays an inode under any number.                                     *)
LEMMA DiskTypes ==
  ASSUME NEW n \in Nat
  PROVE  /\ DiskInode(n).icount \in Nat /\ DiskInode(n).size \in Nat
         /\ DiskInode(n).shared \in 0 .. 255
         /\ IsInode(AsInode(DiskInode(n), n))
<1> DEFINE d == DiskInode(n)
           z == AsInode(d, 0)
           i == AsInode(d, n)
<1>1. IsInode(z) /\ d.shared \in 0 .. 255
  BY DiskStored DEF IsStored
<1>2. /\ z.layout = d.layout /\ z.mode = d.mode /\ z.version = d.version /\ z.icount = d.icount
      /\ z.size = d.size /\ z.blkaddr = d.blkaddr /\ z.chunkblks = d.chunkblks /\ z.table = d.table
  BY DEF AsInode
<1>3. /\ i.layout = d.layout /\ i.mode = d.mode /\ i.version = d.version /\ i.icount = d.icount
      /\ i.size = d.size /\ i.blkaddr = d.blkaddr /\ i.chunkblks = d.chunkblks /\ i.table = d.table
      /\ i.nid = n
  BY DEF AsInode
<1> HIDE DEF d, z, i
<1>4. ChunkSz(i) = ChunkSz(z)
  BY <1>2, <1>3 DEF ChunkSz
<1>5. Chunks(i) = Chunks(z)
  BY <1>2, <1>3, <1>4 DEF Chunks
<1>6. IsInode(i)
  BY <1>1, <1>2, <1>3, <1>5 DEF IsInode
<1>7. d.icount \in Nat /\ d.size \in Nat
  BY <1>1, <1>2 DEF IsInode
<1> QED BY <1>1, <1>6, <1>7 DEF d, i

LEMMA DiskSizes ==
  ASSUME NEW n \in Nat
  PROVE  /\ InodeSize(DiskInode(n)) \in {32, 64}
         /\ DiskInode(n).version = "Extended" => InodeSize(DiskInode(n)) = 64
         /\ DiskInode(n).version # "Extended" => InodeSize(DiskInode(n)) = 32
         /\ XattrSize(DiskInode(n)) # 0 <=> Shared(n)
         /\ DiskSharedCount(n) \in 0 .. 255
<1>1. /\ InodeSize(DiskInode(n)) \in {32, 64}
      /\ DiskInode(n).version = "Extended" => InodeSize(DiskInode(n)) = 64
      /\ DiskInode(n).version # "Extended" => InodeSize(DiskInode(n)) = 32
  BY DEF InodeSize
<1>2. XattrSize(DiskInode(n)) # 0 <=> Shared(n)
  BY DiskTypes DEF XattrSize, Shared
<1>3. DiskSharedCount(n) \in 0 .. 255
  BY DiskTypes DEF DiskSharedCount
<1> QED BY <1>1, <1>2, <1>3

(* An inode starts at a multiple of its slot, and so does a block.         *)
LEMMA SlotUnits ==
  ASSUME NEW n \in Nat
  PROVE  Iloc(n) \in Nat /\ Whole(Iloc(n), 32) /\ Whole(BlkSz, 32) /\ Whole(BlkSz, 4)
<1>1. BlkSz \in Nat /\ BlkSz % 32 = 0 /\ MetaBlkAddr \in Nat
  BY GeometryAssumption, InodeTableAssumption
<1>2. BlkSz = 32 * (BlkSz \div 32) /\ BlkSz \div 32 \in Nat
  BY <1>1
<1> DEFINE b == BlkSz \div 32
           m == MetaBlkAddr
<1> HIDE DEF b, m
<1>3. b \in Nat /\ m \in Nat /\ BlkSz = 32 * b
  BY <1>1, <1>2 DEF b, m
<1>4. Iloc(n) = (m * (32 * b)) + (n * 32)
  BY <1>3 DEF Iloc, BlkPos, m
<1>5. \A x, y, z \in Nat : (x * (32 * y)) + (z * 32) = 32 * ((x * y) + z)
  OBVIOUS
<1>6. Iloc(n) = 32 * ((m * b) + n)
  BY <1>3, <1>4, <1>5
<1>7. (m * b) + n \in Nat
  BY <1>3
<1>8. Whole(Iloc(n), 32) /\ Iloc(n) \in Nat
  BY <1>6, <1>7 DEF Whole
<1>9. Whole(BlkSz, 32)
  BY <1>3 DEF Whole
<1>10. BlkSz = 4 * (8 * b) /\ 8 * b \in Nat
  BY <1>3
<1>11. Whole(BlkSz, 4)
  BY <1>10 DEF Whole
<1> QED BY <1>8, <1>9, <1>11

(* A slot lies in one block. *)
LEMMA SlotInBlock ==
  ASSUME NEW a \in Nat, Whole(a, 32)
  PROVE  a % BlkSz \in Nat /\ (a % BlkSz) + 32 <= BlkSz
BY SlotUnits, WholeRemainder, GeometryAssumption

(* The second half of an extended inode is one fill of one slot.           *)
LEMMA RestIsOneFill ==
  ASSUME NEW n \in Nat
  PROVE  RestFills(n) = <<Fill(Iloc(n) + 32, 32, 32)>>
<1> DEFINE off == Iloc(n) % BlkSz
<1>1. off \in Nat /\ off + 32 <= BlkSz /\ BlkSz \in Nat
  BY SlotUnits, SlotInBlock, GeometryAssumption
<1>2. BlkAccess(Iloc(n)).off = off
  BY DEF BlkAccess, Accessor
<1> HIDE DEF off
<1>3. Lesser(BlkSz - BlkAccess(Iloc(n)).off + 32, 64) = 64
  BY <1>1, <1>2 DEF Lesser
<1>4. Lesser(32 + 64, 64) - 32 = 32 /\ ~(64 < 32)
  BY DEF Lesser
<1>5. RestFills(n) = <<Fill(Iloc(n) + 32, 32, 32)>> \o <<>>
  BY <1>3, <1>4, Zenon DEF RestFills
<1> DEFINE f == Fill(Iloc(n) + 32, 32, 32)
<1> HIDE DEF f
<1>6. <<f>> \o <<>> = <<f>>
  OBVIOUS
<1> QED BY <1>5, <1>6 DEF f

(* The length of the indexes, which is cut to eight bits. *)
LEMMA SharedBytes ==
  ASSUME NEW n \in Nat, Info(bytes) = DiskInode(n), NEW at, at = SummaryAt(n)
  PROVE  SharedLen(at) = 4 * (DiskSharedCount(n) % 64)
<1>1. CASE at < ImgLen
  <2> DEFINE s == DiskInode(n).shared
  <2>1. s \in Nat
    <3>1. DiskInode(n).shared \in 0 .. 255
      BY DiskTypes
    <3>2. \A x \in 0 .. 255 : x \in Nat
      OBVIOUS
    <3> QED BY <3>1, <3>2
  <2>2. SharedLen(at) = (4 * s) % 256 /\ DiskSharedCount(n) = s
    BY <1>1 DEF SharedLen, DiskSharedCount
  <2> HIDE DEF s
  <2>3. (4 * s) % (4 * 64) = 4 * (s % 64)
    BY <2>1, UnitRemainder
  <2> QED BY <2>2, <2>3
<1>2. CASE ~(at < ImgLen)
  BY <1>2 DEF SharedLen, DiskSharedCount
<1> QED BY <1>1, <1>2

-----------------------------------------------------------------------------
(* The inductive invariant. *)

Types ==
  /\ stage \in {"idle", "insert", "got", "failed"} \cup Filling
  /\ target \in Nat /\ it \in Nat /\ left \in Nat
  /\ bytes \in [0 .. 63 -> Nat \cup {Zero}]
  /\ words \in Seq(Nat \cup {Zero})
  /\ DOMAIN collection \subseteq Nat

(* The first n bytes of the inode are in the buffer. *)
Holds(n) == \A j \in 0 .. n - 1 : bytes[j] = ByteAt(Iloc(target) + j)

(* Each stage has the bytes that those before it have read.                *)
BytesRead ==
  /\ stage = "base" => todo = <<BaseFill(target)>>
  /\ stage = "rest" =>
       /\ todo = <<Fill(Iloc(target) + 32, 32, 32)>>
       /\ DiskInode(target).version = "Extended"
       /\ Holds(32)
  /\ stage \in {"summary", "indexes", "insert"} => Holds(InodeSize(DiskInode(target)))
  /\ stage \in {"summary", "indexes"} => Shared(target)

(* The indexes read so far are the first ones, and the iterator is at the  *)
(* next.                                                                   *)
Expected == DiskSharedCount(target) % 64

WordsRead ==
  /\ stage \notin {"indexes", "insert"} => words = <<>>
  /\ \A k \in 1 .. Len(words) : words[k] = ByteAt(IndexAt(target, k))
  /\ stage = "indexes" =>
       /\ it = SummaryAt(target) + 12 + 4 * Len(words)
       /\ left + 4 * Len(words) = 4 * Expected
       /\ left > 0
  /\ stage = "insert" => Len(words) = IF Shared(target) THEN Expected ELSE 0

Kept ==
  /\ CacheExact /\ AllOrNothing
  /\ stage = "got" => target \in DOMAIN collection

Inv == Types /\ BytesRead /\ WordsRead /\ Kept

LEMMA NoBytesType == NoBytes \in [0 .. 63 -> Nat \cup {Zero}]
BY DEF NoBytes

LEMMA InvInit == LoadInit => Inv
<1> SUFFICES ASSUME LoadInit PROVE Inv
  OBVIOUS
<1>1. Types
  BY DEF LoadInit, Types, NoBytes, NoEntries
<1>2. BytesRead /\ WordsRead
  BY DEF LoadInit, BytesRead, WordsRead
<1>3. Kept
  BY DEF LoadInit, Kept, CacheExact, AllOrNothing, NoEntries, Filling
<1> QED BY <1>1, <1>2, <1>3 DEF Inv

(* The first byte of a slot tells the inode. *)
LEMMA InfoRead ==
  ASSUME target \in Nat, NEW b, b[0] = ByteAt(Iloc(target) + 0)
  PROVE  Info(b) = DiskInode(target)
<1>1. Iloc(target) + 0 = Iloc(target)
  BY SlotUnits
<1> QED BY <1>1 DEF Info, DiskInode

LEMMA FilledBytes ==
  ASSUME NEW f, NEW b, NEW j \in 0 .. 63
  PROVE  Filled(b, f)[j] =
           IF f.dst <= j /\ j < f.dst + f.n THEN ByteAt(f.at + (j - f.dst)) ELSE b[j]
BY DEF Filled

(* The two fills of an inode bring its two halves. *)
LEMMA FirstHalf ==
  ASSUME NEW a \in Nat, NEW b, NEW j \in 0 .. 32 - 1
  PROVE  Filled(b, Fill(a, 0, 32))[j] = ByteAt(a + j)
<1>1. j \in 0 .. 63 /\ 0 <= j /\ j < 0 + 32 /\ a + (j - 0) = a + j
  OBVIOUS
<1> QED BY <1>1 DEF Filled, Fill

LEMMA SecondHalf ==
  ASSUME NEW a \in Nat, NEW b, NEW j \in 0 .. 64 - 1
  PROVE  Filled(b, Fill(a + 32, 32, 32))[j] = IF j <= 31 THEN b[j] ELSE ByteAt(a + j)
<1>1. j \in 0 .. 63 /\ j < 32 + 32 /\ (a + 32) + (j - 32) = a + j
  OBVIOUS
<1>2. 32 <= j <=> ~(j <= 31)
  OBVIOUS
<1> QED BY <1>1, <1>2 DEF Filled, Fill

LEMMA FilledType ==
  ASSUME NEW b \in [0 .. 63 -> Nat \cup {Zero}], NEW f,
         f.at \in Nat, f.dst \in Nat, f.n \in Nat
  PROVE  Filled(b, f) \in [0 .. 63 -> Nat \cup {Zero}]
<1>1. \A a \in Nat : ByteAt(a) \in Nat \cup {Zero}
  BY DEF ByteAt
<1>2. ASSUME NEW j \in 0 .. 63 PROVE Filled(b, f)[j] \in Nat \cup {Zero}
  <2>1. CASE f.dst <= j /\ j < f.dst + f.n
    <3>1. f.at + (j - f.dst) \in Nat
      BY <2>1
    <3> QED BY <1>1, <2>1, <3>1, FilledBytes
  <2>2. CASE ~(f.dst <= j /\ j < f.dst + f.n)
    BY <2>2, FilledBytes
  <2> QED BY <2>1, <2>2
<1> QED BY <1>2 DEF Filled

(* What the inode was read from goes on with its attributes, or it is      *)
(* complete.                                                               *)
LEMMA AfterInfoStage ==
  ASSUME target \in Nat, NEW b, Info(b) = DiskInode(target)
  PROVE  AfterInfo(b) = IF Shared(target) THEN "summary" ELSE "insert"
BY DiskSizes DEF AfterInfo

LEMMA ReadBaseInv == Inv /\ ReadBase => Inv'
<1> SUFFICES ASSUME Inv, ReadBase PROVE Inv'
  OBVIOUS
<1>1. /\ stage = "base" /\ todo = <<BaseFill(target)>> /\ words = <<>> /\ target \in Nat
      /\ target' = target /\ it' = it /\ left' = left /\ words' = words
      /\ collection' = collection
      /\ bytes' = Filled(bytes, Head(todo))
  BY DEF Inv, Types, BytesRead, WordsRead, ReadBase
<1>2. Head(todo) = Fill(Iloc(target), 0, 32) /\ Iloc(target) \in Nat
  BY <1>1, SlotUnits DEF BaseFill
<1>3. \A j \in 0 .. 32 - 1 : bytes'[j] = ByteAt(Iloc(target) + j)
  BY <1>1, <1>2, FirstHalf
<1>4. Info(bytes') = DiskInode(target)
  <2>1. 0 \in 0 .. 32 - 1
    OBVIOUS
  <2>2. bytes'[0] = ByteAt(Iloc(target) + 0)
    BY <1>3, <2>1
  <2> QED BY <1>1, <2>2, InfoRead
<1>5. Holds(32)'
  BY <1>1, <1>3 DEF Holds
<1>6. bytes' \in [0 .. 63 -> Nat \cup {Zero}]
  <2>1. /\ Fill(Iloc(target), 0, 32).at \in Nat
        /\ Fill(Iloc(target), 0, 32).dst \in Nat /\ Fill(Iloc(target), 0, 32).n \in Nat
    BY <1>2 DEF Fill
  <2> QED BY <1>1, <1>2, <2>1, FilledType DEF Inv, Types
<1>7. target \notin DOMAIN collection
  BY <1>1 DEF Inv, Kept, AllOrNothing, Filling
<1>8. CASE DiskInode(target).version = "Extended"
  <2>1. stage' = "rest" /\ todo' = <<Fill(Iloc(target) + 32, 32, 32)>>
    BY <1>1, <1>4, <1>8, RestIsOneFill DEF ReadBase
  <2>2. Types'
    BY <1>1, <1>6, <2>1 DEF Inv, Types, Filling
  <2>3. BytesRead'
    BY <1>1, <1>5, <1>8, <2>1 DEF BytesRead
  <2>4. WordsRead'
    BY <1>1, <2>1 DEF WordsRead
  <2>5. Kept'
    BY <1>1, <1>7, <2>1 DEF Inv, Kept, CacheExact, AllOrNothing
  <2> QED BY <2>2, <2>3, <2>4, <2>5 DEF Inv
<1>9. CASE DiskInode(target).version # "Extended"
  <2>1. ~Shared(target) /\ InodeSize(DiskInode(target)) = 32
    BY <1>1, <1>9, DiskSizes DEF Shared
  <2>2. stage' = "insert"
    BY <1>1, <1>4, <1>9, <2>1, AfterInfoStage DEF ReadBase
  <2>3. Types'
    BY <1>1, <1>6, <2>2 DEF Inv, Types
  <2>4. BytesRead'
    BY <1>1, <1>5, <2>1, <2>2 DEF BytesRead
  <2>5. WordsRead'
    BY <1>1, <2>1, <2>2 DEF WordsRead
  <2>6. Kept'
    BY <1>1, <1>7, <2>2 DEF Inv, Kept, CacheExact, AllOrNothing
  <2> QED BY <2>3, <2>4, <2>5, <2>6 DEF Inv
<1> QED BY <1>8, <1>9

LEMMA ReadRestInv == Inv /\ ReadRest => Inv'
<1> SUFFICES ASSUME Inv, ReadRest PROVE Inv'
  OBVIOUS
<1> DEFINE f == Fill(Iloc(target) + 32, 32, 32)
<1>1. /\ stage = "rest" /\ todo = <<f>> /\ words = <<>> /\ target \in Nat
      /\ DiskInode(target).version = "Extended" /\ Holds(32)
      /\ target' = target /\ it' = it /\ left' = left /\ words' = words
      /\ collection' = collection
      /\ bytes' = Filled(bytes, Head(todo))
  BY DEF Inv, Types, BytesRead, WordsRead, ReadRest
<1>2. Iloc(target) \in Nat /\ f.at \in Nat /\ f.dst \in Nat /\ f.n \in Nat
  <2>1. Iloc(target) \in Nat
    BY <1>1, SlotUnits
  <2>2. f = [at |-> Iloc(target) + 32, dst |-> 32, n |-> 32]
    BY DEF Fill
  <2> HIDE DEF f
  <2> QED BY <2>1, <2>2
<1> HIDE DEF f
<1>3. bytes' = Filled(bytes, f) /\ Tail(todo) = <<>>
  BY <1>1
<1>4. \A j \in 0 .. 64 - 1 : bytes'[j] = ByteAt(Iloc(target) + j)
  <2> TAKE j \in 0 .. 64 - 1
  <2>1. bytes'[j] = IF j <= 31 THEN bytes[j] ELSE ByteAt(Iloc(target) + j)
    BY <1>2, <1>3, SecondHalf DEF f
  <2>2. CASE j <= 31
    <3>1. j \in 0 .. 32 - 1
      BY <2>2
    <3> QED BY <1>1, <2>1, <2>2, <3>1 DEF Holds
  <2>3. CASE ~(j <= 31)
    BY <2>1, <2>3
  <2> QED BY <2>2, <2>3
<1>5. Info(bytes') = DiskInode(target)
  <2>1. 0 \in 0 .. 64 - 1
    OBVIOUS
  <2>2. bytes'[0] = ByteAt(Iloc(target) + 0)
    BY <1>4, <2>1
  <2> QED BY <1>1, <2>2, InfoRead
<1>6. Holds(InodeSize(DiskInode(target)))'
  BY <1>1, <1>4, DiskSizes DEF Holds
<1>7. bytes' \in [0 .. 63 -> Nat \cup {Zero}]
  BY <1>2, <1>3, FilledType DEF Inv, Types
<1>8. target \notin DOMAIN collection
  BY <1>1 DEF Inv, Kept, AllOrNothing, Filling
<1>9. stage' = IF Shared(target) THEN "summary" ELSE "insert"
  BY <1>1, <1>3, <1>5, AfterInfoStage DEF ReadRest
<1>10. Types'
  BY <1>1, <1>7, <1>9 DEF Inv, Types, Filling
<1>11. BytesRead'
  BY <1>1, <1>6, <1>9 DEF BytesRead
<1>12. WordsRead'
  BY <1>1, <1>9 DEF WordsRead
<1>13. Kept'
  BY <1>1, <1>8, <1>9 DEF Inv, Kept, CacheExact, AllOrNothing
<1> QED BY <1>10, <1>11, <1>12, <1>13 DEF Inv

(* The buffer tells the inode as soon as all of it was read. *)
LEMMA InfoHeld ==
  ASSUME target \in Nat, Holds(InodeSize(DiskInode(target)))
  PROVE  Info(bytes) = DiskInode(target)
<1>1. 0 \in 0 .. InodeSize(DiskInode(target)) - 1
  <2>1. 0 \in 0 .. 32 - 1 /\ 0 \in 0 .. 64 - 1
    OBVIOUS
  <2> QED BY <2>1, DiskSizes
<1>2. bytes[0] = ByteAt(Iloc(target) + 0)
  BY <1>1 DEF Holds
<1> QED BY <1>2, InfoRead

LEMMA SummaryPlace ==
  ASSUME target \in Nat, Holds(InodeSize(DiskInode(target)))
  PROVE  /\ SummaryFill = Fill(SummaryAt(target), 0, 12)
         /\ SummaryAt(target) \in Nat /\ Whole(SummaryAt(target), 32)
<1>1. SummaryFill = Fill(SummaryAt(target), 0, 12)
  BY InfoHeld DEF SummaryFill, SummaryAt
<1>2. PICK m \in Nat : Iloc(target) = 32 * m
  BY SlotUnits DEF Whole
<1>3. SummaryAt(target) = 32 * (m + 1) \/ SummaryAt(target) = 32 * (m + 2)
  BY <1>2, DiskSizes DEF SummaryAt
<1>4. \A q \in Nat : Whole(32 * q, 32) /\ 32 * q \in Nat
  BY DEF Whole
<1>5. m + 1 \in Nat /\ m + 2 \in Nat
  BY <1>2
<1>6. Whole(SummaryAt(target), 32) /\ SummaryAt(target) \in Nat
  BY <1>3, <1>4, <1>5
<1> QED BY <1>1, <1>6

LEMMA ReadSummaryInv == Inv /\ ReadSummary => Inv'
<1> SUFFICES ASSUME Inv, ReadSummary PROVE Inv'
  OBVIOUS
<1>1. /\ stage = "summary" /\ words = <<>> /\ target \in Nat
      /\ Shared(target) /\ Holds(InodeSize(DiskInode(target)))
      /\ target' = target /\ words' = words /\ bytes' = bytes /\ todo' = todo
      /\ collection' = collection
  BY DEF Inv, Types, BytesRead, WordsRead, ReadSummary
<1>2. SummaryFill = Fill(SummaryAt(target), 0, 12) /\ SummaryAt(target) \in Nat
  BY <1>1, SummaryPlace
<1>3. it' = SummaryAt(target) + 12 /\ left' = SharedLen(SummaryAt(target))
  BY <1>2 DEF ReadSummary, Fill
<1>4. left' = 4 * Expected
  BY <1>1, <1>3, InfoHeld, SharedBytes DEF Expected
<1>5. Expected \in Nat
  <2>1. DiskSharedCount(target) \in 0 .. 255
    BY <1>1, DiskSizes
  <2> QED BY <2>1 DEF Expected
<1>6. it' \in Nat /\ left' \in Nat
  BY <1>2, <1>3, <1>4, <1>5
<1>7. stage' = IF left' = 0 THEN "insert" ELSE "indexes"
  BY DEF ReadSummary
<1>8. Types'
  BY <1>1, <1>6, <1>7 DEF Inv, Types, Filling
<1>9. BytesRead'
  BY <1>1, <1>7 DEF BytesRead, Holds
<1>10. WordsRead'
  <2>1. Expected' = Expected /\ SummaryAt(target)' = SummaryAt(target)
    BY <1>1 DEF Expected
  <2>2. Len(words') = 0
    BY <1>1
  <2>3. left' = 0 => Expected = 0
    BY <1>4, <1>5
  <2>4. left' # 0 => left' > 0
    BY <1>6
  <2>5. it' = SummaryAt(target) + 12 + 4 * 0 /\ left' + 4 * 0 = 4 * Expected
    BY <1>2, <1>3, <1>4, <1>5
  <2> QED BY <1>1, <1>7, <2>1, <2>2, <2>3, <2>4, <2>5 DEF WordsRead
<1>11. Kept'
  BY <1>1, <1>7 DEF Inv, Kept, CacheExact, AllOrNothing, Filling
<1> QED BY <1>8, <1>9, <1>10, <1>11 DEF Inv

(* The iterator takes whole indexes, at least one, and stays in a block. *)
LEMMA PieceFacts ==
  ASSUME it \in Nat, left \in Nat, left > 0, Whole(it, 4), Whole(left, 4)
  PROVE  /\ Piece \in Nat /\ Piece > 0 /\ Piece <= left /\ Whole(Piece, 4)
         /\ (it % BlkSz) + Piece <= BlkSz
<1> DEFINE off == it % BlkSz
           rest == BlkSz - off
<1>1. BlkSz \in Nat \ {0} /\ Whole(BlkSz, 4)
  BY GeometryAssumption, SlotUnits
<1>2. off \in Nat /\ Whole(off, 4) /\ off + 4 <= BlkSz
  BY <1>1, WholeRemainder
<1>3. BlkAccess(it).len = rest
  BY DEF BlkAccess, Accessor
<1>4. PICK x, y \in Nat : BlkSz = 4 * x /\ off = 4 * y
  BY <1>1, <1>2 DEF Whole
<1> HIDE DEF off
<1>5. rest = 4 * (x - y) /\ x - y \in Nat /\ rest \in Nat /\ rest > 0 /\ off + rest = BlkSz
  BY <1>1, <1>2, <1>4
<1>6. Whole(rest, 4)
  BY <1>5 DEF Whole
<1>7. Piece = IF rest <= left THEN rest ELSE left
  BY <1>3 DEF Piece, Lesser
<1> HIDE DEF rest
<1>8. Whole(Piece, 4)
  BY <1>6, <1>7
<1>9. Piece \in Nat /\ Piece > 0 /\ Piece <= left /\ Piece <= rest
  BY <1>5, <1>7
<1> QED BY <1>1, <1>2, <1>5, <1>8, <1>9 DEF off

LEMMA ConcatLen ==
  ASSUME NEW S, NEW s \in Seq(S), NEW t \in Seq(S)
  PROVE  s \o t \in Seq(S) /\ Len(s \o t) = Len(s) + Len(t)
OBVIOUS

LEMMA ConcatElement ==
  ASSUME NEW S, NEW s \in Seq(S), NEW t \in Seq(S), NEW k \in 1 .. Len(s) + Len(t)
  PROVE  (s \o t)[k] = IF k <= Len(s) THEN s[k] ELSE t[k - Len(s)]
OBVIOUS

(* The words of a piece of n indexes that starts at the index after k.     *)
LEMMA PieceIndexes ==
  ASSUME target \in Nat, SummaryAt(target) \in Nat, NEW k \in Nat, NEW n \in Nat,
         it = SummaryAt(target) + 12 + 4 * k, Piece = 4 * n
  PROVE  /\ PieceWords \in Seq(Nat \cup {Zero}) /\ Len(PieceWords) = n
         /\ \A j \in 1 .. n : PieceWords[j] = ByteAt(IndexAt(target, k + j))
<1>1. Piece \div 4 = n
  OBVIOUS
<1>2. PieceWords = [j \in 1 .. n |-> ByteAt(it + 4 * (j - 1))]
  BY <1>1 DEF PieceWords
<1>3. \A j \in 1 .. n : it + 4 * (j - 1) = IndexAt(target, k + j) /\ it + 4 * (j - 1) \in Nat
  BY DEF IndexAt
<1>4. \A a \in Nat : ByteAt(a) \in Nat \cup {Zero}
  BY DEF ByteAt
<1>5. \A j \in 1 .. n : PieceWords[j] = ByteAt(IndexAt(target, k + j))
  BY <1>2, <1>3
<1>6. PieceWords \in [1 .. n -> Nat \cup {Zero}]
  BY <1>2, <1>3, <1>4
<1>7. PieceWords \in Seq(Nat \cup {Zero}) /\ Len(PieceWords) = n
  BY <1>6
<1> QED BY <1>5, <1>7

(* Where the indexes go on, and that they are whole. *)
LEMMA IndexesPlace ==
  ASSUME Inv, stage = "indexes"
  PROVE  /\ it \in Nat /\ left \in Nat /\ left > 0 /\ Whole(it, 4) /\ Whole(left, 4)
         /\ SummaryAt(target) \in Nat /\ target \in Nat
<1>1. /\ it \in Nat /\ left \in Nat /\ left > 0 /\ target \in Nat
      /\ words \in Seq(Nat \cup {Zero})
      /\ it = SummaryAt(target) + 12 + 4 * Len(words)
      /\ left + 4 * Len(words) = 4 * Expected
      /\ Holds(InodeSize(DiskInode(target)))
  BY DEF Inv, Types, BytesRead, WordsRead
<1>2. SummaryAt(target) \in Nat /\ Whole(SummaryAt(target), 32)
  BY <1>1, SummaryPlace
<1>3. PICK m \in Nat : SummaryAt(target) = 32 * m
  BY <1>2 DEF Whole
<1> DEFINE n == Len(words)
           e == Expected
<1>4. n \in Nat
  BY <1>1
<1>5. e \in Nat
  <2>1. DiskSharedCount(target) \in 0 .. 255
    BY <1>1, DiskSizes
  <2> QED BY <2>1 DEF Expected
<1>6. it = (32 * m) + 12 + (4 * n) /\ left + (4 * n) = 4 * e /\ left \in Nat
  BY <1>1, <1>3
<1> HIDE DEF n, e
<1>7. it = 4 * ((8 * m) + 3 + n) /\ (8 * m) + 3 + n \in Nat
  BY <1>3, <1>4, <1>6
<1>8. left = 4 * (e - n) /\ e - n \in Nat
  BY <1>4, <1>5, <1>6
<1> QED BY <1>1, <1>2, <1>7, <1>8 DEF Whole

LEMMA ReadIndexesInv == Inv /\ ReadIndexes => Inv'
<1> SUFFICES ASSUME Inv, ReadIndexes PROVE Inv'
  OBVIOUS
<1>1. /\ stage = "indexes" /\ target \in Nat /\ words \in Seq(Nat \cup {Zero})
      /\ Shared(target) /\ Holds(InodeSize(DiskInode(target)))
      /\ target' = target /\ bytes' = bytes /\ todo' = todo /\ collection' = collection
      /\ words' = words \o PieceWords
      /\ it' = it + Piece /\ left' = left - Piece
      /\ stage' = IF left' = 0 THEN "insert" ELSE "indexes"
  BY DEF Inv, Types, BytesRead, WordsRead, ReadIndexes
<1>2. /\ it \in Nat /\ left \in Nat /\ left > 0 /\ Whole(it, 4) /\ Whole(left, 4)
      /\ SummaryAt(target) \in Nat
  BY <1>1, IndexesPlace
<1>3. Piece \in Nat /\ Piece > 0 /\ Piece <= left /\ Whole(Piece, 4)
  BY <1>2, PieceFacts
<1>4. PICK p \in Nat : Piece = 4 * p
  BY <1>3 DEF Whole
<1> DEFINE n == Len(words)
<1>5. n \in Nat
  BY <1>1
<1>6. it = SummaryAt(target) + 12 + 4 * n /\ left + 4 * n = 4 * Expected
  BY <1>1 DEF Inv, WordsRead
<1> HIDE DEF n
<1>7. /\ PieceWords \in Seq(Nat \cup {Zero}) /\ Len(PieceWords) = p
      /\ \A j \in 1 .. p : PieceWords[j] = ByteAt(IndexAt(target, n + j))
  BY <1>1, <1>2, <1>4, <1>5, <1>6, PieceIndexes
<1>8. /\ words' \in Seq(Nat \cup {Zero}) /\ Len(words') = n + p
      /\ \A k \in 1 .. n + p : words'[k] = IF k <= n THEN words[k] ELSE PieceWords[k - n]
  <2> DEFINE w == PieceWords
             S == Nat \cup {Zero}
  <2>1. w \in Seq(S) /\ Len(w) = p /\ words \in Seq(S) /\ words' = words \o w
    BY <1>1, <1>7
  <2> HIDE DEF w, S
  <2>2. words' \in Seq(S) /\ Len(words') = n + p
    BY <2>1, ConcatLen DEF n
  <2>3. ASSUME NEW k \in 1 .. n + p
        PROVE  words'[k] = IF k <= n THEN words[k] ELSE w[k - n]
    BY <2>1, <2>3, ConcatElement DEF n
  <2> QED BY <2>2, <2>3 DEF w, S
<1>9. \A k \in 1 .. n + p : words'[k] = ByteAt(IndexAt(target, k))
  <2> TAKE k \in 1 .. n + p
  <2>1. CASE k <= n
    <3>1. k \in 1 .. n
      BY <1>4, <1>5, <2>1
    <3> QED BY <1>8, <2>1, <3>1 DEF Inv, WordsRead, n
  <2>2. CASE ~(k <= n)
    <3>1. k - n \in 1 .. p /\ n + (k - n) = k
      BY <1>4, <1>5, <2>2
    <3> QED BY <1>7, <1>8, <2>2, <3>1
  <2> QED BY <2>1, <2>2
<1>10. /\ it' \in Nat /\ left' \in Nat
       /\ it' = SummaryAt(target) + 12 + 4 * (n + p)
       /\ left' + 4 * (n + p) = 4 * Expected
  <2>1. \A s, i, l, m, q, e \in Nat :
          i = s + 12 + 4 * m /\ l + 4 * m = e /\ 4 * q <= l =>
            /\ i + 4 * q \in Nat /\ l - (4 * q) \in Nat
            /\ i + 4 * q = s + 12 + 4 * (m + q) /\ (l - (4 * q)) + 4 * (m + q) = e
    OBVIOUS
  <2> DEFINE s == SummaryAt(target)
             e == 4 * Expected
             q == 4 * p
  <2>2. e \in Nat
    BY <1>2, <1>5, <1>6
  <2>3. /\ s \in Nat /\ it \in Nat /\ left \in Nat
        /\ it = s + 12 + 4 * n /\ left + 4 * n = e /\ q <= left
        /\ it' = it + q /\ left' = left - q
    BY <1>1, <1>2, <1>3, <1>4, <1>6
  <2>4. it' \in Nat /\ left' \in Nat /\ it' = s + 12 + 4 * (n + p) /\ left' + 4 * (n + p) = e
    <3> HIDE DEF s, e
    <3> QED BY <1>4, <1>5, <2>1, <2>2, <2>3
  <2> QED BY <2>4
<1>11. Types'
  BY <1>1, <1>8, <1>10 DEF Inv, Types, Filling
<1>12. BytesRead'
  BY <1>1 DEF BytesRead, Holds
<1>13. WordsRead'
  <2>1. Expected' = Expected /\ SummaryAt(target)' = SummaryAt(target)
    BY <1>1 DEF Expected
  <2>2. left' = 0 => n + p = Expected
    <3>1. Expected \in Nat
      <4>1. DiskSharedCount(target) \in 0 .. 255
        BY <1>1, DiskSizes
      <4> QED BY <4>1 DEF Expected
    <3> QED BY <1>4, <1>5, <1>10, <3>1
  <2>3. left' # 0 => left' > 0
    BY <1>10
  <2> QED BY <1>1, <1>8, <1>9, <1>10, <2>1, <2>2, <2>3 DEF WordsRead
<1>14. Kept'
  BY <1>1 DEF Inv, Kept, CacheExact, AllOrNothing, Filling
<1> QED BY <1>11, <1>12, <1>13, <1>14 DEF Inv

(* What is inserted is what the image stores. *)
LEMMA InsertInv == Inv /\ Insert => Inv'
<1> SUFFICES ASSUME Inv, Insert PROVE Inv'
  OBVIOUS
<1> DEFINE entry == [bytes |-> bytes, shared |-> words]
<1>1. /\ stage = "insert" /\ stage' = "got" /\ target' = target /\ target \in Nat
      /\ collection' = With(target, entry)
      /\ Holds(InodeSize(DiskInode(target)))
      /\ it' = 0 /\ left' = 0 /\ words' = <<>> /\ bytes' = NoBytes
  BY DEF Inv, Types, BytesRead, Insert, Drop
<1>2. /\ Faithful(target, entry)
      /\ StoredCount(target) < 64 => Complete(target, entry)
  <2>1. /\ Len(words) = IF Shared(target) THEN DiskSharedCount(target) % 64 ELSE 0
        /\ \A k \in 1 .. Len(words) : words[k] = ByteAt(IndexAt(target, k))
    BY <1>1 DEF Inv, WordsRead, Expected
  <2>2. DiskSharedCount(target) \in 0 .. 255
    BY <1>1, DiskSizes
  <2>3. \A c \in 0 .. 255 : c % 64 <= c /\ (c < 64 => c % 64 = c)
    OBVIOUS
  <2>4. Len(words) <= StoredCount(target) /\ (StoredCount(target) < 64 => Len(words) = StoredCount(target))
    <3> DEFINE c == DiskSharedCount(target)
    <3>1. c % 64 <= c /\ (c < 64 => c % 64 = c)
      BY <2>2, <2>3
    <3>2. CASE Shared(target)
      <4>1. Len(words) = c % 64 /\ StoredCount(target) = c
        BY <2>1, <3>2 DEF StoredCount
      <4> QED BY <3>1, <4>1
    <3>3. CASE ~Shared(target)
      BY <2>1, <3>3 DEF StoredCount
    <3> QED BY <3>2, <3>3
  <2> QED BY <1>1, <2>1, <2>4 DEF Faithful, Complete, Holds
<1> HIDE DEF entry
<1>3. /\ DOMAIN collection' = DOMAIN collection \cup {target}
      /\ collection'[target] = entry
      /\ \A n \in DOMAIN collection : n # target => collection'[n] = collection[n]
  BY <1>1 DEF With
<1>4. CacheExact'
  BY <1>2, <1>3 DEF Inv, Kept, CacheExact
<1>5. Types'
  <2>1. words' \in Seq(Nat \cup {Zero}) /\ it' \in Nat /\ left' \in Nat
    BY <1>1
  <2> QED BY <1>1, <1>3, <2>1, NoBytesType DEF Inv, Types
<1>6. BytesRead' /\ WordsRead'
  BY <1>1 DEF BytesRead, WordsRead
<1>7. Kept'
  BY <1>1, <1>3, <1>4 DEF Kept, AllOrNothing, Filling
<1> QED BY <1>5, <1>6, <1>7 DEF Inv

LEMMA LoadFailsInv == Inv /\ LoadFails => Inv'
<1> SUFFICES ASSUME Inv, LoadFails PROVE Inv'
  OBVIOUS
<1>1. /\ stage \in Filling /\ stage' = "failed" /\ target' = target /\ collection' = collection
      /\ it' = 0 /\ left' = 0 /\ words' = <<>> /\ bytes' = NoBytes
  BY DEF LoadFails, Drop
<1>2. Types'
  <2>1. words' \in Seq(Nat \cup {Zero}) /\ it' \in Nat /\ left' \in Nat
    BY <1>1
  <2> QED BY <1>1, <2>1, NoBytesType DEF Inv, Types
<1>4. BytesRead' /\ WordsRead'
  BY <1>1 DEF BytesRead, WordsRead, Filling
<1>3. Kept'
  BY <1>1 DEF Inv, Kept, CacheExact, AllOrNothing
<1> QED BY <1>2, <1>3, <1>4 DEF Inv

LEMMA GetInv == ASSUME NEW nid \in Nat PROVE Inv /\ Get(nid) => Inv'
<1> SUFFICES ASSUME Inv, Get(nid) PROVE Inv'
  OBVIOUS
<1>1. /\ stage = "idle" /\ target' = nid /\ collection' = collection
      /\ it' = it /\ left' = left /\ words' = words /\ bytes' = bytes /\ words = <<>>
      /\ \/ nid \in DOMAIN collection /\ stage' = "got"
         \/ nid \notin DOMAIN collection /\ stage' = "base" /\ todo' = <<BaseFill(nid)>>
  BY DEF Get, Inv, WordsRead
<1>2. stage' \in {"got", "base"} /\ (stage' = "base" => todo' = <<BaseFill(target')>>)
  BY <1>1
<1>4. Types'
  BY <1>1, <1>2 DEF Inv, Types, Filling
<1>5. BytesRead'
  BY <1>2 DEF BytesRead
<1>6. WordsRead'
  BY <1>1, <1>2 DEF WordsRead
<1>3. Kept'
  BY <1>1 DEF Inv, Kept, CacheExact, AllOrNothing, Filling
<1> QED BY <1>3, <1>4, <1>5, <1>6 DEF Inv

LEMMA RemoveInv == ASSUME NEW nid \in Nat PROVE Inv /\ Remove(nid) => Inv'
<1> SUFFICES ASSUME Inv, Remove(nid) PROVE Inv'
  OBVIOUS
<1>1. /\ stage = "idle" /\ UNCHANGED <<stage, target, todo, bytes, it, left, words>>
      /\ DOMAIN collection' = DOMAIN collection \ {nid}
      /\ \A n \in DOMAIN collection' : collection'[n] = collection[n]
  BY DEF Remove, local
<1>2. Types' /\ BytesRead' /\ WordsRead'
  BY <1>1 DEF Inv, Types, BytesRead, WordsRead
<1>3. Kept'
  BY <1>1 DEF Inv, Kept, CacheExact, AllOrNothing, Filling
<1> QED BY <1>2, <1>3 DEF Inv

LEMMA LeaveInv == Inv /\ Leave => Inv'
<1> SUFFICES ASSUME Inv, Leave PROVE Inv'
  OBVIOUS
<1>1. /\ stage' = "idle" /\ stage \in {"got", "failed"}
      /\ UNCHANGED <<target, todo, bytes, it, left, words, collection>>
  BY DEF Leave, local
<1>2. Types' /\ BytesRead' /\ WordsRead'
  BY <1>1 DEF Inv, Types, BytesRead, WordsRead
<1>3. Kept'
  BY <1>1 DEF Inv, Kept, CacheExact, AllOrNothing, Filling
<1> QED BY <1>2, <1>3 DEF Inv

LEMMA InvNext == Inv /\ [LoadNext]_load => Inv'
<1> SUFFICES ASSUME Inv, [LoadNext]_load PROVE Inv'
  OBVIOUS
<1>1. CASE UNCHANGED load
  <2>1. UNCHANGED <<stage, target, todo, bytes, it, left, words, collection>>
    BY <1>1 DEF load, local
  <2>2. Types' /\ BytesRead' /\ WordsRead'
    BY <2>1 DEF Inv, Types, BytesRead, WordsRead, Holds, Expected
  <2>3. Kept'
    BY <2>1 DEF Inv, Kept, CacheExact, AllOrNothing
  <2> QED BY <2>2, <2>3 DEF Inv
<1>2. CASE \E nid \in Nat : Get(nid) \/ Remove(nid)
  BY <1>2, GetInv, RemoveInv
<1>3. CASE Load
  BY <1>3, ReadBaseInv, ReadRestInv, ReadSummaryInv, ReadIndexesInv, InsertInv DEF Load
<1>4. CASE LoadFails
  BY <1>4, LoadFailsInv
<1>5. CASE Leave
  BY <1>5, LeaveInv
<1> QED BY <1>1, <1>2, <1>3, <1>4, <1>5 DEF LoadNext

-----------------------------------------------------------------------------
(* Theorems. *)

THEOREM Invariance == LoadSpec => []Inv
<1> QED BY InvInit, InvNext, PTL DEF LoadSpec

(* The variables of the load keep their types: fills are left over only    *)
(* while the inode is read, and the iterator never goes past the end of    *)
(* the indexes (iget, InodeInfo::try_from,                                 *)
(* read_inode_xattrs_shared_entries).                                      *)
THEOREM LoadTypesCorrect == LoadSpec => []LoadTypeOK
<1>1. Inv => LoadTypeOK
  <2> SUFFICES ASSUME Inv PROVE LoadTypeOK
    OBVIOUS
  <2>1. stage \in {"base", "rest"} => todo # <<>>
    BY DEF Inv, BytesRead
  <2> QED BY <2>1 DEF Inv, Types, Kept, LoadTypeOK
<1> QED BY <1>1, Invariance, PTL

(* Every cached inode is the one the image stores in its slot, and its     *)
(* shared indexes are the first ones of the image, all of them when they   *)
(* are fewer than 64, however it was read (FuseCollection::iget).          *)
THEOREM CacheCorrect == LoadSpec => []CacheExact
<1>1. Inv => CacheExact
  BY DEF Inv, Kept
<1> QED BY <1>1, Invariance, PTL

(* What was not read to its end is not in the collection                   *)
(* (FuseCollection::iget).                                                 *)
THEOREM AllOrNothingCorrect == LoadSpec => []AllOrNothing
<1>1. Inv => AllOrNothing
  BY DEF Inv, Kept
<1> QED BY <1>1, Invariance, PTL

(* No fill of a load crosses a block (InodeInfo::try_from,                 *)
(* read_inode_xattrs_shared_entries).                                      *)
THEOREM FillsCorrect == LoadSpec => []FillsInBlock
<1>1. Inv => FillsInBlock
  <2> SUFFICES ASSUME Inv, stage \in Filling
               PROVE  BlkAccess(Pending.at).off + Pending.n <= BlkSz
    BY DEF FillsInBlock
  <2>1. target \in Nat /\ Iloc(target) \in Nat /\ Whole(Iloc(target), 32)
    BY SlotUnits DEF Inv, Types
  <2>2. \A a : BlkAccess(a).off = a % BlkSz
    BY DEF BlkAccess, Accessor
  <2>3. CASE stage = "base"
    <3>1. Pending.at = Iloc(target) /\ Pending.n = 32
      BY <2>3 DEF Inv, BytesRead, Pending, BaseFill, Fill
    <3> QED BY <2>1, <2>2, <3>1, SlotInBlock
  <2>4. CASE stage = "rest"
    <3>1. Pending.at = Iloc(target) + 32 /\ Pending.n = 32
      BY <2>4 DEF Inv, BytesRead, Pending, Fill
    <3>2. PICK m \in Nat : Iloc(target) = 32 * m
      BY <2>1 DEF Whole
    <3>3. Iloc(target) + 32 = 32 * (m + 1) /\ m + 1 \in Nat /\ Iloc(target) + 32 \in Nat
      BY <2>1, <3>2
    <3>4. Whole(Iloc(target) + 32, 32)
      BY <3>3 DEF Whole
    <3> QED BY <2>2, <3>1, <3>3, <3>4, SlotInBlock
  <2>5. CASE stage = "summary"
    <3>1. Pending = Fill(SummaryAt(target), 0, 12)
      BY <2>1, <2>5, SummaryPlace DEF Inv, BytesRead, Pending
    <3>2. Pending.at = SummaryAt(target) /\ Pending.n = 12
      BY <3>1 DEF Fill
    <3>3. SummaryAt(target) \in Nat /\ Whole(SummaryAt(target), 32)
      BY <2>1, <2>5, SummaryPlace DEF Inv, BytesRead
    <3>4. SummaryAt(target) % BlkSz \in Nat /\ (SummaryAt(target) % BlkSz) + 32 <= BlkSz
      BY <3>3, SlotInBlock
    <3> QED BY <2>2, <3>2, <3>4, GeometryAssumption
  <2>6. CASE stage = "indexes"
    <3>1. Pending.at = it /\ Pending.n = Piece
      BY <2>6 DEF Pending, Fill
    <3>2. (it % BlkSz) + Piece <= BlkSz
      BY <2>6, IndexesPlace, PieceFacts
    <3> QED BY <2>2, <3>1, <3>2
  <2> QED BY <2>3, <2>4, <2>5, <2>6 DEF Filling
<1> QED BY <1>1, Invariance, PTL


-----------------------------------------------------------------------------
(* Numbers and names. *)

LEMMA RootPlain == RootNid = Root /\ Root \in Numbered
<1>1. Root \in Nat /\ 2 * Root < RootValues
  BY ServerAssumption
<1>2. RootNid = Root
  BY <1>1 DEF RootNid, SignExtend
<1> QED BY <1>1, <1>2 DEF Numbered

(* A root number is a nid of the server as it stands, and the root is      *)
(* found, exactly where its sixteenth bit is not set: from 2^15 on, sign    *)
(* extension (fuse main.rs:162, 171) makes it another one.                 *)
THEOREM RootNumberExact ==
  \A r \in 0 .. RootValues - 1 : SignExtend(r) = r <=> 2 * r < RootValues
<1> SUFFICES ASSUME NEW r \in 0 .. RootValues - 1
             PROVE  SignExtend(r) = r <=> 2 * r < RootValues
  OBVIOUS
<1>1. RootValues \in Nat /\ NidValues \in Nat /\ RootValues < NidValues
  BY ServerAssumption
<1>2. 2 * r < RootValues => SignExtend(r) = r
  BY DEF SignExtend
<1>3. ASSUME ~(2 * r < RootValues)
      PROVE  SignExtend(r) # r
  <2>1. SignExtend(r) = r - RootValues + NidValues
    BY <1>3 DEF SignExtend
  <2> QED BY <1>1, <2>1
<1> QED BY <1>2, <1>3

(* A nid comes back from both numbers it is given. *)
LEMMA NumberBack ==
  ASSUME NEW nid \in Numbered
  PROVE  /\ InoToNid(AttrIno(nid)) = nid
         /\ InoToNid(NidToIno(nid)) = nid
<1>1. nid \in Nat /\ (nid = 0 => Root = 0)
  BY DEF Numbered
<1>2. (nid + 1) - 1 = nid /\ (nid + 1 = 1 => nid = 0)
  BY <1>1
<1> QED BY <1>1, <1>2, RootPlain DEF InoToNid, AttrIno, NidToIno, FuseRootId

LEMMA EntryTypes ==
  ASSUME NEW d, NEW k \in DOMAIN Entries(d)
  PROVE  k \in Nat /\ Entries(d)[k].nid \in Numbered
<1>1. DOMAIN <<>> = {}
  OBVIOUS
<1>2. d \in DOMAIN Children /\ Entries(d) = Children[d]
  BY <1>1 DEF Entries
<1> QED BY <1>2, ServerAssumption

LEMMA OneMatch ==
  ASSUME NEW d, NEW name, NEW j \in Matching(d, name), NEW k \in Matching(d, name)
  PROVE  j = k
<1>1. DOMAIN <<>> = {}
  OBVIOUS
<1>2. j \in DOMAIN Entries(d) /\ k \in DOMAIN Entries(d) /\ Entries(d)[j].name = Entries(d)[k].name
  BY DEF Matching
<1>3. d \in DOMAIN Children /\ Entries(d) = Children[d]
  BY <1>1, <1>2 DEF Entries
<1> QED BY <1>2, <1>3, ServerAssumption

(* The entry found under a name is the only one. *)
LEMMA FoundFacts ==
  ASSUME NEW d, NEW name, Matching(d, name) # {}
  PROVE  /\ FoundNid(d, name) \in Numbered /\ FoundNid(d, name) \in Nat
         /\ Meant(d, name) = {FoundNid(d, name)}
<1>1. PICK k : k \in Matching(d, name)
  OBVIOUS
<1>2. k \in DOMAIN Entries(d)
  BY <1>1 DEF Matching
<1>3. k \in Nat /\ Entries(d)[k].nid \in Numbered /\ Entries(d)[k].nid \in Nat
  BY <1>2, EntryTypes DEF Numbered
<1>4. \A j \in Matching(d, name) : j = k
  BY <1>1, OneMatch
<1>5. \A j \in Matching(d, name) : k <= j
  BY <1>3, <1>4
<1>6. k = CHOOSE c \in Matching(d, name) : \A j \in Matching(d, name) : c <= j
  BY <1>1, <1>4, <1>5
<1>7. FoundNid(d, name) = Entries(d)[k].nid
  BY <1>6 DEF FoundNid
<1>8. Meant(d, name) = {Entries(d)[k].nid}
  BY <1>1, <1>4 DEF Meant
<1> QED BY <1>3, <1>7, <1>8

-----------------------------------------------------------------------------
(* The invariant of the session. *)

Busy == {"asked", "inode", "search", "child", "replied"}

(* A number goes with the inode it leads to. *)
Right(k) == k.nid \in Numbered /\ k.nid \in Nat /\ InoToNid(k.ino) = k.nid

NumbersRight ==
  /\ \A k \in known : Right(k)
  /\ \A h \in handles : Right(h)

RequestRight ==
  /\ phase \in {"off", "idle"} => req = NoRequest
  /\ phase \in Busy =>
       /\ Right(req) /\ req.op \in Service!Ops /\ req.name \in Names \cup {""}
       /\ req.span \in Reads \cup {NoSpan} /\ (req.op = "read" => req.span \in Reads)

(* A handler works on the inode that the request means, or on the one that *)
(* it found in it.                                                         *)
HandlerRight ==
  /\ phase \in {"off", "idle"} \cup Busy
  /\ phase # "replied" => reply = NoReply
  /\ phase \in {"inode", "search"} => target = req.nid
  /\ phase \in {"inode", "search", "child"} => ~BadName /\ req.op # "release"
  /\ phase \in {"search", "child"} => req.op = "lookup" /\ Matching(req.nid, req.name) # {}
  /\ phase = "child" => target = FoundNid(req.nid, req.name)
  /\ phase = "replied" => reply # NoReply
  /\ phase = "replied" /\ reply.kind = "entry" =>
       Matching(req.nid, req.name) # {} /\ reply.ino = AttrIno(FoundNid(req.nid, req.name))

Session == NumbersRight /\ RequestRight /\ HandlerRight

ServerInv == Inv /\ Session

LEMMA ServerInvInit == Init => ServerInv
<1> SUFFICES ASSUME Init PROVE ServerInv
  OBVIOUS
<1>1. Inv
  BY InvInit DEF Init
<1>2. NumbersRight /\ RequestRight /\ HandlerRight
  BY DEF Init, NumbersRight, RequestRight, HandlerRight, Busy
<1> QED BY <1>1, <1>2 DEF ServerInv, Session

(* What the handlers do to the collection are steps of InodeLoad. *)
LEMMA LoadStep == ServerInv /\ [Next]_vars => [LoadNext]_load
<1> SUFFICES ASSUME ServerInv, [Next]_vars PROVE [LoadNext]_load
  OBVIOUS
<1>1. CASE UNCHANGED vars
  BY <1>1 DEF vars
<1>2. CASE Start
  BY <1>2 DEF Start
<1>3. CASE Kernel
  BY <1>3 DEF Kernel, AskAttr, AskLookup, AskLink, AskOpen, AskListing, AskRead, AskRelease, Send, Forget, TakeReply
<1>4. CASE GetInode
  <2>1. InoToNid(req.ino) \in Nat
    BY <1>4 DEF GetInode, ServerInv, Session, RequestRight, Right, Busy
  <2> QED BY <1>4, <2>1 DEF GetInode, LoadNext
<1>5. CASE ReplyRelease
  <2>1. InoToNid(req.ino) \in Nat
    BY <1>5 DEF ReplyRelease, ServerInv, Session, RequestRight, Right, Busy
  <2> QED BY <1>5, <2>1 DEF ReplyRelease, LoadNext
<1>6. CASE GetChild
  <2>1. FoundNid(target, req.name) \in Nat
    BY <1>6, FoundFacts DEF GetChild, ServerInv, Session, HandlerRight
  <2> QED BY <1>6, <2>1 DEF GetChild, LoadNext
<1>7. CASE RejectName
  BY <1>7 DEF RejectName
<1>8. CASE Loading \/ LoadingFails
  BY <1>8 DEF Loading, LoadingFails, LoadNext
<1>9. CASE \/ ReplyFailed \/ ReplyAttr \/ ReplyOpened \/ ReplyData \/ ReplyListing
           \/ DataFails \/ Search \/ ReplyEntry
  BY <1>9 DEF ReplyFailed, ReplyAttr, ReplyOpened, ReplyData, ReplyListing, DataFails, Search,
              ReplyEntry, LoadNext
<1> QED BY <1>1, <1>2, <1>3, <1>4, <1>5, <1>6, <1>7, <1>8, <1>9 DEF Next, Serve

-----------------------------------------------------------------------------
(* The steps of the session. *)

LEMMA StartSession == Session /\ Start => Session'
<1> SUFFICES ASSUME Session, Start PROVE Session'
  OBVIOUS
<1>1. Right([ino |-> FuseRootId, nid |-> Root])
  BY RootPlain DEF Right, InoToNid, Numbered
<1>2. /\ phase = "off" /\ phase' = "idle" /\ req' = req /\ reply' = reply /\ handles' = handles
      /\ known' = {[ino |-> FuseRootId, nid |-> Root]}
  BY DEF Start
<1>3. NumbersRight'
  BY <1>1, <1>2 DEF Session, NumbersRight, Right
<1>4. RequestRight' /\ HandlerRight'
  BY <1>2 DEF Session, RequestRight, HandlerRight, Busy
<1> QED BY <1>3, <1>4 DEF Session

LEMMA SendSession ==
  ASSUME Session, NEW op \in Service!Ops, NEW k, Right(k), NEW name \in Names \cup {""},
         NEW fh, NEW span \in Reads \cup {NoSpan}, op = "read" => span \in Reads,
         Send(Request(op, k, name, fh, span))
  PROVE  Session'
<1>1. /\ phase = "idle" /\ phase' = "asked" /\ req' = Request(op, k, name, fh, span)
      /\ reply' = reply /\ known' = known /\ handles' = handles
  BY DEF Send, kernel
<1>2. /\ req'.ino = k.ino /\ req'.nid = k.nid /\ req'.op = op /\ req'.name = name
      /\ req'.span = span
  BY <1>1 DEF Request
<1>3. NumbersRight'
  BY <1>1 DEF Session, NumbersRight
<1>4. RequestRight'
  BY <1>1, <1>2 DEF RequestRight, Busy, Right
<1>5. HandlerRight'
  BY <1>1 DEF Session, HandlerRight, Busy
<1> QED BY <1>3, <1>4, <1>5 DEF Session

LEMMA AskSession ==
  ASSUME Session, AskAttr \/ AskLookup \/ AskLink \/ AskOpen \/ AskListing \/ AskRead \/ AskRelease
  PROVE  Session'
<1>1. /\ \A k \in known : Right(k)
      /\ \A h \in handles : Right(h)
  BY DEF Session, NumbersRight
<1>2. {"getattr", "lookup", "readlink", "open", "readdir", "read", "release"} \subseteq Service!Ops
  BY DEF Service!Ops
<1>3. CASE AskAttr
  BY <1>1, <1>2, <1>3, SendSession DEF AskAttr
<1>4. CASE AskLookup
  BY <1>1, <1>2, <1>4, SendSession DEF AskLookup
<1>5. CASE AskLink
  BY <1>1, <1>2, <1>5, SendSession DEF AskLink
<1>6. CASE AskOpen
  BY <1>1, <1>2, <1>6, SendSession DEF AskOpen
<1>7. CASE AskListing
  BY <1>1, <1>2, <1>7, SendSession DEF AskListing
<1>8. CASE AskRead
  BY <1>1, <1>2, <1>8, SendSession DEF AskRead
<1>9. CASE AskRelease
  BY <1>1, <1>2, <1>9, SendSession DEF AskRelease
<1> QED BY <1>3, <1>4, <1>5, <1>6, <1>7, <1>8, <1>9

LEMMA ForgetSession == Session /\ Forget => Session'
BY DEF Session, Forget, NumbersRight, RequestRight, HandlerRight, Right

LEMMA TakeReplySession == Session /\ TakeReply => Session'
<1> SUFFICES ASSUME Session, TakeReply PROVE Session'
  OBVIOUS
<1>1. /\ phase = "replied" /\ phase' = "idle" /\ req' = NoRequest /\ reply' = NoReply
      /\ \A k \in known : Right(k)
      /\ \A h \in handles : Right(h)
      /\ Right(req)
  BY DEF TakeReply, Session, NumbersRight, RequestRight, Busy
<1>2. \A k \in known' : Right(k)
  <2>1. CASE reply.kind = "entry"
    <3>1. /\ Matching(req.nid, req.name) # {}
          /\ reply.ino = AttrIno(FoundNid(req.nid, req.name))
      BY <1>1, <2>1 DEF Session, HandlerRight
    <3> DEFINE n == FoundNid(req.nid, req.name)
    <3>2. n \in Numbered /\ n \in Nat /\ Meant(req.nid, req.name) = {n}
      BY <3>1, FoundFacts
    <3>3. InoToNid(reply.ino) = n
      BY <3>1, <3>2, NumberBack
    <3> HIDE DEF n
    <3>4. Right([ino |-> reply.ino, nid |-> n])
      BY <3>2, <3>3 DEF Right
    <3>5. known' \subseteq known \cup {[ino |-> reply.ino, nid |-> n]}
      BY <3>2 DEF TakeReply
    <3> QED BY <1>1, <3>4, <3>5
  <2>2. CASE reply.kind # "entry"
    BY <1>1, <2>2 DEF TakeReply
  <2> QED BY <2>1, <2>2
<1>3. \A h \in handles' : Right(h)
  <2>1. Right([fh |-> req.fh, ino |-> req.ino, nid |-> req.nid])
    BY <1>1 DEF Right
  <2>2. handles' \subseteq handles \cup {[fh |-> req.fh, ino |-> req.ino, nid |-> req.nid]}
    BY DEF TakeReply
  <2> QED BY <1>1, <2>1, <2>2
<1>4. NumbersRight'
  BY <1>2, <1>3 DEF NumbersRight
<1>5. RequestRight' /\ HandlerRight'
  BY <1>1 DEF RequestRight, HandlerRight, Busy
<1> QED BY <1>4, <1>5 DEF Session

(* A handler answers: what matters is that an entry has the right number.  *)
LEMMA ReplySession ==
  ASSUME Session, phase \in {"asked", "inode", "search", "child"}, NEW r, Reply(r), r # NoReply,
         r.kind = "entry" =>
           Matching(req.nid, req.name) # {} /\ r.ino = AttrIno(FoundNid(req.nid, req.name))
  PROVE  Session'
<1>1. /\ phase' = "replied" /\ reply' = r /\ req' = req /\ known' = known /\ handles' = handles
  BY DEF Reply, kernel
<1>2. NumbersRight' /\ RequestRight'
  BY <1>1 DEF Session, NumbersRight, RequestRight, Busy
<1>3. HandlerRight'
  BY <1>1 DEF HandlerRight, Busy
<1> QED BY <1>2, <1>3 DEF Session

(* A reply of another kind. *)
LEMMA PlainReplySession ==
  ASSUME Session, phase \in {"asked", "inode", "search", "child"}, NEW r, Reply(r),
         r.kind \notin {"none", "entry"}
  PROVE  Session'
<1>1. r # NoReply
  BY DEF NoReply
<1> QED BY <1>1, ReplySession

LEMMA Kinds ==
  /\ \A kind, nid, b : Attr(kind, nid, b).kind \in {kind, "panic"}
  /\ \A nid : Listing(nid).kind = "listing"
  /\ \A errno : Failure(errno).kind = "error"
  /\ Abort.kind = "panic"
  /\ \A r : Walked(r).kind \in {r.kind, "error", "panic"}
<1>1. \A r : Walked(r) = r \/ Walked(r) = Abort \/ Walked(r) = Failure("EUCLEAN")
  BY DEF Walked
<1> QED BY <1>1 DEF Attr, Listing, Failure, Abort

(* How the handlers end that walk over the data.                           *)
DataReply == Walked([kind |-> "data", of |-> [spec |-> Held[16], part |-> Wanted]])
ListingReply == IF Wanted = {} \/ Odd(target) THEN Abort ELSE Walked(Listing(target))

LEMMA WalkKinds ==
  /\ DataReply.kind \in {"data", "error", "panic"}
  /\ ListingReply.kind \in {"listing", "error", "panic"}
  /\ Walked(Failure("ENOENT")).kind \in {"error", "panic"}
<1>1. DataReply.kind \in {"data", "error", "panic"}
  <2> DEFINE r == [kind |-> "data", of |-> [spec |-> Held[16], part |-> Wanted]]
  <2>1. r.kind = "data" /\ DataReply = Walked(r)
    BY DEF DataReply
  <2> HIDE DEF r
  <2> QED BY <2>1, Kinds
<1>2. ListingReply.kind \in {"listing", "error", "panic"}
  <2>1. Walked(Listing(target)).kind \in {"listing", "error", "panic"}
    BY Kinds
  <2> QED BY <2>1, Kinds DEF ListingReply
<1>3. Walked(Failure("ENOENT")).kind \in {"error", "panic"}
  BY Kinds
<1> QED BY <1>1, <1>2, <1>3

LEMMA HandlerSession == Session /\ (Serve \/ LoadingFails \/ DataFails) => Session'
<1> SUFFICES ASSUME Session, Serve \/ LoadingFails \/ DataFails PROVE Session'
  OBVIOUS
<1>1. CASE GetInode
  <2>1. /\ phase = "asked" /\ phase' = "inode" /\ req' = req /\ reply' = reply
        /\ known' = known /\ handles' = handles
        /\ req.op # "release" /\ ~BadName /\ target' = InoToNid(req.ino)
    BY <1>1 DEF GetInode, Get, kernel
  <2>2. NumbersRight' /\ RequestRight'
    BY <2>1 DEF Session, NumbersRight, RequestRight, Busy
  <2>3. target' = req'.nid
    BY <2>1 DEF Session, RequestRight, Right, Busy
  <2>4. ~BadName'
    BY <2>1 DEF BadName
  <2>5. HandlerRight'
    BY <2>1, <2>3, <2>4 DEF Session, HandlerRight, Busy
  <2> QED BY <2>2, <2>5 DEF Session
<1>2. CASE RejectName
  BY <1>2, PlainReplySession, Kinds DEF RejectName
<1>3. CASE ReplyRelease
  BY <1>3, PlainReplySession DEF ReplyRelease
<1>4. CASE Loading \/ LoadingFails
  <2>1. UNCHANGED <<phase, req, reply, known, handles, target>>
    BY <1>4 DEF Loading, LoadingFails, Load, LoadFails, ReadBase, ReadRest, ReadSummary, ReadIndexes,
                Insert, state, kernel
  <2> QED BY <2>1 DEF Session, NumbersRight, RequestRight, HandlerRight, BadName
<1>5. CASE ReplyFailed \/ DataFails
  BY <1>5, PlainReplySession, Kinds DEF ReplyFailed, DataFails, Got
<1>6. CASE ReplyAttr
  BY <1>6, PlainReplySession, Kinds DEF ReplyAttr, Got
<1>7. CASE ReplyOpened
  BY <1>7, PlainReplySession DEF ReplyOpened, Got
<1>8. CASE ReplyData
  <2>1. phase = "inode" /\ Reply(DataReply)
    BY <1>8 DEF ReplyData, Got, DataReply
  <2> QED BY <2>1, PlainReplySession, WalkKinds
<1>9. CASE ReplyListing
  <2>1. phase = "inode" /\ Reply(ListingReply)
    BY <1>9 DEF ReplyListing, Got, ListingReply
  <2> QED BY <2>1, PlainReplySession, WalkKinds
<1>10. CASE Search
  <2>1. phase = "inode" /\ req.op = "lookup" /\ target' = target
    BY <1>10 DEF Search, Got, Leave
  <2>2. CASE Matching(target, req.name) # {}
    <3>1. UNCHANGED <<req, reply, known, handles>> /\ phase' = "search"
      BY <1>10, <2>2 DEF Search, kernel
    <3> QED BY <2>1, <2>2, <3>1 DEF Session, NumbersRight, RequestRight, HandlerRight, BadName, Busy
  <2>3. CASE Matching(target, req.name) = {}
    <3>1. Reply(Walked(Failure("ENOENT")))
      BY <1>10, <2>3 DEF Search
    <3> QED BY <2>1, <3>1, PlainReplySession, WalkKinds
  <2> QED BY <2>2, <2>3
<1>11. CASE GetChild
  <2>1. /\ phase = "search" /\ phase' = "child" /\ req' = req /\ reply' = reply
        /\ known' = known /\ handles' = handles
        /\ target' = FoundNid(target, req.name)
    BY <1>11 DEF GetChild, Get, kernel
  <2> QED BY <2>1 DEF Session, NumbersRight, RequestRight, HandlerRight, BadName, Busy
<1>12. CASE ReplyEntry
  <2> DEFINE r == Attr("entry", target, Held)
  <2>1. phase = "child" /\ Reply(r) /\ r.kind \in {"entry", "panic"}
    BY <1>12, Kinds DEF ReplyEntry
  <2>2. r.kind = "entry" => r.ino = AttrIno(target)
    BY DEF Attr, Abort
  <2>3. Matching(req.nid, req.name) # {} /\ target = FoundNid(req.nid, req.name)
    BY <2>1 DEF Session, HandlerRight
  <2>4. r # NoReply
    BY <2>1 DEF NoReply
  <2> HIDE DEF r
  <2> QED BY <2>1, <2>2, <2>3, <2>4, ReplySession
<1> QED BY <1>1, <1>2, <1>3, <1>4, <1>5, <1>6, <1>7, <1>8, <1>9, <1>10, <1>11, <1>12 DEF Serve

LEMMA ServerInvNext == ServerInv /\ [Next]_vars => ServerInv'
<1> SUFFICES ASSUME ServerInv, [Next]_vars PROVE ServerInv'
  OBVIOUS
<1>1. Inv'
  BY LoadStep, InvNext DEF ServerInv
<1>2. Session'
  <2>1. CASE UNCHANGED vars
    <3>1. UNCHANGED <<phase, req, reply, known, handles, target>>
      BY <2>1 DEF vars, state, kernel, load
    <3> QED BY <3>1 DEF ServerInv, Session, NumbersRight, RequestRight, HandlerRight, BadName
  <2>2. CASE Start
    BY <2>2, StartSession DEF ServerInv
  <2>3. CASE Kernel
    BY <2>3, AskSession, ForgetSession, TakeReplySession DEF Kernel, ServerInv
  <2>4. CASE Serve \/ LoadingFails \/ DataFails
    BY <2>4, HandlerSession DEF ServerInv
  <2> QED BY <2>1, <2>2, <2>3, <2>4 DEF Next
<1> QED BY <1>1, <1>2 DEF ServerInv

-----------------------------------------------------------------------------
(* The service reads the same image, and the bytes a handler holds of an   *)
(* inode are those the image has for it.                                   *)

LEMMA SameDisk ==
  /\ \A n : Service!DiskInode(n) = DiskInode(n)
  /\ \A n, f : Service!FieldAt(n, f) =
       ByteAt(Iloc(n) + (IF DiskInode(n).version = "Extended"
                           THEN Service!ExtendedField[f] ELSE Service!CompactField[f]))
<1>1. \A n : Service!Iloc(n) = Iloc(n)
  BY DEF Service!Iloc, Iloc, Service!BlkPos, BlkPos
<1>2. \A a : Service!ByteAt(a) = ByteAt(a)
  BY DEF Service!ByteAt, ByteAt, Service!Zero, Zero
<1>3. \A n : Service!Slot(n) = Slot(n)
  BY DEF Service!Slot, Slot, Service!Blank, Blank
<1>4. \A a : Service!InodeAt(a) = InodeAt(a)
  BY <1>1, <1>3 DEF Service!InodeAt, InodeAt, Service!Blank, Blank, Service!Zero, Zero
<1>5. \A n : Service!DiskInode(n) = DiskInode(n)
  BY <1>1, <1>2, <1>4 DEF Service!DiskInode, DiskInode
<1> QED BY <1>1, <1>2, <1>5 DEF Service!FieldAt

LEMMA SameTree ==
  /\ \A d : Service!EntriesOf(d) = Entries(d)
  /\ \A d, name : Service!ChildrenOf(d, name) = Meant(d, name)
BY DEF Service!EntriesOf, Entries, Service!ChildrenOf, Meant, Matching

LEMMA HeldBytes ==
  ASSUME ServerInv, stage = "got"
  PROVE  /\ target \in Nat /\ Info(Held) = DiskInode(target)
         /\ \A j \in 0 .. 31 : Held[j] = ByteAt(Iloc(target) + j)
         /\ DiskInode(target).version = "Extended" =>
              \A j \in 0 .. 63 : Held[j] = ByteAt(Iloc(target) + j)
<1>1. target \in Nat /\ target \in DOMAIN collection /\ CacheExact
  BY DEF ServerInv, Inv, Types, Kept
<1>2. \A j \in 0 .. InodeSize(DiskInode(target)) - 1 : Held[j] = ByteAt(Iloc(target) + j)
  BY <1>1 DEF CacheExact, Faithful, Held
<1>3. \A j \in 0 .. 31 : j \in 0 .. 32 - 1 /\ j \in 0 .. 64 - 1
  OBVIOUS
<1>4. \A j \in 0 .. 63 : j \in 0 .. 64 - 1
  OBVIOUS
<1>5. /\ \A j \in 0 .. 31 : Held[j] = ByteAt(Iloc(target) + j)
      /\ DiskInode(target).version = "Extended" =>
           \A j \in 0 .. 63 : Held[j] = ByteAt(Iloc(target) + j)
  BY <1>1, <1>2, <1>3, <1>4, DiskSizes
<1>6. Held[0] = ByteAt(Iloc(target) + 0)
  BY <1>5
<1> QED BY <1>1, <1>5, <1>6, InfoRead

LEMMA SameMap ==
  /\ \A d, n : Service!AsInode(d, n) = AsInode(d, n)
  /\ \A i, k : Service!Unmapped(i, k) <=> Unmapped(i, k)
  /\ \A i : MapTodo(i) <=> i.layout \in Service!OtherLayouts
<1>1. \A i : Service!ChunkSz(i) = ChunkSz(i) /\ (Service!HasSpec(i) <=> HasSpec(i))
  BY DEF Service!ChunkSz, ChunkSz, Service!HasSpec, HasSpec, Service!DataModes, DataModes
<1>2. \A i, k : Service!Unmapped(i, k) <=> Unmapped(i, k)
  BY <1>1 DEF Service!Unmapped, Unmapped, Service!ChunkLayouts, ChunkLayouts
<1>3. \A d, n : Service!AsInode(d, n) = AsInode(d, n)
  BY DEF Service!AsInode, AsInode
<1>4. \A i : MapTodo(i) <=> i.layout \in Service!OtherLayouts
  BY DEF MapTodo, Service!OtherLayouts, OtherLayouts
<1> QED BY <1>2, <1>3, <1>4

(* The sectors shown are those of the file, where a Blk has room for them. *)
LEMMA BlocksRight ==
  ASSUME NEW size \in Nat
  PROVE  Blocks(size) \in Service!BlocksOf(size)
<1> DEFINE m == size + BlkSz - 1
           q == m \div Sector
           r == m % Sector
           V == BlkValues
           S == Sector
<1>1. BlkSz \in Nat \ {0} /\ S \in Nat \ {0} /\ S <= BlkSz /\ V \in Nat \ {0} /\ m \in Nat
  BY GeometryAssumption, ServerAssumption
<1>2. m = (S * q) + r /\ r \in 0 .. S - 1 /\ q \in Nat
  BY <1>1, DivMod
<1>3. q % V \in 0 .. V - 1
  BY <1>1, <1>2, DivMod
<1>4. Blocks(size) = q % V
  BY DEF Blocks
<1>5. m = size + BlkSz - 1
  OBVIOUS
<1> HIDE DEF m, q, r, V, S
<1>6. S * q \in Nat /\ size <= S * q /\ S * q < size + BlkSz
  BY <1>1, <1>2, <1>5
<1>7. ASSUME size + BlkSz <= S * V PROVE q % V = q
  <2>1. S * q < S * V
    <3>1. S * V \in Nat
      BY <1>1
    <3> QED BY <1>1, <1>6, <1>7, <3>1
  <2>2. ~(V < q)
    <3> SUFFICES ASSUME V < q PROVE FALSE
      OBVIOUS
    <3>1. (S * V) + S <= S * q
      BY <1>1, <1>2, NextMultiple
    <3>2. S * V \in Nat
      BY <1>1
    <3> QED BY <1>1, <1>6, <2>1, <3>1, <3>2
  <2>3. q # V
    <3>1. S * V \in Nat
      BY <1>1
    <3> QED BY <2>1, <3>1
  <2>4. q < V
    BY <1>1, <1>2, <2>2, <2>3
  <2> QED BY <1>1, <1>2, <2>4
<1>8. \A n : n \in 0 .. V - 1 /\ (size + BlkSz <= S * V => size <= S * n /\ S * n < size + BlkSz)
               => n \in Service!BlocksOf(size)
  BY DEF Service!BlocksOf, V, S
<1> QED BY <1>3, <1>4, <1>6, <1>7, <1>8

LEMMA HeldFields ==
  ASSUME ServerInv, stage = "got"
  PROVE  /\ Fields(Info(Held), Held) \in Service!Stats(target)
         /\ Held[16] = Service!FieldAt(target, "spec")
<1> DEFINE B(j) == ByteAt(Iloc(target) + j)
           d == DiskInode(target)
           n == Blocks(d.size)
<1>1. Info(Held) = d /\ target \in Nat
  BY HeldBytes
<1>2. Held[16] = B(16) /\ Held[24] = B(24)
  BY HeldBytes
<1>3. n \in Service!BlocksOf(Service!DiskInode(target).size)
  <2>1. d.size \in Nat
    BY <1>1, DiskTypes
  <2>2. Service!DiskInode(target) = d
    BY SameDisk
  <2> QED BY <2>1, <2>2, BlocksRight
<1>4. ASSUME Fields(Info(Held), Held) = Service!Stat(target, n)
      PROVE  Fields(Info(Held), Held) \in Service!Stats(target)
  BY <1>3, <1>4 DEF Service!Stats
<1> HIDE DEF n
<1>5. CASE d.version = "Extended"
  <2>1. Held[44] = B(44) /\ Held[28] = B(28) /\ Held[32] = B(32)
    BY <1>5, HeldBytes
  <2>2. \A f : Service!FieldAt(target, f) = B(Service!ExtendedField[f])
    BY <1>5, SameDisk
  <2> HIDE DEF B
  <2>3. /\ Service!FieldAt(target, "spec") = B(16)
        /\ Service!FieldAt(target, "nlink") = B(44) /\ Service!FieldAt(target, "uid") = B(24)
        /\ Service!FieldAt(target, "gid") = B(28) /\ Service!FieldAt(target, "mtime") = B(32)
    BY <2>2 DEF Service!ExtendedField
  <2>4. Service!DiskInode(target) = d
    BY SameDisk
  <2> HIDE DEF d
  <2>5. Fields(d, Held) = Service!Stat(target, n)
    BY <1>2, <1>5, <2>1, <2>3, <2>4 DEF Fields, Perm, Service!Stat, n, d
  <2> QED BY <1>1, <1>2, <1>4, <2>3, <2>5
<1>6. CASE d.version # "Extended"
  <2>1. Held[6] = B(6) /\ Held[26] = B(26)
    BY HeldBytes
  <2>2. \A f : Service!FieldAt(target, f) = B(Service!CompactField[f])
    BY <1>6, SameDisk
  <2> HIDE DEF B
  <2>3. /\ Service!FieldAt(target, "spec") = B(16)
        /\ Service!FieldAt(target, "nlink") = B(6) /\ Service!FieldAt(target, "uid") = B(24)
        /\ Service!FieldAt(target, "gid") = B(26)
    BY <2>2 DEF Service!CompactField
  <2>4. Service!DiskInode(target) = d
    BY SameDisk
  <2> HIDE DEF d
  <2>5. Fields(d, Held) = Service!Stat(target, n)
    BY <1>2, <1>6, <2>1, <2>3, <2>4
       DEF Fields, Perm, Service!Stat, Service!BuildTime, BuildTime, n, d
  <2> QED BY <1>1, <1>2, <1>4, <2>3, <2>5
<1> QED BY <1>5, <1>6

(* The map finds the chunk table of every inode that has one: where the    *)
(* metadata of a compact inode with attributes would end does not matter.  *)
LEMMA ChunksPlaced ==
  ASSUME NEW n \in Nat, DiskInode(n).layout \in ChunkLayouts
  PROVE  MetaEnd(AsInode(DiskInode(n), n)) = DiskMetaEnd(AsInode(DiskInode(n), n))
<1> DEFINE d == DiskInode(n)
           i == AsInode(d, n)
<1>1. i.version = d.version /\ i.icount = d.icount /\ i.nid = n
  BY DEF AsInode
<1>2. d.version = "Compact" => d.icount = 0
  <2>1. d # Blank
    BY DEF Blank, ChunkLayouts
  <2>2. PICK m \in DOMAIN Inodes : d = Inodes[m]
    BY <2>1, DiskStored
  <2> HIDE DEF d
  <2>3. d.layout \in ChunkLayouts
    BY DEF d
  <2> QED BY <2>2, <2>3, ServerAssumption
<1>3. i.version \in {"Compact", "Extended"} /\ i.icount \in Nat
  BY DiskTypes DEF IsInode
<1> HIDE DEF d, i
<1>4. XattrSize(i) = DiskXattrSize(i)
  BY <1>1, <1>2, <1>3 DEF XattrSize, DiskXattrSize
<1>5. MetaEnd(i) = DiskMetaEnd(i)
  BY <1>4 DEF MetaEnd, DiskMetaEnd
<1> QED BY <1>5 DEF d, i

(* What a handler asks of the map is the part that is needed, and the map  *)
(* has a reason for what it refuses.                                       *)
LEMMA HeldWalk ==
  ASSUME ServerInv, stage = "got", NEW a, a.op = req.op, a.nid = target, a.span = req.span,
         req.op = "read" => req.span \in Reads
  PROVE  /\ Wanted = Service!PartOf(a)
         /\ (Wanted # {} /\ MapTodo(HeldInode)) <=> Service!Undecoded(a)
         /\ ~MapTodo(HeldInode) => (Refused <=> Service!Hole(a))
<1> DEFINE d == DiskInode(target)
           i == HeldInode
           size == i.size
<1>1. target \in Nat /\ i = AsInode(d, target) /\ Service!DiskInode(target) = d
  BY HeldBytes, SameDisk DEF HeldInode
<1>2. i.size = d.size /\ i.layout = d.layout /\ d.size \in Nat /\ IsInode(i)
  BY <1>1, DiskTypes DEF AsInode
<1>3. i = Service!Inode(target)
  BY <1>1, SameMap DEF Service!Inode
<1>4. \A k : k \in Service!PartOf(a) <=>
         /\ k \in 0 .. size - 1
         /\ req.op = "read" => req.span.from <= k /\ k < req.span.from + req.span.len
  BY <1>1, <1>2 DEF Service!PartOf
<1>5. \A k : k \in Wanted <=>
         IF req.op = "read"
           THEN k \in req.span.from .. Lesser(req.span.from + req.span.len, size) - 1
           ELSE k \in 0 .. size - 1
  BY DEF Wanted
<1>6. size \in Nat
  BY <1>2
<1>7. i.layout \in ChunkLayouts => MetaEnd(i) = DiskMetaEnd(i)
  BY <1>1, <1>2, ChunksPlaced
<1> HIDE DEF d, i, size
<1>8. Wanted = Service!PartOf(a)
  <2>1. CASE req.op = "read"
    <3> DEFINE f == req.span.from
               l == req.span.len
    <3>1. f \in Nat /\ l \in Nat
      BY <2>1, ServerAssumption
    <3>2. \A k : k \in Service!PartOf(a) <=> k \in 0 .. size - 1 /\ f <= k /\ k < f + l
      BY <1>4, <2>1
    <3>3. \A k : k \in Wanted <=> k \in f .. Lesser(f + l, size) - 1
      BY <1>5, <2>1
    <3> HIDE DEF f, l
    <3>4. \A k : k \in f .. Lesser(f + l, size) - 1 <=> k \in 0 .. size - 1 /\ f <= k /\ k < f + l
      BY <1>6, <3>1 DEF Lesser
    <3> QED BY <3>2, <3>3, <3>4
  <2>2. CASE req.op # "read"
    BY <1>4, <1>5, <2>2
  <2> QED BY <2>1, <2>2
<1>9. (Wanted # {} /\ MapTodo(i)) <=> Service!Undecoded(a)
  BY <1>1, <1>2, <1>8, SameMap DEF Service!Undecoded
<1>10. ASSUME ~MapTodo(i) PROVE (\E k \in Wanted : MapRefused(i, k)) <=> Service!Hole(a)
  <2>1. ASSUME NEW k \in Wanted
        PROVE  MapRefused(i, k) <=> Service!Unmapped(Service!Inode(a.nid), k)
    <3>1. k \in Nat /\ k < size
      BY <1>4, <1>6, <1>8
    <3>2. MapRefused(i, k) <=> Unmapped(i, k)
      BY <1>2, <1>7, <1>10, <3>1, RefusedIffUnmapped DEF size
    <3> QED BY <1>3, <3>2, SameMap
  <2> QED BY <1>8, <2>1 DEF Service!Hole
<1>11. Refused <=> \E k \in Wanted : MapRefused(i, k)
  BY DEF Refused, i
<1> QED BY <1>8, <1>9, <1>10, <1>11 DEF i

-----------------------------------------------------------------------------
(* The service sees a request with the inode it means, and a reply with    *)
(* the inodes its numbers lead to.                                         *)

ShownOf(r) ==
  IF r.kind \in {"attr", "entry"}
    THEN [kind |-> r.kind, nid |-> InoToNid(r.ino), fields |-> r.fields]
  ELSE IF r.kind = "listing"
    THEN [ kind |-> "listing",
           ents |-> [ k \in DOMAIN r.ents |->
                        [ nid  |-> InoToNid(r.ents[k].ino),
                          type |-> r.ents[k].type,
                          name |-> r.ents[k].name ] ] ]
  ELSE r

LEMMA ShownReply == Shown = ShownOf(reply) /\ Shown' = ShownOf(reply')
BY DEF Shown, ShownOf

LEMMA AskedRequest ==
  ASSUME Session, phase \in Busy
  PROVE  /\ AskedNid = [op |-> req.op, nid |-> req.nid, name |-> req.name, span |-> req.span]
         /\ AskedNid \in Service!Requests /\ AskedNid # Service!NoRequest
<1>1. /\ Right(req) /\ req.op \in Service!Ops /\ req.name \in Names \cup {""}
      /\ req.span \in Reads \cup {NoSpan}
  BY DEF Session, RequestRight
<1>2. req.op # "none"
  BY <1>1 DEF Service!Ops
<1>3. AskedNid = [op |-> req.op, nid |-> req.nid, name |-> req.name, span |-> req.span]
  BY <1>2 DEF AskedNid
<1>4. AskedNid \in Service!Requests
  BY <1>1, <1>3 DEF Service!Requests, Service!NoName, Service!NoSpan, NoSpan, Right
<1>5. AskedNid # Service!NoRequest
  BY <1>2, <1>3 DEF Service!NoRequest
<1> QED BY <1>3, <1>4, <1>5

LEMMA NothingShown ==
  ASSUME Session, phase # "replied"
  PROVE  Shown = Service!NoReply
<1>1. reply = NoReply
  BY DEF Session, HandlerRight
<1> QED BY <1>1, ShownReply DEF ShownOf, NoReply, Service!NoReply

LEMMA NothingAsked ==
  ASSUME Session, phase \in {"off", "idle"}
  PROVE  AskedNid = Service!NoRequest
<1>1. req = NoRequest
  BY DEF Session, RequestRight
<1> QED BY <1>1 DEF AskedNid, NoRequest, Service!NoRequest

LEMMA InitImplements == Init => Service!Init
BY ShownReply DEF Init, Service!Init, AskedNid, ShownOf, NoRequest, NoReply,
   Service!NoRequest, Service!NoReply

(* A handler replies: the request stays, and the reply is what it shows.   *)
LEMMA ReplyShown ==
  ASSUME Session, phase \in {"asked", "inode", "search", "child"}, NEW r, Reply(r)
  PROVE  /\ Service!Waiting /\ AskedNid' = AskedNid /\ Shown' = ShownOf(r)
         /\ AskedNid = [op |-> req.op, nid |-> req.nid, name |-> req.name, span |-> req.span]
<1>1. AskedNid' = AskedNid /\ Shown' = ShownOf(r)
  BY ShownReply DEF Reply, AskedNid
<1> QED BY <1>1, AskedRequest, NothingShown DEF Service!Waiting, Busy

(* Replies without numbers show as they are. *)
LEMMA PlainShown ==
  /\ ShownOf(Abort) = Service!Abort
  /\ \A errno : ShownOf(Failure(errno)) = Service!Failure(errno)
  /\ ShownOf([kind |-> "opened"]) = Service!Opened
  /\ ShownOf([kind |-> "done"]) = Service!Done
  /\ \A of : ShownOf([kind |-> "data", of |-> of]) = Service!Data(of)
<1>1. ShownOf(Abort) = Service!Abort
  BY DEF ShownOf, Abort, Service!Abort
<1>2. \A errno : ShownOf(Failure(errno)) = Service!Failure(errno)
  BY DEF ShownOf, Failure, Service!Failure
<1>3. ShownOf([kind |-> "opened"]) = Service!Opened /\ ShownOf([kind |-> "done"]) = Service!Done
  BY DEF ShownOf, Service!Opened, Service!Done
<1>4. \A of : ShownOf([kind |-> "data", of |-> of]) = Service!Data(of)
  BY DEF ShownOf, Service!Data
<1> QED BY <1>1, <1>2, <1>3, <1>4

(* The attributes a handler replies with, of an inode that has a type.     *)
LEMMA AttrShown ==
  ASSUME ServerInv, stage = "got", target \in Numbered, NEW kind \in {"attr", "entry"}
  PROVE  IF Service!Untyped(target) THEN ShownOf(Attr(kind, target, Held)) = Service!Abort
         ELSE \E stat \in Service!Stats(target) :
                ShownOf(Attr(kind, target, Held)) = [kind |-> kind, nid |-> target, fields |-> stat]
<1>1. Info(Held) = DiskInode(target)
  BY HeldBytes
<1>2. Service!Untyped(target) <=> Info(Held).mode = "Unknown"
  BY <1>1, SameDisk DEF Service!Untyped
<1>3. CASE Service!Untyped(target)
  BY <1>2, <1>3, PlainShown DEF Attr
<1>4. CASE ~Service!Untyped(target)
  <2> DEFINE f == Fields(Info(Held), Held)
  <2>1. Attr(kind, target, Held) = [kind |-> kind, ino |-> AttrIno(target), fields |-> f]
    BY <1>2, <1>4 DEF Attr
  <2>2. f \in Service!Stats(target)
    BY HeldFields
  <2>3. InoToNid(AttrIno(target)) = target
    BY NumberBack
  <2> HIDE DEF f
  <2>4. ShownOf(Attr(kind, target, Held)) = [kind |-> kind, nid |-> target, fields |-> f]
    BY <2>1, <2>3 DEF ShownOf
  <2> QED BY <1>4, <2>2, <2>4
<1> QED BY <1>3, <1>4

LEMMA ListingShown ==
  ASSUME NEW nid
  PROVE  /\ Odd(nid) <=> \E k \in DOMAIN Service!EntriesOf(nid) :
                           Service!EntriesOf(nid)[k].dtype \notin DOMAIN Service!Types
         /\ ShownOf(Listing(nid)) = Service!Listing(Service!ListingOf(nid))
<1>1. Service!EntriesOf(nid) = Entries(nid) /\ Service!Types = FileTypes
  BY SameTree DEF Service!Types, FileTypes
<1> DEFINE ents == [ k \in DOMAIN Entries(nid) |->
                       [ ino  |-> NidToIno(Entries(nid)[k].nid),
                         type |-> FileTypes[Entries(nid)[k].dtype],
                         name |-> Entries(nid)[k].name ] ]
<1>2. Listing(nid) = [kind |-> "listing", ents |-> ents]
  BY DEF Listing
<1>3. \A k \in DOMAIN Entries(nid) : InoToNid(NidToIno(Entries(nid)[k].nid)) = Entries(nid)[k].nid
  BY EntryTypes, NumberBack
<1>4. ShownOf(Listing(nid)) =
        [ kind |-> "listing",
          ents |-> [ k \in DOMAIN ents |->
                       [ nid |-> InoToNid(ents[k].ino), type |-> ents[k].type, name |-> ents[k].name ] ] ]
  <2> HIDE DEF ents
  <2> QED BY <1>2 DEF ShownOf
<1>5. [ k \in DOMAIN ents |->
          [ nid |-> InoToNid(ents[k].ino), type |-> ents[k].type, name |-> ents[k].name ] ]
        = Service!ListingOf(nid)
  BY <1>1, <1>3 DEF Service!ListingOf
<1> HIDE DEF ents
<1>6. Odd(nid) <=> \E k \in DOMAIN Service!EntriesOf(nid) :
                     Service!EntriesOf(nid)[k].dtype \notin DOMAIN Service!Types
  BY <1>1 DEF Odd
<1> QED BY <1>4, <1>5, <1>6 DEF Service!Listing

-----------------------------------------------------------------------------
(* Every step of the server is a step of the service, or none. *)

LEMMA SendAsks ==
  ASSUME Session, Session', NEW r, Send(r)
  PROVE  Service!Ask
<1>1. phase = "idle" /\ phase' = "asked" /\ reply' = reply
  BY DEF Send
<1>2. AskedNid = Service!NoRequest
  BY <1>1, NothingAsked
<1>3. AskedNid' \in Service!Requests
  <2>1. /\ Right(req') /\ req'.op \in Service!Ops /\ req'.name \in Names \cup {""}
        /\ req'.span \in Reads \cup {NoSpan}
    BY <1>1 DEF Session, RequestRight, Busy, Right
  <2>2. req'.op # "none"
    BY <2>1 DEF Service!Ops
  <2>3. AskedNid' = [op |-> req'.op, nid |-> req'.nid, name |-> req'.name, span |-> req'.span]
    BY <2>2 DEF AskedNid
  <2> QED BY <2>1, <2>3 DEF Service!Requests, Service!NoName, Service!NoSpan, NoSpan, Right
<1>4. Shown' = Shown
  BY <1>1, ShownReply
<1> QED BY <1>2, <1>3, <1>4 DEF Service!Ask

LEMMA KernelStep ==
  ASSUME Session, Session', Kernel
  PROVE  [Service!Next]_(Service!vars)
<1>1. CASE AskAttr \/ AskLookup \/ AskLink \/ AskOpen \/ AskListing \/ AskRead \/ AskRelease
  <2>1. \E r : Send(r)
    BY <1>1 DEF AskAttr, AskLookup, AskLink, AskOpen, AskListing, AskRead, AskRelease
  <2> QED BY <2>1, SendAsks DEF Service!Next
<1>2. CASE Forget
  <2>1. AskedNid' = AskedNid /\ Shown' = Shown
    BY <1>2, ShownReply DEF Forget, AskedNid
  <2> QED BY <2>1 DEF Service!vars
<1>3. CASE TakeReply
  <2>1. phase = "replied" /\ reply # Abort /\ reply # NoReply /\ phase' = "idle" /\ reply' = NoReply
    BY <1>3 DEF TakeReply, Session, HandlerRight
  <2>2. AskedNid' = Service!NoRequest
    BY <1>3 DEF TakeReply, AskedNid, NoRequest, Service!NoRequest
  <2>3. Shown' = Service!NoReply
    BY <2>1, ShownReply DEF ShownOf, NoReply, Service!NoReply
  <2>4. Shown \notin {Service!NoReply, Service!Abort}
    <3>1. CASE reply.kind \in {"attr", "entry", "listing"}
      <4>1. Shown.kind = reply.kind
        BY <3>1, ShownReply DEF ShownOf
      <4> QED BY <3>1, <4>1 DEF Service!NoReply, Service!Abort
    <3>2. CASE reply.kind \notin {"attr", "entry", "listing"}
      <4>1. Shown = reply
        BY <3>2, ShownReply DEF ShownOf
      <4> QED BY <2>1, <4>1 DEF Service!NoReply, Service!Abort, NoReply, Abort
    <3> QED BY <3>1, <3>2
  <2>5. Service!Retire
    BY <2>2, <2>3, <2>4 DEF Service!Retire
  <2> QED BY <2>5 DEF Service!Next
<1> QED BY <1>1, <1>2, <1>3 DEF Kernel

(* A refused request; only those that need the image are. *)
LEMMA RefuseStep ==
  ASSUME Session, phase \in {"asked", "inode", "search", "child"}, req.op # "release",
         Reply(Failure("ERANGE"))
  PROVE  Service!Next
<1>1. /\ Service!Waiting /\ AskedNid' = AskedNid /\ Shown' = Service!Failure("ERANGE")
      /\ AskedNid.op # "release"
  BY ReplyShown, PlainShown
<1> QED BY <1>1 DEF Service!Refuse, Service!Next

(* An answer, or the end of a server that has none. *)
LEMMA DeliverStep ==
  ASSUME Session, phase \in {"asked", "inode", "search", "child"}, NEW r, Reply(r),
         IF Service!Fatal(AskedNid) THEN ShownOf(r) = Service!Abort
         ELSE Service!Answers(AskedNid, ShownOf(r))
  PROVE  Service!Next
<1>1. Service!Waiting /\ AskedNid' = AskedNid /\ Shown' = ShownOf(r)
  BY ReplyShown
<1>2. CASE Service!Fatal(AskedNid)
  BY <1>1, <1>2 DEF Service!Crash, Service!Next
<1>3. CASE ~Service!Fatal(AskedNid)
  BY <1>1, <1>3 DEF Service!Deliver, Service!Next
<1> QED BY <1>2, <1>3

LEMMA AttrStep == ServerInv /\ ReplyAttr => Service!Next
<1> SUFFICES ASSUME ServerInv, ReplyAttr PROVE Service!Next
  OBVIOUS
<1> DEFINE r == Attr("attr", target, Held)
           a == AskedNid
<1>1. /\ Session /\ phase = "inode" /\ stage = "got" /\ req.op = "getattr" /\ Reply(r)
      /\ target = req.nid /\ target \in Numbered
  BY DEF ReplyAttr, Got, ServerInv, Session, HandlerRight, RequestRight, Right, Busy
<1>2. IF Service!Untyped(target) THEN ShownOf(r) = Service!Abort
      ELSE \E stat \in Service!Stats(target) :
             ShownOf(r) = [kind |-> "attr", nid |-> target, fields |-> stat]
  BY <1>1, AttrShown
<1> HIDE DEF r
<1>3. a = [op |-> req.op, nid |-> req.nid, name |-> req.name, span |-> req.span]
  BY <1>1, ReplyShown
<1>4. a.op = "getattr" /\ a.nid = target
  BY <1>1, <1>3
<1> HIDE DEF a
<1>5. Service!Fatal(a) <=> Service!Untyped(target)
  BY <1>4 DEF Service!Fatal, Service!ReadsData
<1>6. ~Service!Untyped(target) => Service!Answers(a, ShownOf(r))
  BY <1>2, <1>4 DEF Service!Answers, Service!Attr
<1> QED BY <1>1, <1>2, <1>5, <1>6, DeliverStep DEF a

LEMMA EntryStep == ServerInv /\ ReplyEntry => Service!Next
<1> SUFFICES ASSUME ServerInv, ReplyEntry PROVE Service!Next
  OBVIOUS
<1> DEFINE r == Attr("entry", target, Held)
           a == AskedNid
<1>1. /\ Session /\ phase = "child" /\ stage = "got" /\ req.op = "lookup" /\ Reply(r)
      /\ req.name \notin BadNames
      /\ Matching(req.nid, req.name) # {} /\ target = FoundNid(req.nid, req.name)
  BY DEF ReplyEntry, ServerInv, Session, HandlerRight, BadName
<1>2. target \in Numbered /\ Meant(req.nid, req.name) = {target}
  BY <1>1, FoundFacts
<1>3. IF Service!Untyped(target) THEN ShownOf(r) = Service!Abort
      ELSE \E stat \in Service!Stats(target) :
             ShownOf(r) = [kind |-> "entry", nid |-> target, fields |-> stat]
  BY <1>1, <1>2, AttrShown
<1> HIDE DEF r
<1>4. a = [op |-> req.op, nid |-> req.nid, name |-> req.name, span |-> req.span]
  BY <1>1, ReplyShown
<1>5. a.op = "lookup" /\ a.name \notin BadNames /\ Service!ChildrenOf(a.nid, a.name) = {target}
  BY <1>1, <1>2, <1>4, SameTree
<1> HIDE DEF a
<1>6. Service!Fatal(a) <=> Service!Untyped(target)
  BY <1>5 DEF Service!Fatal, Service!ReadsData
<1>7. ~Service!Untyped(target) => Service!Answers(a, ShownOf(r))
  BY <1>3, <1>5 DEF Service!Answers, Service!Entry
<1> QED BY <1>1, <1>3, <1>6, <1>7, DeliverStep DEF a

(* A handler that takes all of its part: it ends as the map does, or with  *)
(* what it was to find.                                                    *)
LEMMA WalkStep ==
  ASSUME ServerInv, phase = "inode", stage = "got", NEW found, Reply(Walked(found)),
         Service!ReadsData(AskedNid), Service!Fatal(AskedNid) => Service!Undecoded(AskedNid),
         ShownOf(found) = Service!Found(AskedNid)
  PROVE  Service!Next
<1> DEFINE a == AskedNid
           r == Walked(found)
<1>1. /\ Session /\ target = req.nid /\ (req.op = "read" => req.span \in Reads)
  BY DEF ServerInv, Session, HandlerRight, RequestRight, Busy
<1>2. a = [op |-> req.op, nid |-> req.nid, name |-> req.name, span |-> req.span]
  BY <1>1, ReplyShown
<1>3. a.op = req.op /\ a.nid = target /\ a.span = req.span
  BY <1>1, <1>2
<1>4. Reply(r) /\ Service!ReadsData(a) /\ ShownOf(found) = Service!Found(a)
      /\ (Service!Fatal(a) => Service!Undecoded(a))
  OBVIOUS
<1> HIDE DEF a
<1>5. /\ Wanted = Service!PartOf(a)
      /\ (Wanted # {} /\ MapTodo(HeldInode)) <=> Service!Undecoded(a)
      /\ ~MapTodo(HeldInode) => (Refused <=> Service!Hole(a))
  BY <1>1, <1>3, HeldWalk
<1>6. CASE Service!Undecoded(a)
  <2>1. r = Abort
    BY <1>5, <1>6 DEF Walked
  <2>2. Service!Fatal(a)
    BY <1>4, <1>6 DEF Service!Fatal
  <2>3. ShownOf(r) = Service!Abort
    BY <2>1, PlainShown
  <2> HIDE DEF r
  <2> QED BY <1>1, <1>4, <2>2, <2>3, DeliverStep DEF a
<1>7. CASE ~Service!Undecoded(a)
  <2>1. ~Service!Fatal(a)
    BY <1>4, <1>7
  <2>2. Refused <=> Service!Hole(a)
    <3>1. CASE Wanted = {}
      <4>1. ~Refused
        BY <3>1 DEF Refused
      <4>2. ~Service!Hole(a)
        BY <1>5, <3>1 DEF Service!Hole
      <4> QED BY <4>1, <4>2
    <3>2. CASE Wanted # {}
      BY <1>5, <1>7, <3>2
    <3> QED BY <3>1, <3>2
  <2>3. r = IF Refused THEN Failure("EUCLEAN") ELSE found
    BY <1>5, <1>7 DEF Walked
  <2> HIDE DEF r
  <2>4. Service!Answers(a, ShownOf(r))
    <3>1. CASE Refused
      <4>1. ShownOf(r) = Service!Failure("EUCLEAN")
        BY <2>3, <3>1, PlainShown
      <4> QED BY <1>4, <2>2, <3>1, <4>1 DEF Service!Answers
    <3>2. CASE ~Refused
      BY <1>4, <2>2, <2>3, <3>2 DEF Service!Answers
    <3> QED BY <3>1, <3>2
  <2> QED BY <1>1, <1>4, <2>1, <2>4, DeliverStep DEF a
<1> QED BY <1>6, <1>7

LEMMA ListingStep == ServerInv /\ ReplyListing => Service!Next
<1> SUFFICES ASSUME ServerInv, ReplyListing PROVE Service!Next
  OBVIOUS
<1> DEFINE a == AskedNid
           none == Wanted = {} \/ Odd(target)
<1>1. /\ Session /\ phase = "inode" /\ stage = "got" /\ req.op = "readdir" /\ target = req.nid
      /\ Reply(IF none THEN Abort ELSE Walked(Listing(target)))
  BY DEF ReplyListing, Got, ServerInv, Session, HandlerRight
<1>2. a = [op |-> req.op, nid |-> req.nid, name |-> req.name, span |-> req.span]
  <2> DEFINE r == IF none THEN Abort ELSE Walked(Listing(target))
  <2>1. Reply(r)
    BY <1>1
  <2> HIDE DEF r
  <2> QED BY <1>1, <2>1, ReplyShown
<1>3. a.op = "readdir" /\ a.nid = target /\ a.span = req.span
  BY <1>1, <1>2
<1> HIDE DEF a
<1>4. Wanted = Service!PartOf(a)
  BY <1>1, <1>3, HeldWalk
<1>5. Service!Unlisted(a) <=> none
  BY <1>3, <1>4, ListingShown DEF Service!Unlisted
<1> HIDE DEF none
<1>6. CASE none
  <2>1. Reply(Abort)
    BY <1>1, <1>6
  <2>2. Service!Fatal(a)
    BY <1>3, <1>5, <1>6 DEF Service!Fatal
  <2> QED BY <1>1, <2>1, <2>2, PlainShown, DeliverStep DEF a
<1>7. CASE ~none
  <2>1. Reply(Walked(Listing(target)))
    BY <1>1, <1>7
  <2>2. Service!ReadsData(a) /\ (Service!Fatal(a) => Service!Undecoded(a))
    BY <1>3, <1>5, <1>7 DEF Service!ReadsData, Service!Fatal
  <2>3. ShownOf(Listing(target)) = Service!Found(a)
    BY <1>3, ListingShown DEF Service!Found
  <2> QED BY <1>1, <2>1, <2>2, <2>3, WalkStep DEF a
<1> QED BY <1>6, <1>7

(* Requests that always get what they ask for: an open and a release.      *)
LEMMA PlainStep ==
  ASSUME ServerInv, ReplyOpened \/ ReplyRelease
  PROVE  Service!Next
<1> DEFINE a == AskedNid
<1>1. PICK r : /\ Reply(r) /\ phase \in {"asked", "inode"}
               /\ \/ req.op = "open" /\ ShownOf(r) = Service!Opened
                  \/ req.op = "release" /\ ShownOf(r) = Service!Done
  BY PlainShown DEF ReplyOpened, ReplyRelease, Got
<1>2. Session /\ a = [op |-> req.op, nid |-> req.nid, name |-> req.name, span |-> req.span]
  BY <1>1, ReplyShown DEF ServerInv
<1>3. a.op = req.op
  BY <1>2
<1> HIDE DEF a
<1>4. ~Service!Fatal(a) /\ Service!Answers(a, ShownOf(r))
  BY <1>1, <1>3 DEF Service!Fatal, Service!ReadsData, Service!Answers
<1> QED BY <1>1, <1>2, <1>4, DeliverStep DEF a

LEMMA DataStep == ServerInv /\ ReplyData => Service!Next
<1> SUFFICES ASSUME ServerInv, ReplyData PROVE Service!Next
  OBVIOUS
<1> DEFINE a == AskedNid
           of == [spec |-> Held[16], part |-> Wanted]
           found == [kind |-> "data", of |-> of]
<1>1. /\ Session /\ phase = "inode" /\ stage = "got" /\ req.op \in {"read", "readlink"}
      /\ Reply(Walked(found)) /\ target = req.nid
      /\ (req.op = "read" => req.span \in Reads)
  BY DEF ReplyData, Got, ServerInv, Session, HandlerRight, RequestRight, Busy
<1> HIDE DEF of, found
<1>2. a = [op |-> req.op, nid |-> req.nid, name |-> req.name, span |-> req.span]
  <2> DEFINE r == Walked(found)
  <2>1. Reply(r)
    BY <1>1
  <2> HIDE DEF r
  <2> QED BY <1>1, <2>1, ReplyShown
<1>3. a.op \in {"read", "readlink"} /\ a.op = req.op /\ a.nid = target /\ a.span = req.span
  BY <1>1, <1>2
<1> HIDE DEF a
<1>4. Wanted = Service!PartOf(a)
  BY <1>1, <1>3, HeldWalk
<1>5. of = Service!DataOf(a)
  BY <1>3, <1>4, HeldFields, <1>1 DEF of, Service!DataOf
<1>6. ShownOf(found) = Service!Data(of)
  BY PlainShown DEF found
<1>7. ShownOf(found) = Service!Found(a)
  BY <1>3, <1>5, <1>6 DEF Service!Found
<1>8. Service!ReadsData(a) /\ (Service!Fatal(a) => Service!Undecoded(a))
  BY <1>3 DEF Service!ReadsData, Service!Fatal
<1> QED BY <1>1, <1>7, <1>8, WalkStep DEF a

LEMMA SearchStep == ServerInv /\ Search => [Service!Next]_(Service!vars)
<1> SUFFICES ASSUME ServerInv, Search PROVE [Service!Next]_(Service!vars)
  OBVIOUS
<1> DEFINE a == AskedNid
<1>1. /\ Session /\ phase = "inode" /\ stage = "got" /\ req.op = "lookup" /\ target = req.nid
      /\ req.name \notin BadNames
  BY DEF Search, Got, ServerInv, Session, HandlerRight, BadName
<1>2. CASE Matching(target, req.name) # {}
  <2>1. AskedNid' = AskedNid /\ Shown' = Shown
    BY <1>2, ShownReply DEF Search, AskedNid
  <2> QED BY <2>1 DEF Service!vars
<1>3. CASE Matching(target, req.name) = {}
  <2>1. Reply(Walked(Failure("ENOENT")))
    BY <1>3 DEF Search
  <2>2. a = [op |-> req.op, nid |-> req.nid, name |-> req.name, span |-> req.span]
    BY <1>1, <2>1, ReplyShown
  <2>3. a.op = "lookup" /\ a.name \notin BadNames /\ Service!ChildrenOf(a.nid, a.name) = {}
    BY <1>1, <1>3, <2>2, SameTree DEF Meant
  <2> HIDE DEF a
  <2>4. ShownOf(Failure("ENOENT")) = Service!Found(a)
    BY <2>3, PlainShown DEF Service!Found
  <2>5. Service!ReadsData(a) /\ (Service!Fatal(a) => Service!Undecoded(a))
    BY <2>3 DEF Service!ReadsData, Service!Fatal
  <2> QED BY <1>1, <2>1, <2>4, <2>5, WalkStep DEF a
<1> QED BY <1>2, <1>3

LEMMA RejectStep == ServerInv /\ RejectName => Service!Next
<1> SUFFICES ASSUME ServerInv, RejectName PROVE Service!Next
  OBVIOUS
<1> DEFINE a == AskedNid
<1>1. /\ Session /\ phase = "asked" /\ Reply(Abort) /\ req.op = "lookup"
      /\ req.name \in BadNames
  BY DEF RejectName, BadName, ServerInv
<1>2. a = [op |-> req.op, nid |-> req.nid, name |-> req.name, span |-> req.span]
  BY <1>1, ReplyShown
<1>3. a.op = "lookup" /\ a.name \in BadNames
  BY <1>1, <1>2
<1> HIDE DEF a
<1>4. Service!Fatal(a)
  BY <1>3 DEF Service!Fatal
<1> QED BY <1>1, <1>4, PlainShown, DeliverStep DEF a

LEMMA StepImplements == ServerInv /\ ServerInv' /\ [Next]_vars => [Service!Next]_(Service!vars)
<1> SUFFICES ASSUME ServerInv, ServerInv', [Next]_vars PROVE [Service!Next]_(Service!vars)
  OBVIOUS
<1>1. Session /\ Session'
  BY DEF ServerInv
<1>2. ASSUME UNCHANGED <<req, reply>> PROVE [Service!Next]_(Service!vars)
  <2>1. AskedNid' = AskedNid /\ Shown' = Shown
    BY <1>2, ShownReply DEF AskedNid
  <2> QED BY <2>1 DEF Service!vars
<1>3. CASE UNCHANGED vars
  BY <1>2, <1>3 DEF vars, state
<1>4. CASE Start
  BY <1>2, <1>4 DEF Start
<1>5. CASE Kernel
  BY <1>1, <1>5, KernelStep
<1>6. CASE GetInode \/ GetChild
  BY <1>2, <1>6 DEF GetInode, GetChild
<1>7. CASE Loading \/ LoadingFails
  BY <1>2, <1>7 DEF Loading, LoadingFails, state
<1>8. CASE ReplyFailed \/ DataFails
  <2>1. /\ Reply(Failure("ERANGE")) /\ phase \in {"inode", "child"} /\ req.op # "release"
    BY <1>1, <1>8 DEF ReplyFailed, DataFails, Got, Session, HandlerRight
  <2> QED BY <1>1, <2>1, RefuseStep
<1>9. CASE RejectName \/ Search
  BY <1>9, RejectStep, SearchStep
<1>10. CASE ReplyAttr \/ ReplyEntry \/ ReplyListing
  BY <1>10, AttrStep, EntryStep, ListingStep
<1>11. CASE ReplyOpened \/ ReplyRelease \/ ReplyData
  BY <1>11, PlainStep, DataStep
<1> QED BY <1>3, <1>4, <1>5, <1>6, <1>7, <1>8, <1>9, <1>10, <1>11 DEF Next, Serve

-----------------------------------------------------------------------------
(* The sizes of what the kernel keeps, and when a load goes on. *)

Loads == phase \in {"inode", "child"} <=> stage # "idle"

KnownBounded ==
  /\ \A k \in known : k.ino \in Nat \ {0}
  /\ IsFiniteSet(known) /\ Cardinality(known) <= MaxKnown

(* No two open files share a handle, and one that is being opened gets     *)
(* a handle of its own.                                                    *)
HandlesApart ==
  /\ \A h \in handles : h.ino \in Nat \ {0} /\ h.fh \in 1 .. MaxHandles
  /\ \A g, h \in handles : g.fh = h.fh => g = h

Opening ==
  /\ phase \in Busy => req.ino \in Nat \ {0}
  /\ phase \in Busy /\ req.op = "open" =>
       req.fh \in 1 .. MaxHandles /\ \A h \in handles : h.fh # req.fh
  /\ phase = "replied" /\ reply.kind = "opened" => req.op = "open"

Bounded == Loads /\ KnownBounded /\ HandlesApart /\ Opening

LEMMA SendKept ==
  ASSUME Bounded, NEW op, NEW k, k.ino \in Nat \ {0}, NEW name, NEW fh, NEW span,
         op = "open" => fh \in FreeHandles, Send(Request(op, k, name, fh, span))
  PROVE  Bounded'
<1>1. /\ phase = "idle" /\ phase' = "asked" /\ req' = Request(op, k, name, fh, span)
      /\ known' = known /\ handles' = handles /\ stage' = stage
  BY DEF Send, kernel, load
<1>2. req'.ino = k.ino /\ req'.op = op /\ req'.fh = fh
  BY <1>1 DEF Request
<1>3. Loads'
  BY <1>1 DEF Bounded, Loads
<1>4. KnownBounded' /\ HandlesApart'
  BY <1>1 DEF Bounded, KnownBounded, HandlesApart
<1>5. Opening'
  BY <1>1, <1>2 DEF Opening, FreeHandles
<1> QED BY <1>3, <1>4, <1>5 DEF Bounded

LEMMA AskKept ==
  ASSUME Bounded, AskAttr \/ AskLookup \/ AskLink \/ AskOpen \/ AskListing \/ AskRead \/ AskRelease
  PROVE  Bounded'
<1>1. /\ \A k \in known : k.ino \in Nat \ {0}
      /\ \A h \in handles : h.ino \in Nat \ {0}
  BY DEF Bounded, KnownBounded, HandlesApart
<1>2. CASE AskAttr
  BY <1>1, <1>2, SendKept DEF AskAttr
<1>3. CASE AskLookup
  BY <1>1, <1>3, SendKept DEF AskLookup
<1>4. CASE AskLink
  BY <1>1, <1>4, SendKept DEF AskLink
<1>5. CASE AskOpen
  <2> DEFINE fh == CHOOSE fh \in FreeHandles : \A g \in FreeHandles : fh <= g
  <2>1. PICK k \in known : FreeHandles # {} /\ Send(Request("open", k, "", fh, NoSpan))
    BY <1>5 DEF AskOpen
  <2>2. FreeHandles \subseteq Nat
    BY DEF FreeHandles
  <2>3. fh \in FreeHandles
    BY <2>1, <2>2, LeastNat
  <2> HIDE DEF fh
  <2> QED BY <1>1, <2>1, <2>3, SendKept
<1>6. CASE AskListing
  BY <1>1, <1>6, SendKept DEF AskListing
<1>7. CASE AskRead
  BY <1>1, <1>7, SendKept DEF AskRead
<1>8. CASE AskRelease
  BY <1>1, <1>8, SendKept DEF AskRelease
<1> QED BY <1>2, <1>3, <1>4, <1>5, <1>6, <1>7, <1>8

LEMMA StartKept == Bounded /\ Start => Bounded'
<1> SUFFICES ASSUME Bounded, Start PROVE Bounded'
  OBVIOUS
<1> DEFINE root == [ino |-> FuseRootId, nid |-> Root]
<1>1. /\ phase = "off" /\ phase' = "idle" /\ known' = {root} /\ handles' = handles
      /\ stage' = stage
  BY DEF Start, load
<1>2. root.ino = 1
  BY DEF FuseRootId
<1> HIDE DEF root
<1>3. IsFiniteSet({root}) /\ Cardinality({root}) = 1
  BY FS_Singleton
<1>4. KnownBounded'
  BY <1>1, <1>2, <1>3, ServerAssumption DEF KnownBounded
<1>5. Loads' /\ HandlesApart' /\ Opening'
  BY <1>1 DEF Bounded, Loads, HandlesApart, Opening, Busy
<1> QED BY <1>4, <1>5 DEF Bounded

LEMMA ForgetKept == Bounded /\ Forget => Bounded'
<1> SUFFICES ASSUME Bounded, Forget PROVE Bounded'
  OBVIOUS
<1>1. PICK k \in known : known' = known \ {k}
  BY DEF Forget
<1>2. phase = "idle" /\ phase' = phase /\ handles' = handles /\ stage' = stage
  BY DEF Forget, load
<1>3. IsFiniteSet(known) /\ known' \in SUBSET known
  BY <1>1 DEF Bounded, KnownBounded
<1>4. IsFiniteSet(known') /\ Cardinality(known') <= Cardinality(known)
  BY <1>3, FS_Subset
<1>5. Cardinality(known) \in Nat /\ Cardinality(known') \in Nat
  BY <1>3, <1>4, FS_CardinalityType
<1>6. KnownBounded'
  BY <1>3, <1>4, <1>5, ServerAssumption DEF Bounded, KnownBounded
<1>7. Loads' /\ HandlesApart' /\ Opening'
  BY <1>2 DEF Bounded, Loads, HandlesApart, Opening, Busy
<1> QED BY <1>6, <1>7 DEF Bounded

(* One more number is kept only where there is room for it. *)
LEMMA TakeKnown == Bounded /\ Session /\ TakeReply => KnownBounded'
<1> SUFFICES ASSUME Bounded, Session, TakeReply PROVE KnownBounded'
  OBVIOUS
<1>1. /\ \A k \in known : k.ino \in Nat \ {0}
      /\ IsFiniteSet(known) /\ Cardinality(known) <= MaxKnown
  BY DEF Bounded, KnownBounded
<1>2. CASE reply.kind = "entry" /\ Cardinality(known) < MaxKnown
  <2> DEFINE n == FoundNid(req.nid, req.name)
             e == [ino |-> reply.ino, nid |-> n]
  <2>1. /\ Matching(req.nid, req.name) # {}
        /\ reply.ino = AttrIno(n)
    BY <1>2 DEF Session, HandlerRight, TakeReply
  <2>2. n \in Nat /\ Meant(req.nid, req.name) = {n}
    BY <2>1, FoundFacts
  <2> HIDE DEF n
  <2>3. e.ino \in Nat \ {0}
    BY <2>1, <2>2 DEF AttrIno, FuseRootId
  <2>4. known' = known \cup {e}
    BY <1>2, <2>2 DEF TakeReply
  <2> HIDE DEF e
  <2>5. /\ IsFiniteSet(known \cup {e})
        /\ Cardinality(known \cup {e}) = IF e \in known THEN Cardinality(known) ELSE Cardinality(known) + 1
    BY <1>1, FS_AddElement
  <2>6. Cardinality(known) \in Nat
    BY <1>1, FS_CardinalityType
  <2>7. Cardinality(known') <= MaxKnown
    BY <1>2, <2>4, <2>5, <2>6, ServerAssumption
  <2> QED BY <1>1, <2>3, <2>4, <2>5, <2>7 DEF KnownBounded
<1>3. CASE ~(reply.kind = "entry" /\ Cardinality(known) < MaxKnown)
  <2>1. known' = known
    BY <1>3 DEF TakeReply
  <2> QED BY <1>1, <2>1 DEF KnownBounded
<1> QED BY <1>2, <1>3

LEMMA TakeReplyKept == Bounded /\ Session /\ TakeReply => Bounded'
<1> SUFFICES ASSUME Bounded, Session, TakeReply PROVE Bounded'
  OBVIOUS
<1>1. phase = "replied" /\ phase' = "idle" /\ stage' = stage
  BY DEF TakeReply, load
<1>2. HandlesApart'
  <2> DEFINE e == [fh |-> req.fh, ino |-> req.ino, nid |-> req.nid]
  <2>1. CASE reply.kind = "opened"
    <3>1. /\ req.ino \in Nat \ {0} /\ req.fh \in 1 .. MaxHandles
          /\ \A h \in handles : h.fh # req.fh
      BY <1>1, <2>1 DEF Bounded, Opening, Busy
    <3>2. handles' = handles \cup {e} /\ e.ino = req.ino /\ e.fh = req.fh
      BY <2>1 DEF TakeReply
    <3> QED BY <3>1, <3>2 DEF Bounded, HandlesApart
  <2>2. CASE reply.kind # "opened"
    <3>1. handles' \subseteq handles
      BY <2>2 DEF TakeReply
    <3> QED BY <3>1 DEF Bounded, HandlesApart
  <2> QED BY <2>1, <2>2
<1>3. Loads' /\ Opening'
  BY <1>1 DEF Bounded, Loads, Opening, Busy
<1> QED BY <1>2, <1>3, TakeKnown DEF Bounded

LEMMA ReplyKept ==
  ASSUME Bounded, phase \in {"asked", "inode", "search", "child"}, NEW r, Reply(r),
         r.kind = "opened" => req.op = "open", stage' = "idle"
  PROVE  Bounded'
<1>1. /\ phase' = "replied" /\ reply' = r /\ req' = req /\ known' = known /\ handles' = handles
  BY DEF Reply, kernel
<1>2. Loads' /\ KnownBounded' /\ HandlesApart' /\ Opening'
  BY <1>1 DEF Bounded, Loads, KnownBounded, HandlesApart, Opening, Busy
<1> QED BY <1>2 DEF Bounded

LEMMA HandlerKept == Bounded /\ Session /\ (Serve \/ LoadingFails \/ DataFails) => Bounded'
<1> SUFFICES ASSUME Bounded, Session, Serve \/ LoadingFails \/ DataFails PROVE Bounded'
  OBVIOUS
<1>1. ASSUME phase' \in {"inode", "child"}, stage' # "idle", phase \in Busy,
             UNCHANGED <<req, reply, kernel>>
      PROVE  Bounded'
  BY <1>1 DEF Bounded, Loads, KnownBounded, HandlesApart, Opening, Busy, kernel
<1>2. CASE GetInode \/ GetChild
  <2>1. stage' # "idle"
    BY <1>2 DEF GetInode, GetChild, Get
  <2>2. phase' \in {"inode", "child"} /\ phase \in Busy /\ UNCHANGED <<req, reply, kernel>>
    BY <1>2 DEF GetInode, GetChild, Busy
  <2> QED BY <1>1, <2>1, <2>2
<1>3. CASE Loading \/ LoadingFails
  <2>1. stage' # "idle"
    BY <1>3 DEF Loading, LoadingFails, Load, LoadFails, ReadBase, ReadRest, ReadSummary, ReadIndexes,
                Insert, AfterInfo
  <2>2. /\ phase' = phase /\ phase \in {"inode", "child"} /\ phase \in Busy
        /\ UNCHANGED <<req, reply, kernel>>
    BY <1>3 DEF Loading, LoadingFails, state, Busy
  <2> QED BY <1>1, <2>1, <2>2
<1>4. ASSUME NEW r, phase \in {"inode", "child"}, Leave, Reply(r),
             r.kind = "opened" => req.op = "open"
      PROVE  Bounded'
  BY <1>4, ReplyKept DEF Leave
<1>5. CASE ReplyFailed \/ DataFails
  BY <1>4, <1>5, Kinds DEF ReplyFailed, DataFails, Got
<1>6. CASE ReplyAttr
  <2>1. Attr("attr", target, Held).kind # "opened"
    BY Kinds
  <2> QED BY <1>4, <1>6, <2>1 DEF ReplyAttr, Got
<1>7. CASE ReplyOpened
  BY <1>4, <1>7 DEF ReplyOpened, Got
<1>8. CASE ReplyData
  <2>1. phase = "inode" /\ Leave /\ Reply(DataReply)
    BY <1>8 DEF ReplyData, Got, DataReply
  <2> QED BY <1>4, <2>1, WalkKinds
<1>9. CASE ReplyListing
  <2>1. phase = "inode" /\ Leave /\ Reply(ListingReply)
    BY <1>9 DEF ReplyListing, Got, ListingReply
  <2> QED BY <1>4, <2>1, WalkKinds
<1>10. CASE ReplyEntry
  <2>1. Attr("entry", target, Held).kind # "opened"
    BY Kinds
  <2> QED BY <1>4, <1>10, <2>1 DEF ReplyEntry
<1>11. CASE RejectName \/ ReplyRelease
  <2>1. phase = "asked" /\ stage = "idle"
    BY <1>11 DEF RejectName, ReplyRelease, Bounded, Loads
  <2>2. stage' = "idle"
    BY <1>11, <2>1 DEF RejectName, ReplyRelease, Remove, load
  <2>3. \E r : Reply(r) /\ r.kind # "opened"
    BY <1>11, Kinds DEF RejectName, ReplyRelease
  <2> QED BY <2>1, <2>2, <2>3, ReplyKept
<1>12. CASE Search
  <2>1. phase = "inode" /\ stage' = "idle" /\ Leave
    BY <1>12 DEF Search, Got, Leave
  <2>2. CASE Matching(target, req.name) # {}
    <3>1. phase' = "search" /\ UNCHANGED <<req, reply, known, handles>>
      BY <1>12, <2>2 DEF Search, kernel
    <3> QED BY <2>1, <3>1 DEF Bounded, Loads, KnownBounded, HandlesApart, Opening, Busy
  <2>3. CASE Matching(target, req.name) = {}
    <3>1. Reply(Walked(Failure("ENOENT")))
      BY <1>12, <2>3 DEF Search
    <3> QED BY <1>4, <2>1, <3>1, WalkKinds
  <2> QED BY <2>2, <2>3
<1> QED BY <1>2, <1>3, <1>5, <1>6, <1>7, <1>8, <1>9, <1>10, <1>11, <1>12 DEF Serve

LEMMA KeptInit == Init => Bounded
<1> SUFFICES ASSUME Init PROVE Bounded
  OBVIOUS
<1>1. phase = "off" /\ stage = "idle" /\ known = {} /\ handles = {}
  BY DEF Init, LoadInit
<1>2. Loads /\ HandlesApart /\ Opening
  BY <1>1 DEF Loads, HandlesApart, Opening, Busy
<1>3. KnownBounded
  BY <1>1, FS_EmptySet, ServerAssumption DEF KnownBounded
<1> QED BY <1>2, <1>3 DEF Bounded

LEMMA KeptNext == ServerInv /\ Bounded /\ [Next]_vars => Bounded'
<1> SUFFICES ASSUME ServerInv, Bounded, [Next]_vars PROVE Bounded'
  OBVIOUS
<1>1. Session
  BY DEF ServerInv
<1>2. CASE UNCHANGED vars
  <2>1. UNCHANGED <<phase, req, reply, known, handles, stage>>
    BY <1>2 DEF vars, load, state, kernel
  <2> QED BY <2>1 DEF Bounded, Loads, KnownBounded, HandlesApart, Opening
<1>3. CASE Next
  BY <1>1, <1>3, StartKept, AskKept, ForgetKept, TakeReplyKept, HandlerKept DEF Next, Kernel
<1> QED BY <1>2, <1>3

(* As many handles are open as there are numbers for, at most.             *)
LEMMA HandlesBounded ==
  ASSUME HandlesApart
  PROVE  Cardinality(handles) <= MaxHandles
<1> DEFINE f == [h \in handles |-> h.fh]
<1>1. f \in Injection(handles, 1 .. MaxHandles)
  BY DEF HandlesApart, Injection, IsInjective
<1>2. MaxHandles \in Nat
  BY ServerAssumption
<1>3. IsFiniteSet(1 .. MaxHandles) /\ Cardinality(1 .. MaxHandles) = MaxHandles
  BY <1>2, FS_Interval
<1> HIDE DEF f
<1>4. Cardinality(handles) <= Cardinality(1 .. MaxHandles)
  BY <1>1, <1>3, FS_Injection
<1> QED BY <1>3, <1>4

-----------------------------------------------------------------------------
(* Theorems. *)

THEOREM ServerInvariance == Spec => []ServerInv
<1> QED BY ServerInvInit, ServerInvNext, PTL DEF Spec

(* A number the kernel holds leads back to the inode it was given for, in  *)
(* the images of ServerAssumption                                          *)
(* (lookup, getattr and readdir of ErofsFuse, ino_to_nid).                 *)
THEOREM NumbersCorrect == Spec => []NumbersExact
<1>1. ServerInv => NumbersExact
  BY DEF ServerInv, Session, NumbersRight, Right, NumbersExact
<1> QED BY <1>1, ServerInvariance, PTL

(* The server uses the collection as any caller may: what is proved of the *)
(* collection holds in the server.                                         *)
THEOREM ServerImplementsLoad == Spec => LoadSpec
<1>1. Init => LoadInit
  BY DEF Init
<1> QED BY <1>1, LoadStep, ServerInvariance, PTL DEF Spec, LoadSpec

THEOREM KeptInvariance == Spec => [](ServerInv /\ Bounded)
<1> QED BY KeptInit, KeptNext, ServerInvariance, PTL DEF Spec

(* A handler has a load going on exactly while it waits for an inode, the  *)
(* kernel's tables keep within their bounds, and no two open files share a *)
(* handle (Session::run, iget of FuseCollection).                          *)
THEOREM ServerTypesCorrect == Spec => []TypeOK
<1>1. ServerInv /\ Bounded /\ LoadTypeOK => TypeOK
  <2> SUFFICES ASSUME ServerInv, Bounded, LoadTypeOK PROVE TypeOK
    OBVIOUS
  <2>1. /\ phase \in {"off", "idle", "asked", "inode", "search", "child", "replied"}
        /\ phase = "replied" <=> reply # NoReply
    BY DEF ServerInv, Session, HandlerRight, Busy
  <2>2. phase \in {"off", "idle"} <=> req = NoRequest
    <3>1. ASSUME phase \in Busy PROVE req # NoRequest
      <4>1. req.op \in Service!Ops
        BY <3>1 DEF ServerInv, Session, RequestRight
      <4>2. NoRequest.op \notin Service!Ops
        BY DEF NoRequest, Service!Ops
      <4> QED BY <4>1, <4>2
    <3> QED BY <2>1, <3>1 DEF ServerInv, Session, RequestRight, Busy
  <2>3. phase \in {"inode", "child"} <=> stage # "idle"
    BY DEF Bounded, Loads
  <2>4. \A k \in known \cup handles : k.ino \in Nat \ {0} /\ k.nid \in Nat
    BY DEF Bounded, KnownBounded, HandlesApart, ServerInv, Session, NumbersRight, Right
  <2>5. Cardinality(known) <= MaxKnown /\ Cardinality(handles) <= MaxHandles
    BY HandlesBounded DEF Bounded, KnownBounded
  <2> QED BY <2>1, <2>2, <2>3, <2>4, <2>5 DEF TypeOK
<1> QED BY <1>1, KeptInvariance, ServerImplementsLoad, LoadTypesCorrect, PTL

(* So what a handler finds in the collection has the bytes of its slot and *)
(* the first of its shared indexes, all of them below 64                   *)
(* (get_inode of ErofsFuse, FuseCollection).                               *)
THEOREM ServedFromImage == Spec => [](CacheExact /\ AllOrNothing)
<1> QED BY ServerImplementsLoad, CacheCorrect, AllOrNothingCorrect, PTL

(* Whatever came before it, a request is answered from the image about the *)
(* inode its number was given for, with EUCLEAN exactly when the data it   *)
(* reads has a hole, or refused when the backend failed; and the server    *)
(* stops only where there is no answer (every handler of ErofsFuse).       *)
THEOREM ServerImplementsService == Spec => ImplementsService
<1>1. ServerInv /\ ServerInv' /\ [Next]_vars => [Service!Next]_(Service!vars)
  BY StepImplements
<1> QED BY <1>1, InitImplements, ServerInvariance, PTL DEF Spec, ImplementsService, Service!Spec
=============================================================================
