------------------------------ MODULE BlockMap ------------------------------
(***************************************************************************)
(* Where the bytes of an inode are: `FileSystem::map` with its two cases,  *)
(* `flatmap` and `chunk_map`, and the inode fields they depend on.  An     *)
(* inode is a record                                                       *)
(*                                                                         *)
(*   layout, mode, version, icount   i_format, i_mode, i_xattr_icount      *)
(*   nid, size                       inode number and i_size               *)
(*   blkaddr                         i_u of a flat inode (Spec::RawBlk)    *)
(*   chunkblks                       1 << chunkbits, blocks in a chunk     *)
(*   table                           the chunk table stored after the      *)
(*                                   inode, chunk number -> block address  *)
(***************************************************************************)
EXTENDS ErofsGeometry

CONSTANTS
  NullAddr,   \* u32::MAX, the block address of a chunk that is not stored
  ImgLen      \* bytes in the image: reads stop there

ASSUME BlockMapAssumption == NullAddr \in Nat /\ ImgLen \in Nat

FlatLayouts  == {"FlatPlain", "FlatInline"}
ChunkLayouts == {"ChunkMap", "ChunkIndex"}   \* Layout::Chunk, by is_chunkindex
OtherLayouts == {"CompressedFull", "CompressedCompact", "Unknown"}
DataModes    == {"Regular", "Directory", "Link"}
OtherModes   == {"Character", "Block", "Fifo", "Socket", "Unknown"}

-----------------------------------------------------------------------------
(* Inode fields. *)

InodeSize(i) == IF i.version = "Extended" THEN 64 ELSE 32

(* The in-inode extended attributes, as the code measures them.            *)
XattrSize(i) ==
  IF i.version = "Extended" /\ i.icount # 0 THEN 12 + 4 * (i.icount - 1) ELSE 0

(* First byte after the inode and the attributes the code accounts for.    *)
MetaEnd(i) == Iloc(i.nid) + InodeSize(i) + XattrSize(i)

(* InodeInfo::spec gives a data location only to these modes.              *)
HasSpec(i) == i.mode \in DataModes

ChunkSz(i) == BlkSz * i.chunkblks

Chunks(i) ==
  IF i.layout \in ChunkLayouts THEN (i.size + ChunkSz(i) - 1) \div ChunkSz(i) ELSE 0

(* What an inode of an image can be. *)
IsInode(i) ==
  /\ i.layout \in FlatLayouts \cup ChunkLayouts \cup OtherLayouts
  /\ i.mode \in DataModes \cup OtherModes
  /\ i.version \in {"Compact", "Extended"}
  /\ i.icount \in Nat /\ i.nid \in Nat /\ i.size \in Nat /\ i.blkaddr \in Nat
  /\ i.chunkblks \in Nat \ {0}
  /\ i.table \in [0 .. Chunks(i) - 1 -> Nat]

ChunkAccess(i, address) == Accessor(address, ChunkSz(i))

-----------------------------------------------------------------------------
(* The on-disk format, which the writer of the image follows.  Extended    *)
(* attributes follow the inode whatever its version, then comes the inline *)
(* tail or the chunk table, an array of `unit`-byte entries that starts at *)
(* a multiple of `unit`.                                                   *)

DiskXattrSize(i) == IF i.icount = 0 THEN 0 ELSE 12 + 4 * (i.icount - 1)

DiskMetaEnd(i) == Iloc(i.nid) + InodeSize(i) + DiskXattrSize(i)

ChunkUnit(i) == IF i.layout = "ChunkIndex" THEN 8 ELSE 4

TableStart(i) == RoundUp(DiskMetaEnd(i), ChunkUnit(i))

(* The first byte of the last block of a file, its inline tail.            *)
TailStart(i) == BlkPos((i.size - 1) \div BlkSz)

(* The address of byte k of a file.                                        *)
Home(i, k) ==
  IF i.layout \in ChunkLayouts
    THEN BlkPos(i.table[k \div ChunkSz(i)]) + (k % ChunkSz(i))
  ELSE IF i.layout = "FlatInline" /\ k >= TailStart(i)
    THEN DiskMetaEnd(i) + (k - TailStart(i))
  ELSE BlkPos(i.blkaddr) + k

(* A byte with no place in the image: a hole of a chunked file, or any byte *)
(* of an inode that has no data.                                           *)
Unmapped(i, k) ==
  \/ ~HasSpec(i)
  \/ i.layout \in ChunkLayouts /\ i.table[k \div ChunkSz(i)] = NullAddr

-----------------------------------------------------------------------------
(* flatmap.  Extents are the `physical` segments of the code's Map; its    *)
(* `logical` segment starts at the requested offset and has the same len.  *)

LastBlk(i) ==
  IF i.layout = "FlatInline" THEN BlkRoundUp(i.size) - 1 ELSE BlkRoundUp(i.size)

InBlocks(i, offset) == offset < BlkPos(LastBlk(i))

(* A mutant of FlatExtent: the last extent is not clipped to the size.     *)
FlatExtentUnclipped(i, offset) ==
  IF InBlocks(i, offset)
    THEN [ start |-> BlkPos(i.blkaddr) + offset, len |-> BlkPos(LastBlk(i)) - offset ]
    ELSE [ start |-> MetaEnd(i) + BlkAccess(offset).off, len |-> i.size - offset ]

FlatExtent(i, offset) ==
  IF InBlocks(i, offset)
    THEN [ start |-> BlkPos(i.blkaddr) + offset,
           len   |-> Lesser(i.size, BlkPos(LastBlk(i))) - offset ]
    ELSE [ start |-> MetaEnd(i) + BlkAccess(offset).off,
           len   |-> i.size - offset ]

(* A mutant of FlatRefused: the inode's mode is not looked at. *)
FlatRefusedAnyMode(i, offset) == ~InBlocks(i, offset) /\ i.layout # "FlatInline"

FlatRefused(i, offset) ==
  ~HasSpec(i) \/ (~InBlocks(i, offset) /\ i.layout # "FlatInline")

(* chunk_map.  The entry of a chunk is looked up at an address of the      *)
(* table stored at TableStart.                                             *)

ChunkEntryPos(i, nr) == RoundUp(MetaEnd(i) + ChunkUnit(i) * nr, ChunkUnit(i))

ChunkAddr(i, offset) ==
  i.table[ (ChunkEntryPos(i, ChunkAccess(i, offset).nr) - TableStart(i))
             \div ChunkUnit(i) ]

ChunkExtent(i, offset) ==
  LET accessor == ChunkAccess(i, offset)
  IN  [ start |-> BlkPos(ChunkAddr(i, offset)) + accessor.off,
        len   |-> IF i.layout = "ChunkIndex"
                    THEN accessor.len
                    ELSE Lesser(accessor.len, i.size - offset) ]

ChunkRefused(i, offset) == ~HasSpec(i) \/ ChunkAddr(i, offset) = NullAddr

(* map: EUCLEAN, a panic in todo!(), or an extent. *)
MapRefused(i, offset) ==
  \/ i.layout \in FlatLayouts /\ FlatRefused(i, offset)
  \/ i.layout \in ChunkLayouts /\ ChunkRefused(i, offset)

MapTodo(i) == i.layout \in OtherLayouts

Extent(i, offset) ==
  IF i.layout \in FlatLayouts THEN FlatExtent(i, offset) ELSE ChunkExtent(i, offset)

(* How far MapIter::next moves past an extent, and how much of the extent  *)
(* the buffer iterator on top of it yields: computed in two places.        *)
(* Mutants: the iterator moves past the whole extent, or past the whole    *)
(* block; the buffer is the rest of the block.                             *)
AdvanceExtent(e) == e.len
AdvanceBlock(e) == BlkAccess(e.start).len
YieldBlock(e) == BlkAccess(e.start).len

Advance(e) == Lesser(e.len, BlkAccess(e.start).len)

YieldLen(e) == Lesser(BlkAccess(e.start).len, e.len)

-----------------------------------------------------------------------------
(* What a read of the image returns.  A byte of the image is named by its  *)
(* address, and Zero stands for the zero a freshly allocated buffer holds: *)
(* a read that stops at the end of the image reports how much it read, and *)
(* the iterators do not look.                                              *)

Zero == -1

ByteAt(address) == IF address < ImgLen THEN address ELSE Zero

(* The images the library reads back faithfully: no compact inode has      *)
(* extended attributes, an indexed chunk table covers whole chunks, and    *)
(* the image holds every byte it refers to.                                *)
Supported(i) ==
  /\ i.version = "Compact" => i.icount = 0
  /\ i.layout = "ChunkIndex" => i.size % ChunkSz(i) = 0
  /\ ~MapTodo(i) => \A k \in 0 .. i.size - 1 : Unmapped(i, k) \/ Home(i, k) < ImgLen
=============================================================================
