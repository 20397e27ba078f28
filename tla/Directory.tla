----------------------------- MODULE Directory ------------------------------
(***************************************************************************)
(* A directory as the image stores it and as `DirCollection` reads it.  A  *)
(* directory is a record                                                   *)
(*                                                                         *)
(*   inode    its inode, the data of which BlockMap places                 *)
(*   blocks   one record per block of the data:                            *)
(*     ents   the names in it, in order                                    *)
(*     pad    whether zeros follow the last name up to the block's end     *)
(*                                                                         *)
(* A block starts with one 12-byte descriptor per entry; the names follow. *)
(***************************************************************************)
EXTENDS BlockMap, Sequences

DescSize == 12    \* size_of::<DirentDesc>()

IsDirectory(d) ==
  /\ IsInode(d.inode)
  /\ d.inode.mode = "Directory"
  /\ d.inode.layout \in FlatLayouts \cup ChunkLayouts
  /\ d.inode.size > 0
  /\ Len(d.blocks) = BlkRoundUp(d.inode.size)
  /\ d.blocks \in Seq([ents : Seq(STRING), pad : BOOLEAN])
  /\ \A b \in 1 .. Len(d.blocks) :
       LET block == d.blocks[b]
           room  == Lesser(BlkSz, d.inode.size - BlkPos(b - 1))
       IN  /\ Len(block.ents) > 0
           /\ DescSize * Len(block.ents) < room
           /\ b = Len(d.blocks) => ~block.pad

(* The format keeps an inline tail inside one block of the image.          *)
TailInBlock(i) ==
  i.layout = "FlatInline" =>
    BlkAccess(DiskMetaEnd(i)).off + (i.size - TailStart(i)) <= BlkSz

(* A directory of an image the library supports.                           *)
WellStored(d) == IsDirectory(d) /\ TailInBlock(d.inode) /\ Supported(d.inode)

(* Entry k of block b, both counted from 0, and its position: the offset   *)
(* of its descriptor in the directory's data.                              *)
Entry(d, b, k) == d.blocks[b + 1].ents[k + 1]
Total(d, b) == Len(d.blocks[b + 1].ents)
Position(b, k) == BlkPos(b) + DescSize * k

(* The names in the blocks of a directory.                                 *)
NamesOf(d) ==
  UNION { { Entry(d, b, k) : k \in 0 .. Total(d, b) - 1 } : b \in 0 .. Len(d.blocks) - 1 }

(* All entries from a position on, in order, as <<name, position>>.        *)
BlockEntries(d, b) == [k \in 1 .. Total(d, b) |-> <<Entry(d, b, k - 1), Position(b, k - 1)>>]

EntriesOf(d) ==
  LET upTo[b \in 0 .. Len(d.blocks)] ==
        IF b = 0 THEN <<>> ELSE upTo[b - 1] \o BlockEntries(d, b - 1)
  IN  upTo[Len(d.blocks)]

(* Positions grow along a directory, so a position parts its entries: the  *)
(* number of those before it.                                              *)
EntriesBefore(d, offset) ==
  CHOOSE m \in 0 .. Len(EntriesOf(d)) :
    \A k \in DOMAIN EntriesOf(d) : EntriesOf(d)[k][2] < offset <=> k <= m

EntriesFrom(d, offset) ==
  SubSeq(EntriesOf(d), EntriesBefore(d, offset) + 1, Len(EntriesOf(d)))

(* DirCollection::dirent: the name of an entry ends where the next begins, *)
(* that of the last where the buffer ends.                                 *)
Dirname(d, b, k) ==
  [ name   |-> Entry(d, b, k),
    padded |-> k = Total(d, b) - 1 /\ d.blocks[b + 1].pad ]
=============================================================================
