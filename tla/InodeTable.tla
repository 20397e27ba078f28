----------------------------- MODULE InodeTable -----------------------------
(***************************************************************************)
(* The inode table as the image stores it: the inode nid takes one slot of *)
(* 32 bytes when it is compact and two when it is extended; the summary of *)
(* the shared attributes and their indexes follow an extended inode.  What *)
(* a slot holds is told by a record                                        *)
(*                                                                         *)
(*   version, layout, icount   i_format, i_xattr_icount                    *)
(*   mode, perm                type and the other twelve bits of i_mode    *)
(*   size                      i_size                                      *)
(*   blkaddr, chunkblks        i_u, as the layout has it                   *)
(*   table                     the chunk table after the inode             *)
(*   shared                    shared_count of the summary                 *)
(*                                                                         *)
(* and every field beyond these is named by the address of its first byte. *)
(***************************************************************************)
EXTENDS BlockMap

CONSTANT Inodes   \* nid -> the inode stored in that slot

(* What SimpleInode keeps: the inode as it was read, and its number.       *)
AsInode(i, nid) ==
  [ layout |-> i.layout, mode |-> i.mode, version |-> i.version, icount |-> i.icount,
    nid |-> nid, size |-> i.size, blkaddr |-> i.blkaddr, chunkblks |-> i.chunkblks,
    table |-> i.table ]

IsStored(i) == IsInode(AsInode(i, 0)) /\ i.perm \in 0 .. 4095 /\ i.shared \in 0 .. 255

ASSUME InodeTableAssumption ==
  /\ BlkSz % 32 = 0 /\ ImgLen % 32 = 0
  /\ DOMAIN Inodes \subseteq Nat
  /\ \A n \in DOMAIN Inodes : IsStored(Inodes[n])

(* A slot of zeros reads as a compact inode without a type. *)
Blank ==
  [ version |-> "Compact", layout |-> "FlatPlain", icount |-> 0, mode |-> "Unknown", perm |-> 0,
    size |-> 0, blkaddr |-> 0, chunkblks |-> 1, table |-> [c \in {} |-> 0], shared |-> 0 ]

Slot(n) == IF n \in DOMAIN Inodes THEN Inodes[n] ELSE Blank

(* The inode whose first byte is the one called a. *)
InodeAt(a) == IF a = Zero THEN Blank ELSE Slot((a - Iloc(0)) \div 32)

(* Inode nid as the image has it, all zeros behind the end of the image.   *)
DiskInode(nid) == InodeAt(ByteAt(Iloc(nid)))

SummaryAt(nid) == Iloc(nid) + InodeSize(DiskInode(nid))

DiskSharedCount(nid) == IF SummaryAt(nid) < ImgLen THEN DiskInode(nid).shared ELSE 0

(* Address of the shared index k of inode nid, counted from 1. *)
IndexAt(nid, k) == SummaryAt(nid) + 12 + 4 * (k - 1)
=============================================================================
