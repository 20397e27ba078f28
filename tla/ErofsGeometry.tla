--------------------------- MODULE ErofsGeometry ---------------------------
(***************************************************************************)
(* Address arithmetic of the superblock: `Accessor`, `blkpos`,             *)
(* `blk_round_up`, `iloc` and the `round!` macro.  The code works with     *)
(* shifts and masks by `blkszbits`; here the block size itself is the      *)
(* parameter, so a shift is a division or a product and a mask a           *)
(* remainder.                                                              *)
(***************************************************************************)
EXTENDS Integers

CONSTANTS
  BlkSz,        \* 1 << blkszbits, the block size of the image
  MetaBlkAddr   \* meta_blkaddr, the block where the inode table starts

ASSUME GeometryAssumption ==
  /\ BlkSz \in Nat \ {0}
  /\ MetaBlkAddr \in Nat

Lesser(a, b) == IF a <= b THEN a ELSE b

(* A mutant of Accessor: the distance to the next unit boundary, which is  *)
(* zero at a boundary.                                                     *)
AccessorToBoundary(address, sz) ==
  [ nr   |-> address \div sz,
    base |-> (address \div sz) * sz,
    off  |-> address % sz,
    len  |-> (sz - (address % sz)) % sz ]

(* Accessor::new, for a unit of `sz` bytes: the fields nr, base, off, len. *)
Accessor(address, sz) ==
  [ nr   |-> address \div sz,
    base |-> (address \div sz) * sz,
    off  |-> address % sz,
    len  |-> sz - (address % sz) ]

BlkAccess(address) == Accessor(address, BlkSz)

BlkPos(blk) == blk * BlkSz

BlkRoundUp(addr) == (addr + BlkSz - 1) \div BlkSz

(* round!(UP, x, y) *)
RoundUp(x, y) == ((x + y - 1) \div y) * y

(* Address of the on-disk inode nid, in slots of 1 << 5 bytes. *)
Iloc(nid) == BlkPos(MetaBlkAddr) + nid * 32
=============================================================================
