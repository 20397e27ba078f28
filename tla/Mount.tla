------------------------------- MODULE Mount -------------------------------
(***************************************************************************)
(* Mounting an image: `ImageFileSystem::try_new`, and `MemFileSystem`'s,   *)
(* which differs in its buffers: they end where the image ends, and there  *)
(* are none behind it.  The superblock is read, then the table of prefixes *)
(* with `get_xattr_infixes`, then the slots of the extra devices with      *)
(* `get_device_infos`.  A step is one call of the backend or one turn of   *)
(* the loop over a buffer.                                                 *)
(*                                                                         *)
(* What was read is told by the address of its first byte.                 *)
(***************************************************************************)
EXTENDS ErofsGeometry, Sequences

CONSTANTS
  OffSize,  \* 2^64, the number of values of an Off
  Images    \* images that may be mounted

SuperOffset == 1024   \* EROFS_SUPER_OFFSET
SlotSize == 128
MaskMax == 65535      \* DeviceInfo.mask is a u16

Half == OffSize \div 2
Signed(bits) == -(2 ^ (bits - 1)) .. 2 ^ (bits - 1) - 1

(* An image: its length, the fields of its superblock that a mount uses,   *)
(* and the two-byte numbers that are not zero, by their address.  The      *)
(* fields are signed as the code reads them; an Off has more than room for *)
(* the end of every table of devices.                                      *)
IsImage(i) ==
  /\ i.len \in 0 .. Half /\ i.len % 4 = 0
  /\ i.xattr_prefix_start \in -Half .. Half - 1
  /\ i.xattr_prefix_count \in 0 .. 255
  /\ i.devt_slotoff \in Signed(16) /\ i.extra_devices \in Signed(16)
  /\ \A a \in DOMAIN i.sizes : i.sizes[a] \in Nat /\ i.sizes[a] < 65536

ASSUME MountAssumption ==
  /\ BlkSz % SlotSize = 0
  /\ OffSize \in Nat /\ OffSize >= 16777216 /\ OffSize % 4 = 0
  /\ \A i \in Images : IsImage(i)

VARIABLES
  image, mapped,  \* what is mounted, and whether its memory is
  phase,          \* superblock, prefixes, infix, devices, slot, or an end
  it, left,       \* offset and len of the ContinuousBufferIter
  at, len, cur,   \* the buffer: its address, its length, and the loop's `cur`
  infixes,        \* `result` of get_xattr_infixes
  specs, mask     \* DeviceInfo

chosen == <<image, mapped>>
buffer == <<at, len, cur>>
vars == <<chosen, phase, it, left, buffer, infixes, specs, mask>>

Ends == {"mounted", "failed", "panicked"}

Init ==
  /\ image \in Images /\ mapped \in BOOLEAN
  /\ phase = "superblock"
  /\ it = 0 /\ left = 0
  /\ at = 0 /\ len = 0 /\ cur = 0
  /\ infixes = <<>> /\ specs = <<>> /\ mask = 0

-----------------------------------------------------------------------------
(* The superblock.  Nothing in it is looked at: an image that ends before  *)
(* it has one of zeros.                                                    *)

Zeros == [xattr_prefix_start |-> 0, xattr_prefix_count |-> 0, devt_slotoff |-> 0, extra_devices |-> 0]

Sb == IF image.len > SuperOffset THEN image ELSE Zeros

(* `as Off`: a negative field is extended to a number near 2^64. *)
AsOff(x) == IF x < 0 THEN x + OffSize ELSE x

PrefixStart == AsOff(Sb.xattr_prefix_start)
PrefixLen == Sb.xattr_prefix_count * 4

DevicesAt == AsOff(Sb.devt_slotoff) * SlotSize
DevicesLen == AsOff(Sb.extra_devices) * SlotSize

(* The products of EndPrefixes, in a build with overflow checks. *)
Overflows == DevicesAt >= OffSize \/ DevicesLen >= OffSize

(* A mapped image has no bytes to lend from behind its end: the length of  *)
(* what is left there underflows.  A file's offsets are signed.            *)
Outside(a) == mapped /\ a > image.len
Refuses(a) == ~mapped /\ a >= Half

ReadSuperblock ==
  /\ phase = "superblock"
  /\ IF Outside(SuperOffset)
       THEN phase' = "panicked" /\ UNCHANGED <<it, left>>
       ELSE phase' = "prefixes" /\ it' = PrefixStart /\ left' = PrefixLen
  /\ UNCHANGED <<chosen, buffer, infixes, specs, mask>>

-----------------------------------------------------------------------------
(* The iterator, for both loops. *)

(* A mutant of Piece: the rest of the block, whatever was asked for.       *)
PieceWhole == BlkAccess(it).len

Piece == Lesser(BlkAccess(it).len, left)

NextBuffer(from, to) ==
  /\ phase = from /\ left > 0
  /\ IF Outside(it) \/ Refuses(it)
       THEN /\ phase' = IF mapped THEN "panicked" ELSE "failed"
            /\ UNCHANGED <<it, left, buffer>>
       ELSE /\ phase' = to
            /\ at' = it /\ cur' = 0
            /\ len' = IF mapped THEN Lesser(Piece, image.len - it) ELSE Piece
            /\ it' = it + Piece
            /\ left' = left - Piece
  /\ UNCHANGED <<chosen, infixes, specs, mask>>

-----------------------------------------------------------------------------
(* get_xattr_infixes. *)

SizeAt(a) == IF a \in DOMAIN image.sizes /\ a + 2 <= image.len THEN image.sizes[a] ELSE 0

Infix(a, n) == [at |-> a, len |-> n]

(* Mutants of AfterEntry: the sum is started anew, and another unit.       *)
AfterEntryLocal(c, size) == RoundUp(2 + size, 4)
AfterEntryWide(c, size) == RoundUp(c + 2 + size, 8)

AfterEntry(c, size) == RoundUp(c + 2 + size, 4)

(* Both slices of the entry at c are within the buffer.                    *)
InBuffer(c) == c + 2 <= len /\ c + 2 + SizeAt(at + c) <= len

NextPrefixes == NextBuffer("prefixes", "infix")

ParseInfix ==
  /\ phase = "infix" /\ cur <= len
  /\ InBuffer(cur)
  /\ infixes' = Append(infixes, Infix(at + cur + 2, SizeAt(at + cur)))
  /\ cur' = AfterEntry(cur, SizeAt(at + cur))
  /\ UNCHANGED <<chosen, phase, it, left, at, len, specs, mask>>

ParsePanics ==
  /\ phase = "infix" /\ cur <= len
  /\ ~InBuffer(cur)
  /\ phase' = "panicked"
  /\ UNCHANGED <<chosen, it, left, buffer, infixes, specs, mask>>

EndInfixes ==
  /\ phase = "infix" /\ cur > len
  /\ phase' = "prefixes"
  /\ UNCHANGED <<chosen, it, left, buffer, infixes, specs, mask>>

EndPrefixes ==
  /\ phase = "prefixes" /\ left = 0
  /\ IF Overflows
       THEN phase' = "panicked" /\ UNCHANGED <<it, left>>
       ELSE phase' = "devices" /\ it' = DevicesAt /\ left' = DevicesLen
  /\ UNCHANGED <<chosen, buffer, infixes, specs, mask>>

-----------------------------------------------------------------------------
(* get_device_infos. *)

NextDevices == NextBuffer("devices", "slot")

(* Mutants of MoreSlots: a slot that ends with the buffer is left out, and *)
(* the condition of the other loop.                                        *)
MoreSlotsShort == cur + SlotSize < len
MoreSlotsPast == cur <= len

MoreSlots == cur + SlotSize <= len

ReadSlot ==
  /\ phase = "slot" /\ MoreSlots
  /\ IF cur + SlotSize > len
       THEN phase' = "panicked" /\ UNCHANGED <<cur, specs>>
       ELSE specs' = Append(specs, at + cur) /\ cur' = cur + SlotSize /\ UNCHANGED phase
  /\ UNCHANGED <<chosen, it, left, at, len, infixes, mask>>

EndSlots ==
  /\ phase = "slot" /\ ~MoreSlots
  /\ phase' = "devices"
  /\ UNCHANGED <<chosen, it, left, buffer, infixes, specs, mask>>

Ilog2(n) == CHOOSE k \in 0 .. 15 : 2 ^ k <= n /\ n < 2 ^ (k + 1)

(* A mutant of MaskFor: one bit less.                                      *)
MaskForShort(n) == IF n = 0 THEN 0 ELSE 2 ^ Ilog2(n) - 1

MaskFor(n) == IF n = 0 THEN 0 ELSE 2 ^ (Ilog2(n) + 1) - 1

Finish ==
  /\ phase = "devices" /\ left = 0
  /\ mask' = MaskFor(Len(specs))
  /\ phase' = "mounted"
  /\ UNCHANGED <<chosen, it, left, buffer, infixes, specs>>

-----------------------------------------------------------------------------
(* `?` on what the backend answers. *)
BackendFails ==
  /\ phase = "superblock" \/ (phase \in {"prefixes", "devices"} /\ left > 0)
  /\ phase' = "failed"
  /\ UNCHANGED <<chosen, it, left, buffer, infixes, specs, mask>>

Work ==
  \/ ReadSuperblock
  \/ NextPrefixes \/ ParseInfix \/ ParsePanics \/ EndInfixes \/ EndPrefixes
  \/ NextDevices \/ ReadSlot \/ EndSlots \/ Finish

Next == Work \/ BackendFails

Spec == Init /\ [][Next]_vars

(* A mount is one call, and runs to its end. *)
FairSpec == Spec /\ WF_vars(Work)

-----------------------------------------------------------------------------
(* Properties. *)

(* The iterator runs neither below zero nor past 2^64, and a buffer is     *)
(* never longer than the block it is cut from.                             *)
TypeOK ==
  /\ image \in Images /\ mapped \in BOOLEAN
  /\ phase \in Ends \cup {"superblock", "prefixes", "infix", "devices", "slot"}
  /\ it \in 0 .. OffSize - 1 /\ left \in Nat
  /\ at \in Nat /\ len \in 0 .. BlkSz /\ cur \in Nat
  /\ infixes \in Seq([at: Nat, len: Nat])
  /\ specs \in Seq(Nat) /\ mask \in 0 .. MaskMax

SlotAt(k) == DevicesAt + (k - 1) * SlotSize

(* However the slots lie over blocks, a mounted image has the extra        *)
(* devices of its table, in their order, none twice and none left out but  *)
(* those a mapped image ends before (devices.rs:48-65).                    *)
DevicesExact ==
  phase = "mounted" =>
    /\ Len(specs) <= Sb.extra_devices
    /\ \A k \in 1 .. Len(specs) : specs[k] = SlotAt(k)
    /\ \A k \in 1 .. Sb.extra_devices :
         ~(mapped /\ SlotAt(k) + SlotSize > image.len) => k <= Len(specs)

(* The mask lets every device number through, 1 to the number of devices,  *)
(* and no bit more than the largest needs (devices.rs:67-71).              *)
MaskExact ==
  phase = "mounted" =>
    /\ \A id \in 0 .. Len(specs) : id % (mask + 1) = id
    /\ (mask + 1) \div 2 <= Len(specs)

(* The prefixes that were read lie within the table, after their sizes,    *)
(* one behind the other (operations.rs:112-118).                           *)
InfixesInTable ==
  \A k \in 1 .. Len(infixes) :
    LET first == IF k = 1 THEN PrefixStart
                          ELSE infixes[k - 1].at + infixes[k - 1].len
    IN  /\ first + 2 <= infixes[k].at
        /\ infixes[k].at + infixes[k].len <= PrefixStart + PrefixLen

(* What makes a mount panic: a table of prefixes; a negative number or     *)
(* place of devices, which overflows when it is made an address            *)
(* (superblock/file.rs:85-86), before any is read; memory that ends before *)
(* the superblock, or before the table of devices does.  Nothing else of   *)
(* the superblock does, and no slot: their loop ends where the buffer does *)
(* (devices.rs:52).                                                        *)
PanicCauses ==
  phase = "panicked" =>
    \/ Sb.xattr_prefix_count > 0 /\ specs = <<>>
    \/ (Sb.devt_slotoff < 0 \/ Sb.extra_devices < 0) /\ specs = <<>>
    \/ mapped /\ image.len < SuperOffset
    \/ mapped /\ image.len < DevicesAt + DevicesLen

(* A table that starts at a multiple of four is never got over: the loop   *)
(* goes on at `cur` = `len` (operations.rs:112), and every buffer of such  *)
(* a table has a multiple of four bytes.  An image whose prefixes are      *)
(* aligned, as their entries are, has mounted only if it has none.         *)
AlignedTablesPanic ==
  phase \in {"devices", "slot", "mounted"} /\ PrefixStart % 4 = 0
    => Sb.xattr_prefix_count = 0

(* Every mount comes to an end. *)
MountEnds == <>(phase \in Ends)

=============================================================================
