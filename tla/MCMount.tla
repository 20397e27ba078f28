------------------------------ MODULE MCMount ------------------------------
(* Blocks of 256 bytes.  Every table of prefixes is combined with every    *)
(* table of devices in images of three lengths: one without a superblock,  *)
(* one that ends in the middle of a device slot, and one of whole blocks.  *)
(* 2^24 takes the place of 2^64: TLC's own numbers end at 2^31.            *)
EXTENDS Mount

Table(start, count, sizes) == [start |-> start, count |-> count, sizes |-> sizes]
Devices(slotoff, count) == [slotoff |-> slotoff, count |-> count]

NoSizes == [a \in {} |-> 0]

Tables ==
  { Table(0, 0, NoSizes),
    Table(1152, 2, [a \in {1152} |-> 6]),     \* one entry, the whole table
    Table(1276, 2, NoSizes),                  \* aligned, across two blocks
    Table(1278, 1, NoSizes),                  \* two bytes in each of two blocks
    Table(1275, 3, [a \in {1275, 1280} |-> IF a = 1275 THEN 3 ELSE 5]),
    Table(1275, 3, [a \in {1275, 1280} |-> IF a = 1275 THEN 3 ELSE 40]),
    Table(1270, 3, [a \in {1270, 1274} |-> IF a = 1270 THEN 1 ELSE 2]),
    Table(1279, 1, NoSizes),                  \* a block ends within a size
    Table(1300, 1, NoSizes),
    Table(-4, 0, NoSizes), Table(-4, 2, NoSizes), Table(-3, 1, NoSizes) }

DeviceTables ==
  { Devices(0, 0),
    Devices(10, 1),
    Devices(9, 3),     \* over the end of a block
    Devices(8, 7),     \* over several
    Devices(15, 2),    \* over the end of the image
    Devices(15, 4),
    Devices(30, 1),    \* behind it
    Devices(-1, 1), Devices(-32768, 0), Devices(9, -1), Devices(32767, 1) }

MCImages ==
  { [ len |-> n,
      xattr_prefix_start |-> t.start, xattr_prefix_count |-> t.count, sizes |-> t.sizes,
      devt_slotoff |-> d.slotoff, extra_devices |-> d.count ] :
    n \in {512, 2000, 2048}, t \in Tables, d \in DeviceTables }
=============================================================================
