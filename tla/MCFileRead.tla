---------------------------- MODULE MCFileRead -----------------------------
(* Images for FileRead: 16-byte blocks, one inode per shape of the data.   *)
EXTENDS FileRead

File(layout, version, icount, nid, size) ==
  [ layout |-> layout, mode |-> "Regular", version |-> version,
    icount |-> icount, nid |-> nid, size |-> size, blkaddr |-> 40,
    chunkblks |-> 1, table |-> <<>> ]

Table2(a, b) == [c \in 0 .. 1 |-> IF c = 0 THEN a ELSE b]
Table3(a, b, c) == [n \in 0 .. 2 |-> IF n = 0 THEN a ELSE IF n = 1 THEN b ELSE c]

Empty   == File("FlatPlain", "Compact", 0, 0, 0)
Plain   == File("FlatPlain", "Extended", 2, 2, 37)
Exact   == File("FlatPlain", "Compact", 0, 1, 32)
Tail    == File("FlatInline", "Compact", 0, 3, 21)
(* The tail starts 12 bytes into a block and crosses into the next one.    *)
Across  == File("FlatInline", "Extended", 1, 5, 31)
Full    == File("FlatInline", "Extended", 3, 8, 32)
Symlink == [File("FlatInline", "Compact", 0, 12, 9) EXCEPT !.mode = "Link"]

(* Chunks of two blocks, out of order, the table after odd attributes.     *)
Chunked == [File("ChunkMap", "Extended", 2, 14, 70) EXCEPT
              !.chunkblks = 2, !.table = Table3(60, 50, 70)]
Holey   == [File("ChunkMap", "Compact", 0, 17, 40) EXCEPT
              !.chunkblks = 2, !.table = Table2(62, NullAddr)]
Indexed == [File("ChunkIndex", "Extended", 2, 19, 32) EXCEPT
              !.table = Table2(66, 64)]

Fifo    == [Plain EXCEPT !.mode = "Fifo", !.nid = 22]
Packed  == File("CompressedFull", "Compact", 0, 24, 20)

(* Outside what the library supports. *)
Attrs   == File("FlatInline", "Compact", 2, 26, 21)
Partial == [Indexed EXCEPT !.nid = 28, !.size = 21]

FileInodes  == {Empty, Plain, Exact, Tail, Across, Full, Symlink, Chunked, Holey, Indexed,
                Fifo, Packed}
AttrInodes  == {Attrs, Tail}
PartInodes  == {Partial, Indexed}

ReadOffsets == {0, 1, 15, 16, 33, 64, 90}
ReadSizes   == {0, 1, 16, 20, 100}
=============================================================================
