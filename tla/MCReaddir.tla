----------------------------- MODULE MCReaddir ------------------------------
(* Directories for Readdir: 64-byte blocks of at most three entries.       *)
EXTENDS Readdir

Folder(layout, nid, size, blocks) ==
  [ inode  |-> [ layout |-> layout, mode |-> "Directory", version |-> "Compact",
                 icount |-> 0, nid |-> nid, size |-> size, blkaddr |-> 20,
                 chunkblks |-> 1, table |-> <<>> ],
    blocks |-> blocks ]

Block(names, pad) == [ents |-> names, pad |-> pad]

One   == Folder("FlatPlain", 0, 30, <<Block(<<"a", "b">>, FALSE)>>)
Three == Folder("FlatPlain", 2, 150,
  <<Block(<<"a", "b", "c">>, TRUE), Block(<<"d">>, FALSE), Block(<<"e">>, FALSE)>>)
(* The size is a multiple of the block. *)
Whole == Folder("FlatPlain", 4, 128,
  <<Block(<<"a", "b">>, FALSE), Block(<<"c", "d", "e">>, FALSE)>>)
(* The tail is stored after the inode, 32 bytes into a block. *)
Inline == Folder("FlatInline", 6, 94,
  <<Block(<<"a", "b", "c">>, TRUE), Block(<<"d", "e">>, FALSE)>>)
(* Chunks of one block, out of order. *)
Chunked == [Folder("ChunkMap", 8, 100,
  <<Block(<<"a", "b">>, TRUE), Block(<<"c", "d">>, FALSE)>>)
    EXCEPT !.inode.table = [c \in 0 .. 1 |-> 31 - c]]

(* The second chunk is not stored. *)
Holed == [Chunked EXCEPT !.inode.nid = 10,
                         !.inode.table = [c \in 0 .. 1 |-> IF c = 0 THEN 31 ELSE NullAddr]]

SomeDirs == {One, Three, Whole, Inline, Chunked, Holed}

SomeOffsets == {0, 1, 12, 25, 36, 62, 64, 76, 94, 100, 128, 151}
SomeSkips   == {0, 2, 4, 9}
=============================================================================
