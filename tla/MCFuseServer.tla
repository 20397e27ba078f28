---------------------------- MODULE MCFuseServer ----------------------------
(* An image of 64-byte blocks, two slots each: the root; a directory with  *)
(* an entry of no known type, an empty one, and one with a hole after its  *)
(* first block; a file in two blocks of the inode table with more than 63  *)
(* shared attributes, the second chunk of which is a hole; a link; and a   *)
(* compressed file that starts with a block and whose indexes, in two      *)
(* blocks, are cut off by the end of the image.  Nothing overlaps.         *)
EXTENDS FuseServer

Stored(version, mode, layout, size, blkaddr) ==
  [ version |-> version, layout |-> layout, icount |-> 0, mode |-> mode, perm |-> 493,
    size |-> size, blkaddr |-> blkaddr, chunkblks |-> 1, table |-> [c \in {} |-> 0], shared |-> 0 ]

HoleAfter(blk) == [c \in 0 .. 1 |-> IF c = 0 THEN blk ELSE NullAddr]

Table ==
  [ n \in {2, 3, 4, 5, 17, 19, 28} |->
      CASE n = 2  -> Stored("Compact", "Directory", "FlatPlain", 10, 1)
        [] n = 3  -> Stored("Compact", "Directory", "FlatPlain", 10, 12)
        [] n = 4  -> Stored("Compact", "Directory", "FlatPlain", 0, 0)
        [] n = 5  -> [ Stored("Extended", "Regular", "ChunkMap", 70, 0)
                         EXCEPT !.icount = 71, !.shared = 70, !.table = HoleAfter(13) ]
        [] n = 17 -> [ Stored("Compact", "Directory", "ChunkIndex", 65, 0)
                         EXCEPT !.table = HoleAfter(14) ]
        [] n = 19 -> Stored("Compact", "Link", "FlatInline", 4, 0)
        [] n = 28 -> [ Stored("Extended", "Regular", "CompressedFull", 70, 0)
                         EXCEPT !.icount = 21, !.shared = 20, !.perm = 2541 ] ]

Named(name, nid, dtype) == [name |-> name, nid |-> nid, dtype |-> dtype]

(* The last entry of the directory with a hole leads past the end of the   *)
(* image.                                                                  *)
Tree ==
  [ d \in {2, 3, 17} |->
      CASE d = 2  -> << Named("file", 5, 1), Named("odd", 3, 2), Named("empty", 4, 2),
                        Named("dir", 17, 2), Named("cut", 28, 1), Named("link", 19, 7) >>
        [] d = 3  -> << Named("..", 2, 2), Named("what", 19, 9) >>
        [] d = 17 -> << Named("..", 2, 2), Named("past", 40, 1) >> ]

AllNames == {"file", "odd", "empty", "dir", "cut", "link", "..", "past", "bad"}
NotUtf8 == {"bad"}

(* Before a hole, in it or across it, and behind the end of a file.        *)
Parts == { [from |-> 0, len |-> 8], [from |-> 60, len |-> 8], [from |-> 72, len |-> 8] }
=============================================================================
