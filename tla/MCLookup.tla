----------------------------- MODULE MCLookup ------------------------------
(* A tree of three directories and four files, in 64-byte blocks.           *)
EXTENDS Lookup

Folder(layout, n, size, blocks, child) ==
  [ inode  |-> [ layout |-> layout, mode |-> "Directory", version |-> "Compact",
                 icount |-> 0, nid |-> n, size |-> size, blkaddr |-> 20,
                 chunkblks |-> 1, table |-> <<>> ],
    blocks |-> blocks,
    child  |-> child ]

Block(names, pad) == [ents |-> names, pad |-> pad]

(* The root holds the file a, the directory d, which is the last name of   *)
(* the first block, and the file e.                                        *)
Root == Folder("FlatInline", 0, 80,
  <<Block(<<"a", "d">>, FALSE), Block(<<"e">>, FALSE)>>,
  [m \in {"a", "d", "e"} |-> IF m = "a" THEN 5 ELSE IF m = "d" THEN 2 ELSE 9])
Sub == Folder("FlatPlain", 2, 150,
  <<Block(<<"a", "b">>, FALSE), Block(<<"d">>, FALSE), Block(<<"e">>, FALSE)>>,
  [m \in {"a", "b", "d", "e"} |->
     IF m = "a" THEN 5 ELSE IF m = "b" THEN 4 ELSE IF m = "d" THEN 0 ELSE 9])

(* A directory in chunks the second of which is not stored. *)
Holed == [Folder("ChunkMap", 4, 80,
  <<Block(<<"a">>, FALSE), Block(<<"b">>, FALSE)>>,
  [m \in {"a", "b"} |-> 5])
    EXCEPT !.inode.table = [c \in 0 .. 1 |-> IF c = 0 THEN 31 ELSE NullAddr]]

FullTree == [n \in {0, 2, 4} |-> IF n = 0 THEN Root ELSE IF n = 2 THEN Sub ELSE Holed]
Files == {5, 9}

SomePaths == { <<>>, <<"", "a">>, <<"e">>, <<"z">>, <<"d", "", "e">>, <<"d", "e", "">>,
               <<"d", "z">>, <<"d", "b", "a">>, <<"d", "b", "b">>, <<"d", "d", "d", "a">>, <<"z", "a">> }
=============================================================================
