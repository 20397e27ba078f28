---------------------------- MODULE MCXattrScan ----------------------------
(* Images of 32-byte blocks.  An image is a set of pieces, bytes with the   *)
(* address they start at; the rest is zero.                                 *)
EXTENDS XattrScan

Piece(a, b) == [at |-> a, bytes |-> b]

Assembled(pieces) ==
  LET byte(a) ==
        LET here == { p \in pieces : a \in p.at .. p.at + Len(p.bytes) - 1 }
        IN  IF here = {} THEN 0
            ELSE LET p == CHOOSE q \in here : TRUE IN p.bytes[a - p.at + 1]
  IN  [ j \in 1 .. ImgLen |-> byte(j - 1) ] \o <<>>

Summary(count) == [ j \in 1 .. 12 |-> IF j = 5 THEN count ELSE 77 ]
Entry(index, suffix, value) ==
  <<Len(suffix), index, Len(value), 0>> \o suffix \o value
Indexes(ws) == [ j \in 1 .. 4 * Len(ws) |-> IF j % 4 = 1 THEN ws[(j + 3) \div 4] ELSE 0 ]

Inode(nid, icount) == [nid |-> nid, version |-> "Extended", icount |-> icount]

(* Bytes of names and values: text, which no prefix has for an index. *)
Text(n) == [ j \in 1 .. n |-> 96 + j ]
Differs(name, k) == [ name EXCEPT ![k] = 122 ]

(* Four entries, up to the edge of a block, at its start, and with a name   *)
(* across one, and two shared ones.                                         *)
Mixed == Inode(1, 15)
(* A value across two blocks before another entry. *)
LongValue == Inode(6, 11)
(* An entry with an infix that the image does not have. *)
Foreign == Inode(10, 5)
OnlyShared == Inode(14, 2)
Bare == Inode(0, 0)

MixedImage == Assembled({
  Piece(96, Summary(2)), Piece(108, Indexes(<<0, 4>>)),
  Piece(116, Entry(1, <<97, 98>>, Text(3))),
  Piece(128, Entry(128, <<99>>, <<>>)),
  Piece(136, Entry(1, <<97, 100>>, Text(2))),
  Piece(144, Entry(6, Text(14), Text(2))),
  Piece(256, Summary(0)),
  Piece(268, Entry(1, <<97, 98>>, Text(24))),
  Piece(300, Entry(6, <<115>>, Text(3))),
  Piece(384, Summary(0)),
  Piece(396, Entry(133, <<99>>, <<97>>)),
  Piece(404, Entry(1, <<97, 98>>, <<>>)),
  Piece(512, Summary(1)), Piece(524, Indexes(<<0>>)),
  Piece(576, Entry(1, <<98>>, Text(9))),
  Piece(592, Entry(4, Text(20), <<97>>)) })

SomeInfixes == <<[prefix |-> 6, name |-> <<120>>]>>

Get(i, prefix, name, room) ==
  [op |-> "get", inode |-> i, prefix |-> prefix, name |-> name, room |-> room]
List(i, room) == [op |-> "list", inode |-> i, room |-> room]

AllRequests ==
  { Get(Mixed, 1, <<97, 98>>, r) : r \in {NoBuffer, 2, 3} }
    \cup { Get(Mixed, 1, n, NoBuffer) : n \in {<<97, 100>>, <<122, 122>>, <<99>>, <<>>} }
    \cup { Get(Mixed, 1, <<98>>, r) : r \in {NoBuffer, 8, 9} }
    \cup { Get(Mixed, 6, n, 4) : n \in {<<120, 99>>, <<120, 98>>, Text(14), Differs(Text(14), 13)} }
    \cup { Get(Mixed, 4, n, 4) : n \in {Text(20), Differs(Text(20), 2), Differs(Text(20), 20)} }
    \cup { Get(LongValue, 1, <<97, 98>>, 30), Get(LongValue, 6, <<115>>, 30) }
    \cup { Get(Foreign, 1, <<97, 98>>, 0), Get(OnlyShared, 1, <<98>>, NoBuffer) }
    \cup { Get(Bare, 1, <<97, 98>>, NoBuffer) }
    \cup { List(Mixed, r) : r \in {0, 20, 87, 88, 200} }
    \cup { List(OnlyShared, 7), List(Foreign, 100), List(Bare, 0) }

-----------------------------------------------------------------------------
(* TLC evaluates a definition once, and what replaces a constant each time *)
(* it is used: the constants' values only name the definitions above.      *)
SomeImage == MixedImage
SomeRequests == AllRequests

(* The theorems about answers are about requests like these.               *)
ASSUME PlainRequests == \A r \in Requests : Plain(r)
=============================================================================
