----------------------------- MODULE InodeLoad ------------------------------
(***************************************************************************)
(* The inode collection and what it does on a miss: `iget` answers from    *)
(* the hash map or reads the inode with `InodeInfo::try_from` and its      *)
(* shared indexes with `read_inode_xattrs_shared_entries`, and inserts it  *)
(* when both succeeded.  A step is one call of the backend, which may fail *)
(* each time.                                                              *)
(***************************************************************************)
EXTENDS InodeTable, Sequences

VARIABLES
  stage,      \* idle, base, rest, summary, indexes, insert, got, failed
  target,     \* the nid iget was called with
  todo,       \* fills of try_from that are left
  bytes,      \* `buf` of try_from
  it, left,   \* offset and len of the ContinuousIter over the indexes
  words,      \* `indexes`
  collection  \* the hash map, nid -> [bytes, shared]

local == <<todo, bytes, it, left, words>>
load == <<stage, target, local, collection>>

NoBytes == [j \in 0 .. 63 |-> Zero]
NoEntries == [n \in {} |-> Zero]

Filling == {"base", "rest", "summary", "indexes"}

LoadInit ==
  /\ stage = "idle" /\ target = 0
  /\ todo = <<>> /\ bytes = NoBytes /\ it = 0 /\ left = 0 /\ words = <<>>
  /\ collection = NoEntries

-----------------------------------------------------------------------------
(* try_from: a call of Backend::fill is the address, the first byte of the *)
(* buffer and the number of bytes.                                         *)

Fill(at, dst, n) == [at |-> at, dst |-> dst, n |-> n]

BaseFill(nid) == Fill(Iloc(nid), 0, 32)

(* Mutants: the second half is read where the first is, or the whole inode *)
(* is read at once.                                                        *)
RestFillsAgain(nid) == <<Fill(Iloc(nid), 32, 32)>>
RestFillsWhole(nid) == <<Fill(Iloc(nid), 0, 64)>>

(* The second half of an extended inode.  `gotten` is 64 for every slot,   *)
(* so there never is a third fill at the start of the next block.          *)
RestFills(nid) ==
  LET offset == Iloc(nid)
      gotten == Lesser(BlkSz - BlkAccess(offset).off + 32, 64)
      next   == BlkPos(BlkAccess(offset).nr + 1)
  IN  <<Fill(offset + 32, 32, Lesser(32 + gotten, 64) - 32)>>
        \o IF gotten < 32 THEN <<Fill(next, 32 + gotten, 32 - gotten)>> ELSE <<>>

Filled(b, f) ==
  [ j \in 0 .. 63 |->
      IF f.dst <= j /\ j < f.dst + f.n THEN ByteAt(f.at + (j - f.dst)) ELSE b[j] ]

(* The format, the mode, the size, i_u and the count of attributes are in  *)
(* the first 32 bytes.                                                     *)
Info(b) == InodeAt(b[0])

AfterInfo(b) == IF XattrSize(Info(b)) = 0 THEN "insert" ELSE "summary"

ReadBase ==
  /\ stage = "base"
  /\ bytes' = Filled(bytes, Head(todo))
  /\ IF Info(bytes').version = "Extended"
       THEN stage' = "rest" /\ todo' = RestFills(target)
       ELSE stage' = AfterInfo(bytes') /\ todo' = <<>>
  /\ UNCHANGED <<target, it, left, words, collection>>

ReadRest ==
  /\ stage = "rest"
  /\ bytes' = Filled(bytes, Head(todo))
  /\ todo' = Tail(todo)
  /\ stage' = IF Tail(todo) = <<>> THEN AfterInfo(bytes') ELSE "rest"
  /\ UNCHANGED <<target, it, left, words, collection>>

-----------------------------------------------------------------------------
(* read_inode_xattrs_shared_entries. *)

SummaryFill == Fill(Iloc(target) + InodeSize(Info(bytes)), 0, 12)

(* header.shared_count << 2, in the eight bits of shared_count. *)
SharedLen(at) == IF at < ImgLen THEN (4 * Info(bytes).shared) % 256 ELSE 0

ReadSummary ==
  /\ stage = "summary"
  /\ it' = SummaryFill.at + 12
  /\ left' = SharedLen(SummaryFill.at)
  /\ stage' = IF left' = 0 THEN "insert" ELSE "indexes"
  /\ UNCHANGED <<target, todo, bytes, words, collection>>

(* A mutant of Piece: the last piece is not cut off where the indexes end. *)
PieceUncut == BlkAccess(it).len

(* The iterator cuts the indexes at block boundaries. *)
Piece == Lesser(BlkAccess(it).len, left)

PieceWords == [k \in 1 .. Piece \div 4 |-> ByteAt(it + 4 * (k - 1))]

ReadIndexes ==
  /\ stage = "indexes"
  /\ words' = words \o PieceWords
  /\ it' = it + Piece
  /\ left' = left - Piece
  /\ stage' = IF left' = 0 THEN "insert" ELSE "indexes"
  /\ UNCHANGED <<target, todo, bytes, collection>>

-----------------------------------------------------------------------------
(* iget and release. *)

Get(nid) ==
  /\ stage = "idle"
  /\ target' = nid
  /\ IF nid \in DOMAIN collection
       THEN stage' = "got" /\ UNCHANGED todo
       ELSE stage' = "base" /\ todo' = <<BaseFill(nid)>>
  /\ UNCHANGED <<bytes, it, left, words, collection>>

Drop ==
  /\ todo' = <<>> /\ bytes' = NoBytes
  /\ it' = 0 /\ left' = 0 /\ words' = <<>>

With(nid, entry) ==
  [n \in DOMAIN collection \cup {nid} |-> IF n = nid THEN entry ELSE collection[n]]

Insert ==
  /\ stage = "insert"
  /\ collection' = With(target, [bytes |-> bytes, shared |-> words])
  /\ stage' = "got"
  /\ Drop
  /\ UNCHANGED target

LoadFailsInserted ==    \* a mutant: the entry is made before it is read
  /\ stage \in Filling
  /\ collection' = With(target, [bytes |-> bytes, shared |-> words])
  /\ stage' = "failed"
  /\ Drop
  /\ UNCHANGED target

(* `?` on a fill: nothing is inserted. *)
LoadFails ==
  /\ stage \in Filling
  /\ stage' = "failed"
  /\ Drop
  /\ UNCHANGED <<target, collection>>

Load == ReadBase \/ ReadRest \/ ReadSummary \/ ReadIndexes \/ Insert

(* iget has returned and its caller is done with the borrowed inode. *)
Leave ==
  /\ stage \in {"got", "failed"}
  /\ stage' = "idle"
  /\ UNCHANGED <<target, local, collection>>

(* release, which a handler calls without looking whether it is there.     *)
Remove(nid) ==
  /\ stage = "idle"
  /\ collection' = [n \in DOMAIN collection \ {nid} |-> collection[n]]
  /\ UNCHANGED <<stage, target, local>>

(* Any caller of the collection. *)
LoadNext ==
  \/ \E nid \in Nat : Get(nid) \/ Remove(nid)
  \/ Load \/ LoadFails \/ Leave

LoadSpec == LoadInit /\ [][LoadNext]_load

-----------------------------------------------------------------------------
(* Properties. *)

(* The local variables: fills are left over only while the inode is read,  *)
(* and the iterator never goes past the end of the indexes.                *)
LoadTypeOK ==
  /\ stage \in {"idle", "insert", "got", "failed"} \cup Filling
  /\ target \in Nat
  /\ bytes \in [0 .. 63 -> Nat \cup {Zero}]
  /\ it \in Nat /\ left \in Nat
  /\ words \in Seq(Nat \cup {Zero})
  /\ DOMAIN collection \subseteq Nat
  /\ stage \in {"base", "rest"} => todo # <<>>
  /\ stage = "got" => target \in DOMAIN collection

(* An entry of the collection and the image: the bytes of the slot, and    *)
(* the indexes kept, which are the first ones of the image; and that none  *)
(* of them is missing.                                                     *)
Shared(n) == DiskInode(n).version = "Extended" /\ DiskInode(n).icount # 0

StoredCount(n) == IF Shared(n) THEN DiskSharedCount(n) ELSE 0

Faithful(n, e) ==
  /\ \A j \in 0 .. InodeSize(DiskInode(n)) - 1 : e.bytes[j] = ByteAt(Iloc(n) + j)
  /\ Len(e.shared) <= StoredCount(n)
  /\ \A k \in 1 .. Len(e.shared) : e.shared[k] = ByteAt(IndexAt(n, k))

Complete(n, e) == Len(e.shared) = StoredCount(n)

(* However an inode got into the collection, in one fill or two, with its  *)
(* indexes in one block or several, it is what the image stores in its     *)
(* slot, and its indexes are those of the image in their order: all of     *)
(* them for an inode with fewer than 64.  From 64 on, shared_count << 2    *)
(* does not fit in its eight bits, and indexes at the end are lost         *)
(* (main.rs:68-77, inode.rs:409-430, superblock.rs:410-426).               *)
CacheExact ==
  \A n \in DOMAIN collection :
    /\ Faithful(n, collection[n])
    /\ StoredCount(n) < 64 => Complete(n, collection[n])

(* The call of the backend that comes next. *)
Pending ==
  IF stage = "indexes" THEN Fill(it, 0, Piece)
  ELSE IF stage = "summary" THEN SummaryFill ELSE Head(todo)

(* No call of the backend crosses a block, so that a backend over pages,   *)
(* where "cross page memory is not supported" (data.rs:28-29), can serve   *)
(* each of them.                                                           *)
FillsInBlock ==
  stage \in Filling => BlkAccess(Pending.at).off + Pending.n <= BlkSz

(* An inode whose loading failed half way, or is still going on, is not in *)
(* the collection: a later iget reads it again from its start.             *)
AllOrNothing ==
  stage \in Filling \cup {"insert", "failed"} => target \notin DOMAIN collection
=============================================================================
